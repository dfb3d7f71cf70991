---------------------------- MODULE WitnessQuorum ----------------------------
(***************************************************************************)
(* tools/proof-artifact-spine/witness_quorum.py: witnesses sign receipts,  *)
(* and promote lets a receipt through on a block of k signatures that were *)
(* made at any time before, for it or for another, put together by anyone. *)
(* The block's own roster says which key stands for which witness.         *)
(***************************************************************************)
EXTENDS Naturals, FiniteSets, SequencesExt

CONSTANTS
    Receipts,    \* the receipts there are, by entryHash
    Ids,         \* witness ids
    Keys,        \* private keys
    Rosters,     \* the rosters that blocks come with
    NotAKey,     \* a public key that cannot be loaded
    MaxK,        \* bounds on the blocks, for model checking
    MaxSigs,
    Nothing      \* nothing promoted yet

Enrolled == [id : Ids, key : Keys \cup {NotAKey}, alg : BOOLEAN]

ASSUME RostersAssumption == Rosters \subseteq Seq(Enrolled)
ASSUME NotAKeyAssumption == NotAKey \notin Keys

\* A signature as the block shows it: under an id, made with a key over the
\* payload of a receipt.
Signature == [id : Ids, key : Keys, over : Receipts]

\* A block: whether the scheme and the hash of the payload are as they should
\* be, the receipt it is for, its threshold, its roster and its signatures.
Block ==
    [sound : BOOLEAN, committed : Receipts,
     k : 0..MaxK, n : Nat, roster : Rosters, sigs : Seq(Signature)]
Promotion == [receipt : Receipts, block : Block, k : 0..MaxK]
ASSUME NothingAssumption == Nothing \notin Promotion

VARIABLES
    signed,    \* <<key, receipt>>: the signatures that were ever made
    promoted   \* the last promotion: the receipt, its block and the k required

quorumVars == <<signed, promoted>>

QuorumInit == signed = {} /\ promoted = Nothing

IdsOf(roster) == {e.id : e \in ToSet(roster)}
UniqueIds(roster) == \A i, j \in DOMAIN roster : roster[i].id = roster[j].id => i = j

\* The signatures on b that verify under the roster's key for their id.
Checks(b, r) ==
    {s \in ToSet(b.sigs) :
        s.over = r /\ \E e \in ToSet(b.roster) : e.id = s.id /\ e.key = s.key}

\* Mutant: signatures counted instead of witnesses.
VerifyCounting(r, b) ==
    /\ b.sound /\ b.committed = r
    /\ b.k >= 1
    /\ Len(b.roster) = b.n
    /\ UniqueIds(b.roster)
    /\ \A e \in ToSet(b.roster) : e.alg /\ e.key # NotAKey
    /\ Checks(b, r) = ToSet(b.sigs)
    /\ Len(b.sigs) >= b.k

\* verify_quorum: one signature that does not check fails the block.
VerifyQuorum(r, b) ==
    /\ b.sound /\ b.committed = r
    /\ b.k >= 1
    /\ Len(b.roster) = b.n
    /\ UniqueIds(b.roster)
    /\ \A e \in ToSet(b.roster) : e.alg /\ e.key # NotAKey
    /\ Checks(b, r) = ToSet(b.sigs)
    /\ Cardinality({s.id : s \in ToSet(b.sigs)}) >= b.k

\* validate_block of tools/validate_sec_witness_quorum.py; the names of the
\* fields and the format of ids and hashes are left out.
ValidBlock(b) ==
    /\ b.sound /\ b.k >= 1 /\ b.n >= 1
    /\ b.roster # << >> /\ \A e \in ToSet(b.roster) : e.alg
    /\ b.sigs # << >>

-----------------------------------------------------------------------------

\* build_quorum_block has the signers sign r, whether or not they are on the
\* roster; the blocks are whatever can be made of the signatures there are.
Build(r, roster, signers) ==
    /\ roster # << >>
    /\ UniqueIds(roster)
    /\ signed' = signed \cup {<<key, r>> : key \in signers}
    /\ UNCHANGED promoted

\* Signatures there are, under whatever id.
Shown == {s \in Signature : <<s.key, s.over>> \in signed}

\* promote; required is 0 where its k is None.  One promotion is followed.
Promote(r, b, required) ==
    /\ promoted = Nothing
    /\ VerifyQuorum(r, b)
    /\ required = 0 \/ b.k = required
    /\ promoted' = [receipt |-> r, block |-> b, k |-> required]
    /\ UNCHANGED signed

\* A caller brings a roster, a threshold that may be off by one, and signatures
\* in any order, some of them twice.
QuorumNext ==
    \/ \E r \in Receipts, roster \in Rosters, signers \in SUBSET Keys :
          Build(r, roster, signers)
    \/ /\ promoted = Nothing
       /\ \E sound \in BOOLEAN, r, c \in Receipts, k, required \in 0..MaxK,
             more \in 0..1, roster \in Rosters, m \in 0..MaxSigs :
             \E sigs \in [1..m -> Shown] :
                Promote(r, [sound |-> sound, committed |-> c, k |-> k,
                            n |-> Len(roster) + more, roster |-> roster, sigs |-> sigs],
                        required)

QuorumSpec == QuorumInit /\ [][QuorumNext]_quorumVars

-----------------------------------------------------------------------------
(* Properties *)

\* Types of the signatures and of the promotion.
QuorumTypeOK ==
    /\ signed \subseteq Keys \X Receipts
    /\ promoted \in Promotion \cup {Nothing}

\* Witnesses of the block's roster that have themselves signed the receipt.
Signers(b, r) == {id \in IdsOf(b.roster) :
                     \E e \in ToSet(b.roster) : e.id = id /\ <<e.key, r>> \in signed}

\* What is promoted was signed by as many witnesses of the roster as the block
\* says, which is one at least, and as many as the caller required, however often
\* a signature is repeated, put under another id or carried over from another receipt.
PromotedOnQuorum ==
    promoted # Nothing =>
        LET b == promoted.block
            signers == Cardinality(Signers(b, promoted.receipt))
        IN  signers >= 1 /\ signers >= b.k /\ signers >= promoted.k

\* A block that promotes is one that the validator lets pass, as far as both
\* look at it, and asks for no more witnesses than it names.
PromotedIsValid ==
    promoted # Nothing =>
        ValidBlock(promoted.block) /\ promoted.block.k <= promoted.block.n
=============================================================================
