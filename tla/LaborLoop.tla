------------------------------ MODULE LaborLoop ------------------------------
(***************************************************************************)
(* tools/labor-request-contract: run_labor_loop stamps a receipt for each  *)
(* stage of a chain, request to trust, on a ledger that other runs share,  *)
(* and then verifies the ledger, the chain and its receipts.  Pushes of    *)
(* several runs may overlap: each reads the last entry, and only then      *)
(* appends.  A run may raise or die anywhere and be started anew, and a    *)
(* ledger that does not verify may be put back to an earlier state.        *)
(***************************************************************************)
EXTENDS Ledger, SequencesExt

CONSTANTS
    Runners,     \* processes that run the loop
    EvidenceIds, \* ids of evidence packets
    Chains,      \* the chains there may be
    MaxRuns,     \* runs in all, for model checking
    NoChain,     \* nothing taken up yet
    Genesis      \* what the first entry of a ledger continues

\* What may be wrong with a chain besides its evidence: ids and vocabulary
\* (LC-0), references to another request, response or fulfillment (LC-1), a
\* vanity scalar or no standing (LC-4), pay neither disclosed nor exempt (LC-5).
Flaws == {"malformed", "response elsewhere", "award elsewhere", "trust elsewhere",
          "scalar", "no standing", "hidden pay"}

\* Grades E1 to E5, and 0 for any other.
Grades == 0..5
NullHypothesisFloor == 3

Packet == [id : EvidenceIds, elsewhere : BOOLEAN, artifacts : BOOLEAN,
           grade : Grades, nulls : BOOLEAN]
Chain == [flaws : SUBSET Flaws, evidence : Seq(Packet), cited : SUBSET EvidenceIds]

ASSUME ChainsAssumption == Chains \subseteq Chain
ASSUME NoChainAssumption == NoChain \notin Chain
ASSUME RunsAssumption == MaxRuns \in Nat

VARIABLES
    chain,    \* chain[r]: what r runs the loop on
    attempt,  \* attempt[r]: how many runs r has begun
    refs,     \* refs[r]: the receipts stamped in this run, in order
    prev,     \* prev[r]: the entry that r read last and is about to continue
    at        \* at[r]: where the run is, whether it returned, or is over otherwise

laborVars == <<chain, attempt, refs, prev, at, trail, tail>>

Active == {"stamping", "writing", "verifying"}

\* The stages by number: 1 the request, 2 the response, then the evidence,
\* and the last two the fulfillment and the trust binding.
Stage == [by : Runners, attempt : Nat, stage : Nat]

\* An entry has its ledgerSeq, here counted from one, and the hash of the entry
\* that it continues.  Each stage of each run is written at most once, so it
\* stands for its entry there.
Prev == [number : Nat, stage : Stage \cup {Genesis}]
Entry == [stage : Stage, number : Nat, after : Stage \cup {Genesis}]
Ref == [seq : Nat, hash : Entry]

ASSUME GenesisAssumption == Genesis \notin Stage

StageCount(ch) == 4 + Len(ch.evidence)

\* Nothing read, or nothing there.
Start == [number |-> 0, stage |-> Genesis]

LaborInit ==
    /\ chain = [r \in Runners |-> NoChain]
    /\ attempt = [r \in Runners |-> 0]
    /\ refs = [r \in Runners |-> << >>]
    /\ prev = [r \in Runners |-> Start]
    /\ at = [r \in Runners |-> "idle"]
    /\ Empty

-----------------------------------------------------------------------------
(* verify_labor_chain *)

\* What LC-3 asks of a packet that is cited.
Sound(p) ==
    /\ p.artifacts
    /\ p.grade # 0
    /\ p.grade >= NullHypothesisFloor => p.nulls

\* ev_by_id[id]: of packets with one id the last.
LastOf(ch, id) ==
    ch.evidence[CHOOSE i \in DOMAIN ch.evidence :
                   /\ ch.evidence[i].id = id
                   /\ \A j \in DOMAIN ch.evidence : ch.evidence[j].id = id => j <= i]

\* Everything but the receipts.
Teeth(ch) ==
    /\ ch.flaws = {}
    /\ \A p \in ToSet(ch.evidence) : ~ p.elsewhere
    /\ ch.cited # {}
    /\ \A id \in ch.cited :
          /\ \E p \in ToSet(ch.evidence) : p.id = id
          /\ Sound(LastOf(ch, id))

\* The first n entries are one chain, as verify_ledger walks it.
Unbroken(n) ==
    /\ n <= Len(trail)
    /\ \A k \in 1..n :
          /\ trail[k].number = k
          /\ trail[k].after = IF k = 1 THEN Genesis ELSE trail[k - 1].stage

\* Mutant: an entry with the number is enough.
ResolvesByNumber(ref) == \E n \in DOMAIN trail : trail[n].number = ref.seq

\* _resolves_on_spine: the first entry with the number has the hash.
Resolves(ref) ==
    \E n \in DOMAIN trail :
        /\ trail[n] = ref.hash
        /\ \A m \in 1..(n - 1) : trail[m].number # ref.seq

\* Mutant: the receipts without the ledger they are on.
ReceiptedAlone(r) ==
    /\ Len(refs[r]) = StageCount(chain[r])
    /\ \A i \in DOMAIN refs[r] : Resolves(refs[r][i])

\* LC-2, of a ledger that parses: it verifies, and every stage resolves on it.
Receipted(r) ==
    /\ Unbroken(Len(trail))
    /\ Len(refs[r]) = StageCount(chain[r])
    /\ \A i \in DOMAIN refs[r] : Resolves(refs[r][i])

-----------------------------------------------------------------------------
(* run_labor_loop *)

\* A run begins, the first or one after another ended, with a chain that has
\* no receipts yet.
Begin(r, ch) ==
    /\ at[r] \notin Active
    /\ SumFunction(attempt) < MaxRuns
    /\ chain' = [chain EXCEPT ![r] = ch]
    /\ attempt' = [attempt EXCEPT ![r] = @ + 1]
    /\ refs' = [refs EXCEPT ![r] = << >>]
    /\ at' = [at EXCEPT ![r] = "stamping"]
    /\ UNCHANGED <<prev, trail, tail>>

\* A run that does not return leaves nothing behind but its entries.
Ends(r) ==
    /\ at' = [at EXCEPT ![r] = "over"]
    /\ chain' = [chain EXCEPT ![r] = NoChain]
    /\ refs' = [refs EXCEPT ![r] = << >>]
    /\ prev' = [prev EXCEPT ![r] = Start]

\* _last_entry
LastEntry ==
    IF trail = << >> THEN Start
    ELSE [number |-> Last(trail).number, stage |-> Last(trail).stage]

\* The push of the next stage reads the ledger, or raises where it does not
\* parse.
Look(r) ==
    /\ at[r] = "stamping"
    /\ \/ /\ tail # "torn"
          /\ prev' = [prev EXCEPT ![r] = LastEntry]
          /\ at' = [at EXCEPT ![r] = "writing"]
          /\ UNCHANGED <<chain, refs>>
       \/ tail = "torn" /\ Ends(r)
    /\ UNCHANGED <<attempt, trail, tail>>

\* The receipt of stage i of the run of r.
StageOf(r, i) == [by |-> r, attempt |-> attempt[r], stage |-> i]

\* The entry of the next stage, as it follows from what was read.
StageEntry(r) ==
    [stage |-> StageOf(r, Len(refs[r]) + 1),
     number |-> prev[r].number + 1,
     after |-> prev[r].stage]

\* It is appended, and lost where the ledger was torn since it was read.  For
\* model checking, runs hold at most MaxEvents receipts.
Lands(e) ==
    /\ SumFunction([r \in Runners |-> Len(refs[r])]) < MaxEvents
    /\ \/ Emit(e)
       \/ tail = "torn" /\ UNCHANGED <<trail, tail>>

\* The receipt of what was appended is kept, and the run goes on.
Stamped(r) ==
    /\ Lands(StageEntry(r))
    /\ refs' = [refs EXCEPT ![r] =
                   Append(@, [seq |-> StageEntry(r).number, hash |-> StageEntry(r)])]
    /\ at' = [at EXCEPT ![r] =
                 IF Len(refs[r]) + 1 = StageCount(chain[r]) THEN "verifying" ELSE "stamping"]
    /\ prev' = [prev EXCEPT ![r] = Start]
    /\ UNCHANGED chain

\* Mutant: tried again until the ledger takes it.
StampRetrying(r) ==
    /\ at[r] = "writing"
    /\ \/ Stamped(r)
       \/ /\ EmitFails(StageEntry(r))
          /\ at' = [at EXCEPT ![r] = "stamping"]
          /\ UNCHANGED <<refs, prev, chain>>
    /\ UNCHANGED attempt

\* The next stage is stamped, or its append raises.
Stamp(r) ==
    /\ at[r] = "writing"
    /\ \/ Stamped(r)
       \/ EmitFails(StageEntry(r)) /\ Ends(r)
    /\ UNCHANGED attempt

\* Mutant: the record of the verification taken for the end of the run.
VerifyRecorded(r) ==
    /\ at[r] = "verifying"
    /\ at' = [at EXCEPT ![r] = "verified"]
    /\ UNCHANGED <<chain, attempt, refs, prev, trail, tail>>

\* The chain is verified and returned, or rejected; where the ledger does not
\* parse, reading it raises.
Verify(r) ==
    /\ at[r] = "verifying"
    /\ \/ /\ Teeth(chain[r]) /\ tail # "torn" /\ Receipted(r)
          /\ at' = [at EXCEPT ![r] = "returned"]
          /\ UNCHANGED <<chain, refs, prev>>
       \/ ~ (Teeth(chain[r]) /\ tail # "torn" /\ Receipted(r)) /\ Ends(r)
    /\ UNCHANGED <<attempt, trail, tail>>

Crash(r) ==
    /\ at[r] \in Active
    /\ Ends(r)
    /\ UNCHANGED <<attempt, trail, tail>>

\* An operator puts a ledger that does not verify, or does not end in a newline,
\* back to its first n entries, which do.
Restore(n) ==
    /\ tail # "clean" \/ ~ Unbroken(Len(trail))
    /\ Unbroken(n)
    /\ trail' = SubSeq(trail, 1, n)
    /\ tail' = "clean"
    /\ UNCHANGED <<chain, attempt, refs, prev, at>>

LaborNext ==
    \/ \E r \in Runners :
          \/ \E ch \in Chains : Begin(r, ch)
          \/ Look(r)
          \/ Stamp(r)
          \/ Verify(r)
          \/ Crash(r)
    \/ \E n \in 0..Len(trail) : Restore(n)

\* A run that was begun goes on, unless it dies.
LaborFairness == \A r \in Runners : WF_laborVars(Look(r) \/ Stamp(r) \/ Verify(r))

LaborSpec == LaborInit /\ [][LaborNext]_laborVars /\ LaborFairness

-----------------------------------------------------------------------------
(* Properties *)

\* Types of the runs and of the ledger.
LaborTypeOK ==
    /\ chain \in [Runners -> Chains \cup {NoChain}]
    /\ attempt \in [Runners -> Nat]
    /\ refs \in [Runners -> Seq(Ref)]
    /\ prev \in [Runners -> Prev]
    /\ at \in [Runners -> Active \cup {"idle", "returned", "over"}]
    /\ LedgerOK(Entry)

\* When the loop returns, the ledger has the stages of this very run, each
\* after the one before, however other runs, overlapping pushes, failures and
\* ledgers put back came in between.
ReturnsInOrder ==
    [][\A r \in Runners :
          at[r] # "returned" /\ at'[r] = "returned" =>
              \A i \in 1..StageCount(chain[r]) :
                  \E n \in DOMAIN trail :
                      /\ trail[n].stage = StageOf(r, i)
                      /\ i > 1 => \E m \in 1..(n - 1) :
                                     trail[m].stage = StageOf(r, i - 1)]_laborVars

\* The receipt of its trust binding vouches for all of a returned chain: as long
\* as that one resolves, whatever was forked, torn or put back since, the
\* ledger up to it is one chain and every other stage resolves on it.
TrustVouches ==
    \A r \in Runners :
        LET ref == refs[r][Len(refs[r])]
        IN  at[r] = "returned" /\ Resolves(ref) =>
                /\ Unbroken(ref.seq)
                /\ \A i \in DOMAIN refs[r] :
                      refs[r][i].seq <= ref.seq /\ Resolves(refs[r][i])

\* Every run that is begun comes to an end.
RunsEnd == \A r \in Runners : at[r] \in Active ~> at[r] \notin Active
=============================================================================
