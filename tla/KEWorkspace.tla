----------------------------- MODULE KEWorkspace -----------------------------
(***************************************************************************)
(* tools/knowledge-engineering: a workspace of types, dictionary entries   *)
(* and rules that is edited by its authors and taken only when             *)
(* validate_ke_workspace passes it.  The validator sees one workspace at a *)
(* time, the readers (resolve_active) see one after another.               *)
(***************************************************************************)
EXTENDS Naturals, SequencesExt, FiniteSetsExt

CONSTANTS
    Concepts,     \* what dictionary entries are about
    Bindings,     \* ids of type bindings
    Drafts,       \* the entries that authors bring
    MaxVersion,   \* bounds for model checking
    MaxEntries,
    NoEntry       \* nothing resolves

\* PROMOTION_ORDER, and the two side states.
PromotionOrder ==
    <<"observed_term", "extracted_candidate", "source_anchored", "reviewed_definition",
      "operational_definition", "implementation_linked", "tested_doctrine", "public_standard">>
PromotionStates == ToSet(PromotionOrder) \cup {"deprecated", "contested"}

Retired == {"superseded", "tombstoned"}
Statuses == Retired \cup {"active"}

\* sound: anchored, of the vocabulary and with its provenance (_provenance);
\* reviewed: the review state of the anchor is one of REVIEWED; surfaced: every
\* implementation surface has an owner.
Entry == [concept : Concepts, version : 1..MaxVersion, status : Statuses,
          state : PromotionStates, sound : BOOLEAN, reviewed : BOOLEAN, surfaced : BOOLEAN]

\* governed: the schema is a known registry and the member is in it.
Binding == [id : Bindings, governed : BOOLEAN]
\* What a rule refers to, as entity types and as relation types alike.
Rule == SUBSET Bindings

ASSUME DraftsAssumption == Drafts \subseteq Entry
ASSUME NoEntryAssumption == NoEntry \notin Entry
ASSUME BoundsAssumption == MaxVersion \in Nat /\ MaxEntries \in Nat

VARIABLES
    entries,   \* the entries of the dictionaries, in order
    types,     \* entityTypes and relationTypes
    rules,     \* the rules
    newest     \* newest[c]: the highest version that c ever resolved to

keVars == <<entries, types, rules, newest>>

KEInit ==
    /\ entries = << >> /\ types = {} /\ rules = {}
    /\ newest = [c \in Concepts |-> 0]

Of(es, c) == {i \in DOMAIN es : es[i].concept = c}
Live(es, c) == {i \in Of(es, c) : es[i].status \notin Retired}

\* resolve_active: of the live entries of c the first that no other outdoes.
Resolve(es, c) ==
    IF Live(es, c) = {} THEN NoEntry
    ELSE es[CHOOSE i \in Live(es, c) :
              \A j \in Live(es, c) : es[j].version < es[i].version
                                     \/ (es[j].version = es[i].version /\ i <= j)]

-----------------------------------------------------------------------------
(* validate_ke_workspace *)

\* Where a state stands in the order, 0 for the side states.
Standing(state) ==
    IF state \in ToSet(PromotionOrder)
    THEN CHOOSE i \in DOMAIN PromotionOrder : PromotionOrder[i] = state
    ELSE 0

\* validate_dictionary_entry.
EntryOK(e) ==
    /\ e.sound
    /\ Standing(e.state) >= Standing("reviewed_definition") => e.reviewed
    /\ Standing(e.state) >= Standing("implementation_linked") => e.surfaced

\* Mutant: the newest of the live entries instead of all.
SingleActiveAmongLive(es) ==
    \A c \in Concepts :
        /\ Cardinality(Live(es, c)) <= 1
        /\ \A i \in Live(es, c), j \in Live(es, c) : es[j].version <= es[i].version

\* _check_single_active.
SingleActive(es) ==
    \A c \in Concepts :
        /\ Cardinality(Live(es, c)) <= 1
        /\ \A i \in Live(es, c), j \in Of(es, c) : es[j].version <= es[i].version

\* _known_type_bindings.
Known(ts) == {b.id : b \in ts}

\* Mutant: a rule needs one known type, not all of them.
ValidSome(es, ts, rs) ==
    /\ \A b \in ts : b.governed
    /\ \A e \in ToSet(es) : EntryOK(e)
    /\ SingleActive(es)
    /\ \A r \in rs : r # {} => r \cap Known(ts) # {}

\* Documents, snapshots, annotations and authorship events are left out: each
\* is looked at by itself.
Valid(es, ts, rs) ==
    /\ \A b \in ts : b.governed
    /\ \A e \in ToSet(es) : EntryOK(e)
    /\ SingleActive(es)
    /\ \A r \in rs : r \subseteq Known(ts)

-----------------------------------------------------------------------------

\* An edited workspace that passes takes the place of the one before; one that
\* does not is turned down.
Save(es, ts, rs) ==
    /\ Valid(es, ts, rs)
    /\ entries' = es /\ types' = ts /\ rules' = rs
    /\ newest' = [c \in Concepts |->
                     IF Resolve(es, c) = NoEntry THEN newest[c]
                     ELSE Max({newest[c], Resolve(es, c).version})]

\* Authors change the status of entries as they like and add at most one; what
\* is there is retained.
EditEntries(added) ==
    /\ Len(entries) + Len(added) <= MaxEntries
    /\ \E statuses \in [DOMAIN entries -> Statuses] :
          Save([i \in DOMAIN entries |-> [entries[i] EXCEPT !.status = statuses[i]]] \o added,
               types, rules)

EditTypes(ts) == Save(entries, ts, rules)
EditRules(rs) == Save(entries, types, rs)

KENext ==
    \/ EditEntries(<< >>)
    \/ \E e \in Drafts : EditEntries(<<e>>)
    \/ \E b \in Binding : EditTypes(types \cup {b}) \/ EditTypes(types \ {b})
    \/ \E r \in Rule : EditRules(rules \cup {r}) \/ EditRules(rules \ {r})

KESpec == KEInit /\ [][KENext]_keVars

-----------------------------------------------------------------------------
(* Properties *)

\* Types of the workspace and of what its readers saw; the types a rule refers
\* to are there, also after types and rules were edited apart.
KETypeOK ==
    /\ entries \in Seq(Entry)
    /\ types \subseteq Binding
    /\ rules \subseteq SUBSET Known(types)
    /\ newest \in [Concepts -> 0..MaxVersion]

\* A reader is never sent back to a version older than one it resolved to
\* before, whatever was superseded, tombstoned and brought back in between.
NeverResolvesBack ==
    \A c \in Concepts :
        Resolve(entries, c) # NoEntry => Resolve(entries, c).version >= newest[c]
=============================================================================
