---------------------------- MODULE TemporalFilter ----------------------------
(***************************************************************************)
(* tools/temporal-retrieval-filter: from a ranked list of candidates apply *)
(* drops the superseded ones and, for each key, all but the one that is    *)
(* valid from the latest time; resolve tells the same story of one key.    *)
(***************************************************************************)
EXTENDS Places, SequencesExt, FiniteSetsExt

CONSTANTS
    FactKeys,       \* <<entity, relation>>, both strings: of others _key compares
                    \* what str makes of them and resolve the values themselves
    Times,          \* instants
    Pool,           \* the candidates that surfaces bring
    MaxCandidates,  \* bound for model checking
    None            \* a field that is not there

Candidate == [key : FactKeys, from : Times \cup {None}, to : Times \cup {None},
              gone : Times \cup {None}, by : BOOLEAN]

ASSUME PoolAssumption == Pool \subseteq Candidate
ASSUME CandidatesAssumption == MaxCandidates \in Nat
ASSUME TimesAssumption == Times \subseteq Nat /\ None \notin Times

VARIABLES
    candidates,  \* the ranked list
    kept,        \* kept of apply, in order
    lead,        \* authoritative of apply: for each key a candidate or None
    verdict      \* "none yet", "filtered" or "rejected"

filterVars == <<candidates, kept, lead, verdict>>

FilterInit ==
    /\ candidates = << >> /\ kept = << >>
    /\ lead = [k \in FactKeys |-> None]
    /\ verdict = "none yet"

\* has_temporal_fields, is_superseded.
Temporal(r) == r.from # None \/ r.to # None \/ r.gone # None \/ r.by
Superseded(r) == r.by \/ r.gone # None

\* validate_temporal.
WellFormed(r) ==
    Temporal(r) =>
        /\ r.from # None
        /\ r.to # None => r.to >= r.from
        /\ r.gone # None => r.gone >= r.from

\* The candidates of key k by their place in the list: all, and the survivors.
Members(cs, k) == {i \in DOMAIN cs : cs[i].key = k /\ Temporal(cs[i])}
Survivors(cs, k) == {i \in Members(cs, k) : ~ Superseded(cs[i])}

\* Mutant: of candidates valid from the same time the last.
WinnerLast(cs, k) ==
    CHOOSE i \in Survivors(cs, k) :
        \A j \in Survivors(cs, k) :
            cs[j].from < cs[i].from \/ (cs[j].from = cs[i].from /\ j <= i)

\* The survivor valid from the latest time, of several the one ranked first.
Winner(cs, k) ==
    CHOOSE i \in Survivors(cs, k) :
        \A j \in Survivors(cs, k) :
            cs[j].from < cs[i].from \/ (cs[j].from = cs[i].from /\ i <= j)

Winners(cs) == {Winner(cs, k) : k \in {x \in FactKeys : Survivors(cs, x) # {}}}

KeptPlaces(cs) == {i \in DOMAIN cs : ~ Temporal(cs[i]) \/ i \in Winners(cs)}

\* Mutant: the facts put after what has no temporal fields.
ApplyGrouped(cs) ==
    /\ candidates' = cs
    /\ IF \A r \in ToSet(cs) : WellFormed(r)
       THEN /\ kept' = InOrder({i \in DOMAIN cs : ~ Temporal(cs[i])}) \o InOrder(Winners(cs))
            /\ lead' = [k \in FactKeys |->
                           IF Survivors(cs, k) = {} THEN None ELSE cs[Winner(cs, k)]]
            /\ verdict' = "filtered"
       ELSE kept' = << >> /\ lead' = [k \in FactKeys |-> None] /\ verdict' = "rejected"

\* apply: kept as places in the list.  One malformed candidate fails it all.
Apply(cs) ==
    /\ candidates' = cs
    /\ IF \A r \in ToSet(cs) : WellFormed(r)
       THEN /\ kept' = InOrder(KeptPlaces(cs))
            /\ lead' = [k \in FactKeys |->
                           IF Survivors(cs, k) = {} THEN None ELSE cs[Winner(cs, k)]]
            /\ verdict' = "filtered"
       ELSE kept' = << >> /\ lead' = [k \in FactKeys |-> None] /\ verdict' = "rejected"

\* resolve, of a list that was filtered: it does not leave out candidates
\* without temporal fields, and raises when it meets one that survives.
Surviving(cs, k) == {i \in DOMAIN cs : cs[i].key = k /\ ~ Superseded(cs[i])}
ResolveRaises(cs, k) == \E i \in Surviving(cs, k) : cs[i].from = None
Resolved(cs, k) ==
    IF Surviving(cs, k) = {} THEN None
    ELSE cs[CHOOSE i \in Surviving(cs, k) :
               \A j \in Surviving(cs, k) :
                   cs[j].from < cs[i].from \/ (cs[j].from = cs[i].from /\ i <= j)]

\* One list is followed: nothing is kept from one to the next.
FilterNext ==
    /\ verdict = "none yet"
    /\ \E m \in 0..MaxCandidates : \E cs \in [1..m -> Pool] : Apply(cs)

FilterSpec == FilterInit /\ [][FilterNext]_filterVars

-----------------------------------------------------------------------------
(* Properties *)

\* Types of the list and of its filtering; what is kept is in rank order.
FilterTypeOK ==
    /\ candidates \in Seq(Candidate)
    /\ kept \in Seq(DOMAIN candidates)
    /\ \A i, j \in DOMAIN kept : i < j => kept[i] < kept[j]
    /\ lead \in [FactKeys -> Candidate \cup {None}]
    /\ verdict \in {"none yet", "filtered", "rejected"}

\* What is surfaced of a key is one fact and the newest that nothing has taken
\* the place of: whatever is dropped is superseded or at most as new, and
\* nothing that is superseded is kept.  resolve, which reads the list on its
\* own, comes to the same fact or raises.
NewestSurfaces ==
    verdict = "filtered" =>
        /\ \A i \in ToSet(kept) : ~ Superseded(candidates[i])
        /\ \A i, j \in ToSet(kept) :
              /\ Temporal(candidates[i]) /\ Temporal(candidates[j])
              /\ candidates[i].key = candidates[j].key
              => i = j
        /\ \A i \in DOMAIN candidates \ ToSet(kept) :
              \/ Superseded(candidates[i])
              \/ \E j \in ToSet(kept) :
                    /\ candidates[j].key = candidates[i].key
                    /\ candidates[j].from # None
                    /\ candidates[j].from >= candidates[i].from
        /\ \A k \in FactKeys :
              ResolveRaises(candidates, k) \/ Resolved(candidates, k) = lead[k]
=============================================================================
