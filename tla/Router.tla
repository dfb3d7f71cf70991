-------------------------------- MODULE Router --------------------------------
(***************************************************************************)
(* tools/query-router/router.py: route takes a question to a store, by the *)
(* nearest exemplar when it comes with a vector and by its words when it   *)
(* does not, falls back when the store is not there, and rather abstains   *)
(* than goes wrong.                                                        *)
(***************************************************************************)
EXTENDS Integers, SequencesExt, FiniteSetsExt

CONSTANTS
    MaxExemplars,  \* bounds for model checking
    MaxScore,
    NotRouted

Stores == <<"relational", "graph", "vector">>
Exemplar == [store : ToSet(Stores), score : 0..MaxScore]

\* A question by words: the signals found for each store.  By vector: the
\* exemplars with their cosines, the margin asked for, and whether the vector
\* is of the pinned space.
ByWords == [words : [ToSet(Stores) -> 0..MaxScore]]
ByVector == [ranked : UNION {[1..k -> Exemplar] : k \in 1..MaxExemplars},
             margin : 0..MaxScore, pinned : BOOLEAN]

ASSUME BoundsAssumption == MaxExemplars \in Nat /\ MaxScore \in Nat
ASSUME NotRoutedAssumption == NotRouted \notin ByWords \cup ByVector

VARIABLES
    question,   \* the last question
    available,  \* the stores there are for it
    choice      \* where it was taken

routerVars == <<question, available, choice>>

RouterInit == question = NotRouted /\ available = {} /\ choice = NotRouted

\* LogicalRouter.route: the store with most signals, of several the first.
Logical(q) ==
    LET best == Max({q.words[s] : s \in ToSet(Stores)})
    IN  IF best = 0 THEN "abstain"
        ELSE Stores[Min({i \in DOMAIN Stores : q.words[Stores[i]] = best})]

\* Mutant: the runner-up is the next lower score.
SemanticNextLower(q) ==
    LET scores == {e.score : e \in ToSet(q.ranked)}
        best == CHOOSE i \in DOMAIN q.ranked :
                  /\ q.ranked[i].score = Max(scores)
                  /\ \A j \in 1..(i - 1) : q.ranked[j].score # Max(scores)
        runner == Max((scores \ {Max(scores)}) \cup {-1})
    IN  IF ~ q.pinned THEN "mismatch"
        ELSE IF q.ranked[best].score - runner < q.margin THEN "abstain"
        ELSE q.ranked[best].store

\* SemanticRouter.route: the nearest exemplar, of several the first, when it is
\* nearer by the margin than the next one, or than -1 where there is none.
Semantic(q) ==
    LET scores == {e.score : e \in ToSet(q.ranked)}
        best == CHOOSE i \in DOMAIN q.ranked :
                  /\ q.ranked[i].score = Max(scores)
                  /\ \A j \in 1..(i - 1) : q.ranked[j].score # Max(scores)
        runner == Max({q.ranked[j].score : j \in DOMAIN q.ranked \ {best}} \cup {-1})
    IN  IF ~ q.pinned THEN "mismatch"
        ELSE IF q.ranked[best].score - runner < q.margin THEN "abstain"
        ELSE q.ranked[best].store

\* apply_fallback: from the graph to the vector store, and nowhere else.
Fallback(store, there) ==
    IF store \in there \cup {"abstain", "mismatch"} THEN store
    ELSE IF store = "graph" /\ "vector" \in there THEN "vector"
    ELSE "abstain"

RouteOf(q, there) == Fallback(IF q \in ByWords THEN Logical(q) ELSE Semantic(q), there)

Route(q, there) ==
    /\ question' = q
    /\ available' = there
    /\ choice' = RouteOf(q, there)

\* One question is followed: nothing is kept from one to the next.
RouterNext ==
    /\ choice = NotRouted
    /\ \E there \in SUBSET ToSet(Stores) : \E q \in ByWords \cup ByVector : Route(q, there)

RouterSpec == RouterInit /\ [][RouterNext]_routerVars

-----------------------------------------------------------------------------
(* Properties *)

\* Types of the question and of the choice.
RouterTypeOK ==
    /\ question \in ByWords \cup ByVector \cup {NotRouted}
    /\ available \subseteq ToSet(Stores)
    /\ choice \in available \cup {"abstain", "mismatch", NotRouted}

\* Where a vector is routed depends on the exemplars and not on the order they
\* are declared in, for every margin that is asked for.
SemanticStable ==
    question \in ByVector /\ question.margin > 0 =>
        \A i \in DOMAIN question.ranked :
            RouteOf([question EXCEPT !.ranked = <<question.ranked[i]>> \o RemoveAt(@, i)],
                    available) = choice
=============================================================================
