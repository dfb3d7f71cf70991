----------------------------- MODULE MCRetrieval -----------------------------
(* Small instances of the retrieval modules. *)
EXTENDS QueryRoute, Router, TemporalFilter, QueryBuild

CONSTANTS c1, c2, hit1, hit2, fact1, fact2, decision, note, other, w1, w2

TwoCalls == {c1, c2}
TwoHits == {hit1, hit2}
Torn == {"torn"}
Answers == {<< >>, <<hit1>>, <<hit1, hit1>>, <<hit2, hit1>>}

TwoFacts == {fact1, fact2}
From(k, t) == [key |-> k, from |-> t, to |-> None, gone |-> None, by |-> FALSE]
Facts ==
    UNION {{From(k, 1), From(k, 2), From(k, None), [From(k, 2) EXCEPT !.by = TRUE],
            [From(k, 1) EXCEPT !.gone = 2]} : k \in TwoFacts}
    \cup {[From(fact1, 2) EXCEPT !.to = 2], [From(fact1, None) EXCEPT !.to = 2],
          [From(fact1, 2) EXCEPT !.to = 1],
          [From(fact1, 2) EXCEPT !.gone = 1]}

TwoWords == {w1, w2}
TwoClasses == {decision, note}

\* Questions: every choice of years, class, tag and field; and every choice of
\* the rest.
Plain == [count |-> FALSE, recall |-> TRUE, about |-> NoWord, group |-> NoWord,
          class |-> NoWord, after |-> NoWord, before |-> NoWord, in |-> NoWord,
          tagged |-> NoWord, named |-> NoWord, limit |-> 1]
Asked ==
    {[Plain EXCEPT !.class = c, !.after = a, !.before = b, !.in = i, !.tagged = t, !.named = n] :
        c \in {note, NoWord}, a, b, i \in Years \cup {NoWord}, t \in {w1, NoWord},
        n \in {"user_id", "memory_class", Undeclared, NoWord}}
    \cup
    {[Plain EXCEPT !.count = k, !.recall = r, !.about = w, !.group = g, !.class = c,
                   !.before = b, !.limit = l] :
        k, r \in BOOLEAN, w \in {w1, NoWord}, g \in {"created_at", "tags", Undeclared, NoWord},
        c \in {note, NoWord}, b \in {1, NoWord}, l \in 0..(LimitCap + 1)}

\* Proposals: two operators on one field, or one operator on each of two.
OpsOf(f) == IF f = "created_at" THEN SupportedOps ELSE (SupportedOps \ RangeOps) \cup {"$regex"}
ValuesOf(f) ==
    IF f = "created_at" THEN 3..4 ELSE IF f = "memory_class" THEN {note, other} ELSE TwoWords
OperandsOf(f, op) ==
    IF op = "$exists" THEN BOOLEAN
    ELSE IF op \in {"$in", "$nin"} THEN (SUBSET ValuesOf(f)) \cup {Misfit}
    ELSE ValuesOf(f) \cup (IF op \in RangeOps THEN {Misfit} ELSE {})
Bound(f) == UNION {{op :> v : v \in OperandsOf(f, op)} : op \in OpsOf(f)}
Proposed ==
    UNION {{f :> (c @@ d) : c, d \in Bound(f)} : f \in Fields}
    \cup UNION {{(p[1] :> c) @@ (p[2] :> d) : c \in Bound(p[1]), d \in Bound(p[2])} :
                  p \in {<<"created_at", "tags">>, <<"memory_class", "user_id">>,
                         <<"tags", Undeclared>>}}

\* The parts share nothing: each is explored with the others at their start.
Init == RouteInit /\ RouterInit /\ FilterInit /\ QueryInit
Next ==
    \/ /\ RouterInit /\ FilterInit /\ QueryInit
       /\ RouteNext /\ UNCHANGED <<routerVars, filterVars, queryVars>>
    \/ /\ RouteInit /\ FilterInit /\ QueryInit
       /\ RouterNext /\ UNCHANGED <<routeVars, filterVars, queryVars>>
    \/ /\ RouteInit /\ RouterInit /\ QueryInit
       /\ FilterNext /\ UNCHANGED <<routeVars, routerVars, queryVars>>
    \/ /\ RouteInit /\ RouterInit /\ FilterInit
       /\ QueryNext /\ UNCHANGED <<routeVars, routerVars, filterVars>>

\* Types of the parts.
TypeOK == RouteTypeOK /\ RouterTypeOK /\ FilterTypeOK /\ QueryTypeOK

Spec == Init /\ [][Next]_<<routeVars, routerVars, filterVars, queryVars>>
=============================================================================
