------------------------------ MODULE QueryRoute ------------------------------
(***************************************************************************)
(* tools/query-router: selective_route asks the graph first, falls to the  *)
(* vector store when the gate does not accept what the graph gave, fuses   *)
(* what both have, and puts a RouteDecision on the receipt ledger before   *)
(* it answers or abstains.                                                 *)
(***************************************************************************)
EXTENDS Ledger, Places, SequencesExt

CONSTANTS
    Calls,      \* calls of selective_route
    Keys,       \* hits, by fuse_key
    HitLists,   \* what a store may answer with
    NoAnswer    \* a store that was not asked, a call without an answer

ASSUME HitsAssumption == HitLists \subseteq Seq(Keys)
ASSUME NoAnswerAssumption == NoAnswer \notin Seq(Keys)

VARIABLES
    at,        \* at[c]: where the call is, or how it ended
    graph,     \* graph[c]: the hits of the graph
    sure,      \* sure[c]: the gate accepts them
    vector,    \* vector[c]: the hits of the vector store
    answer     \* answer[c]: the hits returned

routeVars == <<at, graph, sure, vector, answer, trail, tail>>

Backends == {"graph", "vector", "graph+vector", "abstain"}
Decision == [by : Calls, backend : Backends, graphHits : Nat, vectorHits : Nat]

RouteInit ==
    /\ at = [c \in Calls |-> "idle"]
    /\ graph = [c \in Calls |-> NoAnswer]
    /\ sure = [c \in Calls |-> FALSE]
    /\ vector = [c \in Calls |-> NoAnswer]
    /\ answer = [c \in Calls |-> NoAnswer]
    /\ Empty

-----------------------------------------------------------------------------
(* selective_route *)

\* An empty query abstains at once.
Ask(c, empty) ==
    /\ at[c] = "idle"
    /\ at' = [at EXCEPT ![c] = IF empty THEN "empty query" ELSE "graph"]
    /\ UNCHANGED <<graph, sure, vector, answer, trail, tail>>

\* The gate is asked about what the graph gave; nothing at all is never sure.
AskGraph(c, hits, accepted) ==
    /\ at[c] = "graph"
    /\ graph' = [graph EXCEPT ![c] = hits]
    /\ sure' = [sure EXCEPT ![c] = hits # << >> /\ accepted]
    /\ at' = [at EXCEPT ![c] = IF sure'[c] THEN "recording" ELSE "vector"]
    /\ UNCHANGED <<vector, answer, trail, tail>>

AskVector(c, hits) ==
    /\ at[c] = "vector"
    /\ vector' = [vector EXCEPT ![c] = hits]
    /\ at' = [at EXCEPT ![c] = "recording"]
    /\ UNCHANGED <<graph, sure, answer, trail, tail>>

\* A retriever raises, or the process dies.
Broken(c) ==
    /\ at[c] \in {"graph", "vector", "recording"}
    /\ at' = [at EXCEPT ![c] = "broken"]
    /\ UNCHANGED <<graph, sure, vector, answer, trail, tail>>

\* Mutant: each key where it comes last.
FuseLatest(gs, vs) ==
    LET all == gs \o vs
        last == {i \in DOMAIN all : \A j \in (i + 1)..Len(all) : all[j] # all[i]}
    IN  [n \in 1..Cardinality(last) |-> all[InOrder(last)[n]]]

\* _fuse: each key where it comes first, the graph's hits before the others.
Fuse(gs, vs) ==
    LET all == gs \o vs
        first == {i \in DOMAIN all : \A j \in 1..(i - 1) : all[j] # all[i]}
    IN  [n \in 1..Cardinality(first) |-> all[InOrder(first)[n]]]

Backend(c) ==
    IF sure[c] THEN "graph"
    ELSE IF graph[c] # << >> /\ vector[c] # << >> THEN "graph+vector"
    ELSE IF vector[c] # << >> THEN "vector"
    ELSE "abstain"

\* Mutant: a call that fell to the vector store is put down to it.
FallenDecision(c) ==
    [by |-> c, backend |-> IF sure[c] THEN "graph"
                           ELSE IF vector[c] # << >> THEN "vector" ELSE "abstain",
     graphHits |-> IF Backend(c) = "abstain" THEN 0 ELSE Len(graph[c]),
     vectorHits |-> IF sure[c] THEN 0 ELSE Len(vector[c])]

\* The decision on a miss says that the graph had no hits.
DecisionOf(c) ==
    [by |-> c, backend |-> Backend(c),
     graphHits |-> IF Backend(c) = "abstain" THEN 0 ELSE Len(graph[c]),
     vectorHits |-> IF sure[c] THEN 0 ELSE Len(vector[c])]

\* What the call ends with once its decision is on the ledger.
Answered(c) ==
    IF Backend(c) = "abstain"
    THEN at' = [at EXCEPT ![c] = "abstained"] /\ UNCHANGED answer
    ELSE /\ at' = [at EXCEPT ![c] = "returned"]
         /\ answer' = [answer EXCEPT ![c] =
                          CASE Backend(c) = "graph" -> graph[c]
                            [] Backend(c) = "vector" -> vector[c]
                            [] OTHER -> Fuse(graph[c], vector[c])]

\* Mutant: an answer does not wait for its decision.
RecordLater(c) ==
    /\ at[c] = "recording"
    /\ Emit(DecisionOf(c)) \/ EmitFails(DecisionOf(c))
    /\ Answered(c)
    /\ UNCHANGED <<graph, sure, vector>>

\* emit_route_decision, and the return or RouteAbstained after it.
Record(c) ==
    /\ at[c] = "recording"
    /\ \/ Emit(DecisionOf(c)) /\ Answered(c)
       \/ /\ EmitFails(DecisionOf(c))
          /\ at' = [at EXCEPT ![c] = "broken"]
          /\ UNCHANGED answer
    /\ UNCHANGED <<graph, sure, vector>>

RouteNext ==
    \E c \in Calls :
        \/ \E empty \in BOOLEAN : Ask(c, empty)
        \/ \E hits \in HitLists, accepted \in BOOLEAN : AskGraph(c, hits, accepted)
        \/ \E hits \in HitLists : AskVector(c, hits)
        \/ Broken(c)
        \/ Record(c)

RouteSpec == RouteInit /\ [][RouteNext]_routeVars

-----------------------------------------------------------------------------
(* Properties *)

\* Types of the calls, their decisions and their answers.
RouteTypeOK ==
    /\ at \in [Calls -> {"idle", "empty query", "graph", "vector", "recording",
                         "returned", "abstained", "broken"}]
    /\ graph \in [Calls -> Seq(Keys) \cup {NoAnswer}]
    /\ sure \in [Calls -> BOOLEAN]
    /\ vector \in [Calls -> Seq(Keys) \cup {NoAnswer}]
    /\ answer \in [Calls -> (Seq(Keys) \ {<< >>}) \cup {NoAnswer}]
    /\ LedgerOK(Decision)

\* What a decision must say of its call: the stores whose hits are in the answer
\* and how many hits each gave, or that there is no answer.
Tells(d, c) ==
    /\ d.backend = "abstain" <=> at[c] = "abstained"
    /\ d.backend = "graph" <=> at[c] = "returned" /\ vector[c] = NoAnswer
    /\ d.backend = "vector" <=> at[c] = "returned" /\ graph[c] = << >>
    /\ at[c] = "returned" =>
          d.graphHits = Len(graph[c]) /\ d.vectorHits = (IF vector[c] = NoAnswer THEN 0 ELSE Len(vector[c]))

\* A call that answers, or abstains after asking both stores, has exactly one
\* decision on the ledger, and it names the stores that served, although other
\* calls write there too and fail.
DecidedOnLedger ==
    \A c \in Calls :
        at[c] \in {"returned", "abstained"} =>
            /\ Cardinality({n \in DOMAIN trail : trail[n].by = c}) = 1
            /\ \E n \in DOMAIN trail : trail[n].by = c /\ Tells(trail[n], c)

\* The list s has x, and y not before it.
ComesFirst(s, x, y) == \E i \in DOMAIN s : s[i] = x /\ \A j \in 1..i : s[j] # y

\* A store that alone was asked, or alone had hits, is answered with as it is. An
\* answer fused of two has every hit of both and none twice, the graph's before
\* the others, and those of each store in the order in which it gave them.
NothingLost ==
    \A c \in Calls :
        at[c] = "returned" =>
            \/ vector[c] = NoAnswer /\ answer[c] = graph[c]
            \/ graph[c] = << >> /\ answer[c] = vector[c]
            \/ /\ vector[c] # NoAnswer /\ graph[c] # << >>
               /\ ToSet(answer[c]) = ToSet(graph[c]) \cup ToSet(vector[c])
               /\ IsInjective(answer[c])
               /\ \A i, j \in DOMAIN answer[c] :
                     i < j => ComesFirst(graph[c] \o vector[c], answer[c][i], answer[c][j])
=============================================================================
