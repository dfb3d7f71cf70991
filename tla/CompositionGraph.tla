--------------------------- MODULE CompositionGraph ---------------------------
(***************************************************************************)
(* tools/validate_composition_graph.py: a workflow of agents is let        *)
(* through when its shape is right, Kahn's algorithm gets through all of   *)
(* its nodes, and whatever can do harm is under a quorum gate.             *)
(***************************************************************************)
EXTENDS Integers, FiniteSets, Sequences, SequencesExt

CONSTANTS
    Nodes,      \* node ids
    Graphs,     \* the records that are handed in
    NoGraph     \* none yet

\* A node as declared: its time-box, its iteration budget or 0 where it has
\* none, whether it is a loop node, of high danger, or mutates its host.
Node == [id : Nodes, ttl : Int, budget : Nat, loop : BOOLEAN, high : BOOLEAN, host : BOOLEAN]
Edge == [from : Nodes, to : Nodes]
Gate == [kind : {"policy", "eval", "quorum"}, over : SUBSET Nodes]

\* contained: the kill switch, the receipts and the append-only provenance are
\* as they must be, and every field that is there is one that may be.
Graph == [contained : BOOLEAN, nodes : Seq(Node), edges : Seq(Edge), gates : Seq(Gate)]

ASSUME NodesAssumption == IsFiniteSet(Nodes)
ASSUME GraphsAssumption == Graphs \subseteq Graph /\ NoGraph \notin Graph

VARIABLES
    graph,   \* the record under validation
    indeg,   \* indeg[n]: edges into n from nodes not taken yet
    queue,   \* nodes that nothing is waited for
    taken,   \* nodes taken from the queue
    stage    \* "idle", "sorting", "gates", "accepted" or "rejected"

graphVars == <<graph, indeg, queue, taken, stage>>

GraphInit ==
    /\ graph = NoGraph
    /\ indeg = [n \in Nodes |-> 0]
    /\ queue = {} /\ taken = {}
    /\ stage = "idle"

NodeIds(g) == {g.nodes[i].id : i \in DOMAIN g.nodes}

\* The edges into n that come from a node of S.
EdgesInto(g, n, S) == {i \in DOMAIN g.edges : g.edges[i].to = n /\ g.edges[i].from \in S}

NodeOK(d) ==
    /\ d.ttl >= 1
    /\ d.loop <=> d.budget >= 1

\* What is looked at before the edges are followed.
ShapeOK(g) ==
    /\ g.contained
    /\ g.nodes # << >>
    /\ \A d \in ToSet(g.nodes) : NodeOK(d)
    /\ \A i, j \in DOMAIN g.nodes : g.nodes[i].id = g.nodes[j].id => i = j
    /\ \A e \in ToSet(g.edges) :
          e.from \in NodeIds(g) /\ e.to \in NodeIds(g) /\ e.from # e.to

\* high_or_host.
MustBeCovered(g) == {d.id : d \in {x \in ToSet(g.nodes) : x.high \/ x.host}}

GatesOK(g) ==
    /\ g.gates # << >>
    /\ \A gate \in ToSet(g.gates) : gate.over # {} /\ gate.over \subseteq NodeIds(g)
    /\ MustBeCovered(g) \subseteq
          UNION {gate.over : gate \in {x \in ToSet(g.gates) : x.kind = "quorum"}}

-----------------------------------------------------------------------------

\* The shape is looked at, in-degrees are counted and the queue is filled.
Submit(g) ==
    /\ stage = "idle"
    /\ graph' = g
    /\ IF ShapeOK(g)
       THEN LET into == [n \in Nodes |-> Cardinality(EdgesInto(g, n, Nodes))]
            IN  /\ indeg' = into
                /\ queue' = {n \in NodeIds(g) : into[n] = 0}
                /\ stage' = "sorting"
       ELSE stage' = "rejected" /\ UNCHANGED <<indeg, queue>>
    /\ UNCHANGED taken

\* Mutant: parallel edges counted once.
TakeOnce(n) ==
    /\ stage = "sorting"
    /\ n \in queue
    /\ LET left == [m \in Nodes |-> IF EdgesInto(graph, m, {n}) # {} THEN indeg[m] - 1 ELSE indeg[m]]
       IN  /\ indeg' = left
           /\ queue' = (queue \ {n}) \cup {m \in Nodes : left[m] = 0 /\ indeg[m] # 0}
    /\ taken' = taken \cup {n}
    /\ UNCHANGED <<graph, stage>>

\* A node is taken from the queue, whose order matters to nothing, and its
\* edges are counted off.
Take(n) ==
    /\ stage = "sorting"
    /\ n \in queue
    /\ LET left == [m \in Nodes |-> indeg[m] - Cardinality(EdgesInto(graph, m, {n}))]
       IN  /\ indeg' = left
           /\ queue' = (queue \ {n}) \cup {m \in Nodes : left[m] = 0 /\ indeg[m] # 0}
    /\ taken' = taken \cup {n}
    /\ UNCHANGED <<graph, stage>>

\* seen == len(node_ids).
Sorted ==
    /\ stage = "sorting"
    /\ queue = {}
    /\ stage' = IF Cardinality(taken) = Len(graph.nodes) THEN "gates" ELSE "rejected"
    /\ UNCHANGED <<graph, indeg, queue, taken>>

CheckGates ==
    /\ stage = "gates"
    /\ stage' = IF GatesOK(graph) THEN "accepted" ELSE "rejected"
    /\ UNCHANGED <<graph, indeg, queue, taken>>

GraphNext ==
    \/ \E g \in Graphs : Submit(g)
    \/ \E n \in Nodes : Take(n)
    \/ Sorted
    \/ CheckGates

GraphSpec == GraphInit /\ [][GraphNext]_graphVars

-----------------------------------------------------------------------------
(* Properties *)

\* Types of the validation; in-degrees never go below zero.
GraphTypeOK ==
    /\ graph \in Graphs \cup {NoGraph}
    /\ indeg \in [Nodes -> Nat]
    /\ queue \subseteq Nodes
    /\ taken \subseteq Nodes
    /\ stage \in {"idle", "sorting", "gates", "accepted", "rejected"}

\* Nodes of which each waits for another of them: no run of the workflow
\* could ever start one of them.
Stuck(g, S) == \A n \in S : \E e \in ToSet(g.edges) : e.to = n /\ e.from \in S

Acyclic(g) == \A S \in SUBSET NodeIds(g) : Stuck(g, S) => S = {}

\* The sort lets exactly the graphs without a cycle through to the gates,
\* whatever order it takes the nodes in and however many edges join two of them.
SortExact ==
    /\ stage \in {"gates", "accepted"} => Acyclic(graph)
    /\ stage = "rejected" /\ ShapeOK(graph) /\ Acyclic(graph) => ~ GatesOK(graph)
=============================================================================
