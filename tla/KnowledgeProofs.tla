--------------------------- MODULE KnowledgeProofs ---------------------------
(***************************************************************************)
(* Proofs about the contracts of knowledge, composition and worldview:     *)
(* Kahn's algorithm gets through exactly the graphs without a cycle, for   *)
(* any graphs over any finite set of nodes; readers of a workspace are     *)
(* never sent back; what a node shows of its sections is local, earned and *)
(* only lowered by time; an instance of the ER model that was found valid  *)
(* is auditable.                                                           *)
(***************************************************************************)
EXTENDS MCKnowledge,
        TLAPS, FiniteSetTheorems, WellFoundedInduction

-----------------------------------------------------------------------------
(* Composition graphs *)

\* The edges into a node are finitely many, and none exactly when they count
\* for nothing.
LEMMA EdgesIntoFinite ==
    ASSUME NEW g \in Graph, NEW m, NEW S
    PROVE  /\ IsFiniteSet(EdgesInto(g, m, S))
           /\ Cardinality(EdgesInto(g, m, S)) \in Nat
           /\ Cardinality(EdgesInto(g, m, S)) = 0 <=> EdgesInto(g, m, S) = {}
  <1>1. g.edges \in Seq(Edge)
    BY DEF Graph
  <1>2. DOMAIN g.edges = 1..Len(g.edges) /\ Len(g.edges) \in Nat
    BY <1>1
  <1>3. IsFiniteSet(DOMAIN g.edges)
    <2>1. 1 \in Int /\ Len(g.edges) \in Int
      BY <1>2
    <2>2. IsFiniteSet(1..Len(g.edges))
      BY <2>1, FS_Interval
    <2> QED  BY <1>2, <2>2
  <1>4. EdgesInto(g, m, S) \in SUBSET (DOMAIN g.edges)
    BY DEF EdgesInto
  <1>5. IsFiniteSet(EdgesInto(g, m, S))
    BY <1>3, <1>4, FS_Subset
  <1> QED  BY <1>5, FS_CardinalityType, FS_EmptySet

\* Taking n counts off the edges from n, no others.
LEMMA EdgesCountedOff ==
    ASSUME NEW g \in Graph, NEW m, NEW T, NEW n \in Nodes, n \notin T
    PROVE  Cardinality(EdgesInto(g, m, Nodes \ (T \cup {n}))) =
           Cardinality(EdgesInto(g, m, Nodes \ T)) - Cardinality(EdgesInto(g, m, {n}))
  <1> DEFINE A == EdgesInto(g, m, Nodes \ T)
             B == EdgesInto(g, m, {n})
             C == EdgesInto(g, m, Nodes \ (T \cup {n}))
  <1>1. C = A \ B /\ A \cap B = B
    BY DEF EdgesInto
  <1>2. IsFiniteSet(A) /\ IsFiniteSet(B) /\ Cardinality(A) \in Nat /\ Cardinality(B) \in Nat
    BY EdgesIntoFinite
  <1> HIDE DEF A, B, C
  <1>3. Cardinality(A \ B) = Cardinality(A) - Cardinality(A \cap B)
    BY <1>2, FS_Difference
  <1>4. Cardinality(C) = Cardinality(A) - Cardinality(B)
    BY <1>1, <1>3
  <1> QED  BY <1>4 DEF A, B, C

\* Ids of nodes are ids.
LEMMA IdsAreNodes ==
    ASSUME NEW g \in Graph
    PROVE  NodeIds(g) \subseteq Nodes
  <1>1. g.nodes \in Seq(Node)
    BY DEF Graph
  <1>2. \A i \in DOMAIN g.nodes : g.nodes[i] \in Node
    BY <1>1
  <1> QED  BY <1>2 DEF NodeIds, Node

\* In a graph of the right shape node ids are as many as nodes.
LEMMA NodesCounted ==
    ASSUME NEW g \in Graph, ShapeOK(g)
    PROVE  IsFiniteSet(NodeIds(g)) /\ Cardinality(NodeIds(g)) = Len(g.nodes)
  <1> DEFINE f == [i \in 1..Len(g.nodes) |-> g.nodes[i].id]
  <1>1. g.nodes \in Seq(Node)
    BY DEF Graph
  <1>2. DOMAIN g.nodes = 1..Len(g.nodes) /\ Len(g.nodes) \in Nat
    BY <1>1
  <1>3. f \in Surjection(1..Len(g.nodes), NodeIds(g))
    BY <1>2 DEF Surjection, NodeIds
  <1>4. f \in Injection(1..Len(g.nodes), NodeIds(g))
    <2>1. f \in [1..Len(g.nodes) -> NodeIds(g)]
      BY <1>2 DEF NodeIds
    <2>2. \A i, j \in 1..Len(g.nodes) : g.nodes[i].id = g.nodes[j].id => i = j
      BY <1>2 DEF ShapeOK
    <2> QED  BY <2>1, <2>2 DEF Injection, IsInjective
  <1>5. IsFiniteSet(1..Len(g.nodes)) /\ Cardinality(1..Len(g.nodes)) = Len(g.nodes)
    BY <1>2, FS_Interval
  <1> HIDE DEF f
  <1> QED  BY <1>3, <1>4, <1>5, FS_Surjection

-----------------------------------------------------------------------------

\* While it sorts: in-degrees count the edges from nodes not taken, the queue
\* has the nodes left without one, and whatever waits for itself is left.
SortingOK ==
    /\ ShapeOK(graph)
    /\ taken \subseteq NodeIds(graph)
    /\ \A m \in Nodes : indeg[m] = Cardinality(EdgesInto(graph, m, Nodes \ taken))
    /\ queue = {m \in NodeIds(graph) \ taken : indeg[m] = 0}
    /\ \A m \in taken : indeg[m] = 0
    /\ \A S \in SUBSET NodeIds(graph) : Stuck(graph, S) => S \cap taken = {}

GraphInvariant ==
    /\ GraphTypeOK
    /\ stage # "idle" => graph \in Graphs
    /\ stage = "idle" => taken = {}
    /\ stage = "sorting" => SortingOK
    /\ stage \in {"gates", "accepted"} => ShapeOK(graph)
    /\ SortExact

LEMMA SubmitStep ==
    ASSUME GraphInvariant, NEW g \in Graphs, Submit(g)
    PROVE  GraphInvariant'
  <1>1. g \in Graph /\ graph' = g /\ taken' = {} /\ taken' = taken
    BY GraphsAssumption DEF Submit, GraphInvariant
  <1>2. CASE ~ ShapeOK(g)
    BY <1>1, <1>2 DEF Submit, GraphInvariant, GraphTypeOK, SortExact
  <1>3. CASE ShapeOK(g)
    <2>1. /\ indeg' = [n \in Nodes |-> Cardinality(EdgesInto(g, n, Nodes))]
          /\ queue' = {n \in NodeIds(g) : indeg'[n] = 0}
          /\ stage' = "sorting"
      BY <1>3 DEF Submit
    <2>2. indeg' \in [Nodes -> Nat]
      BY <1>1, <2>1, EdgesIntoFinite
    <2>3. NodeIds(g) \subseteq Nodes
      BY <1>1, IdsAreNodes
    <2>4. GraphTypeOK'
      BY <1>1, <2>1, <2>2, <2>3 DEF GraphTypeOK
    <2>5. Nodes \ taken' = Nodes /\ NodeIds(g) \ taken' = NodeIds(g)
      BY <1>1
    <2>6. SortingOK'
      BY <1>1, <1>3, <2>1, <2>5 DEF SortingOK
    <2> QED  BY <1>1, <2>1, <2>4, <2>6 DEF GraphInvariant, SortExact
  <1> QED  BY <1>2, <1>3

\* A node that is taken waits for none of those that are left, so no set of
\* nodes that wait for each other loses one.
LEMMA TakeStep ==
    ASSUME GraphInvariant, NEW n \in Nodes, Take(n)
    PROVE  GraphInvariant'
  <1> DEFINE off(m) == Cardinality(EdgesInto(graph, m, {n}))
  <1>1. SortingOK /\ graph \in Graphs /\ graph \in Graph /\ stage = "sorting" /\ n \in queue
    BY GraphsAssumption DEF Take, GraphInvariant
  <1>2. /\ indeg' = [m \in Nodes |-> indeg[m] - off(m)]
        /\ queue' = (queue \ {n}) \cup {m \in Nodes : indeg'[m] = 0 /\ indeg[m] # 0}
        /\ taken' = taken \cup {n} /\ graph' = graph /\ stage' = stage
    BY DEF Take
  <1>3. n \in NodeIds(graph) /\ n \notin taken /\ indeg[n] = 0
    BY <1>1 DEF SortingOK
  <1>4. \A m \in Nodes : indeg'[m] = Cardinality(EdgesInto(graph, m, Nodes \ taken'))
    BY <1>1, <1>2, <1>3, EdgesCountedOff DEF SortingOK
  <1>5. indeg' \in [Nodes -> Nat]
    <2>1. ASSUME NEW m \in Nodes
          PROVE  indeg'[m] \in Nat
      <3>1. Cardinality(EdgesInto(graph, m, Nodes \ taken')) \in Nat
        BY <1>1, EdgesIntoFinite
      <3> QED  BY <1>4, <3>1
    <2>2. indeg' = [m \in Nodes |-> indeg'[m]]
      BY <1>2
    <2> QED  BY <2>1, <2>2
  <1>6. ASSUME NEW m \in Nodes, indeg[m] = 0
        PROVE  indeg'[m] = 0
    <2>1. EdgesInto(graph, m, Nodes \ taken) = {}
      BY <1>1, <1>6, EdgesIntoFinite DEF SortingOK
    <2>2. EdgesInto(graph, m, Nodes \ taken') = {}
      BY <1>2, <2>1 DEF EdgesInto
    <2> QED  BY <1>1, <1>4, <2>2, EdgesIntoFinite
  <1>7. ASSUME NEW m \in Nodes, indeg[m] # 0
        PROVE  m \in NodeIds(graph)
    <2>1. EdgesInto(graph, m, Nodes \ taken) # {}
      BY <1>1, <1>7, EdgesIntoFinite DEF SortingOK
    <2>2. PICK i \in DOMAIN graph.edges : graph.edges[i].to = m
      BY <2>1 DEF EdgesInto
    <2>3. graph.edges[i] \in ToSet(graph.edges)
      BY DEF ToSet
    <2> QED  BY <1>1, <2>2, <2>3 DEF SortingOK, ShapeOK
  <1>8. NodeIds(graph) \subseteq Nodes
    BY <1>1, IdsAreNodes
  <1>9. queue' = {m \in NodeIds(graph) \ taken' : indeg'[m] = 0}
    <2>1. ASSUME NEW m \in queue'
          PROVE  m \in NodeIds(graph) /\ m \notin taken' /\ indeg'[m] = 0
      <3>1. CASE m \in queue \ {n}
        BY <1>1, <1>2, <1>6, <1>8, <3>1 DEF SortingOK
      <3>2. CASE m \in Nodes /\ indeg'[m] = 0 /\ indeg[m] # 0
        BY <1>1, <1>2, <1>3, <1>7, <3>2 DEF SortingOK
      <3> QED  BY <1>2, <2>1, <3>1, <3>2
    <2>2. ASSUME NEW m \in NodeIds(graph) \ taken', indeg'[m] = 0
          PROVE  m \in queue'
      BY <1>1, <1>2, <1>8, <2>2 DEF SortingOK
    <2> QED  BY <2>1, <2>2
  <1>10. \A m \in taken' : indeg'[m] = 0
    BY <1>1, <1>2, <1>3, <1>6, <1>8 DEF SortingOK
  <1>11. ASSUME NEW S \in SUBSET NodeIds(graph), Stuck(graph, S)
         PROVE  S \cap taken' = {}
    <2>1. S \cap taken = {}
      BY <1>1, <1>11 DEF SortingOK
    <2>2. n \notin S
      <3> SUFFICES ASSUME n \in S PROVE FALSE
        OBVIOUS
      <3>1. PICK e \in ToSet(graph.edges) : e.to = n /\ e.from \in S
        BY <1>11 DEF Stuck
      <3>2. PICK i \in DOMAIN graph.edges : graph.edges[i] = e
        BY DEF ToSet
      <3>3. i \in EdgesInto(graph, n, Nodes \ taken)
        BY <1>8, <2>1, <3>1, <3>2 DEF EdgesInto
      <3>4. Cardinality(EdgesInto(graph, n, Nodes \ taken)) = 0
        BY <1>1, <1>3 DEF SortingOK
      <3> QED  BY <1>1, <3>3, <3>4, EdgesIntoFinite
    <2> QED  BY <1>2, <2>1, <2>2
  <1>12. SortingOK'
    BY <1>1, <1>2, <1>3, <1>4, <1>9, <1>10, <1>11 DEF SortingOK
  <1>13. GraphTypeOK'
    BY <1>1, <1>2, <1>5, <1>8, <1>9 DEF GraphTypeOK, GraphInvariant
  <1> QED  BY <1>1, <1>2, <1>12, <1>13 DEF GraphInvariant, SortExact

\* An empty queue with every node taken leaves nothing that waits for itself;
\* with nodes left, these wait for each other.
LEMMA SortedStep ==
    ASSUME GraphInvariant, Sorted
    PROVE  GraphInvariant'
  <1>1. SortingOK /\ graph \in Graphs /\ graph \in Graph /\ queue = {}
    BY GraphsAssumption DEF Sorted, GraphInvariant
  <1>2. UNCHANGED <<graph, indeg, queue, taken>>
    BY DEF Sorted
  <1>3. /\ IsFiniteSet(NodeIds(graph)) /\ Cardinality(NodeIds(graph)) = Len(graph.nodes)
        /\ taken \in SUBSET NodeIds(graph)
    BY <1>1, NodesCounted DEF SortingOK
  <1>4. CASE Cardinality(taken) = Len(graph.nodes)
    <2>1. taken = NodeIds(graph)
      BY <1>3, <1>4, FS_Subset
    <2>2. Acyclic(graph)
      BY <1>1, <2>1 DEF SortingOK, Acyclic
    <2>3. stage' = "gates"
      BY <1>4 DEF Sorted
    <2> QED  BY <1>1, <1>2, <2>2, <2>3 DEF GraphInvariant, GraphTypeOK, SortingOK, SortExact
  <1>5. CASE Cardinality(taken) # Len(graph.nodes)
    <2> DEFINE Left == NodeIds(graph) \ taken
    <2>1. Left # {} /\ Left \in SUBSET NodeIds(graph)
      <3>1. taken # NodeIds(graph)
        BY <1>3, <1>5
      <3> QED  BY <1>3, <3>1
    <2>2. NodeIds(graph) \subseteq Nodes
      BY <1>1, IdsAreNodes
    <2>3. ASSUME NEW m \in Left
          PROVE  \E e \in ToSet(graph.edges) : e.to = m /\ e.from \in Left
      <3>1. indeg[m] # 0 /\ m \in Nodes
        BY <1>1, <2>2, <2>3 DEF SortingOK
      <3>2. EdgesInto(graph, m, Nodes \ taken) # {}
        BY <1>1, <3>1, EdgesIntoFinite DEF SortingOK
      <3>3. PICK i \in DOMAIN graph.edges :
                graph.edges[i].to = m /\ graph.edges[i].from \in Nodes \ taken
        BY <3>2 DEF EdgesInto
      <3>4. graph.edges[i] \in ToSet(graph.edges)
        BY DEF ToSet
      <3>5. graph.edges[i].from \in NodeIds(graph)
        BY <1>1, <3>4 DEF SortingOK, ShapeOK
      <3> QED  BY <3>3, <3>4, <3>5
    <2>4. Stuck(graph, Left)
      BY <2>3 DEF Stuck
    <2> HIDE DEF Left
    <2>5. ~ Acyclic(graph)
      BY <2>1, <2>4 DEF Acyclic
    <2>6. stage' = "rejected"
      BY <1>5 DEF Sorted
    <2> QED  BY <1>1, <1>2, <2>5, <2>6 DEF GraphInvariant, GraphTypeOK, SortExact
  <1> QED  BY <1>4, <1>5

LEMMA GraphStep == GraphInvariant /\ [GraphNext]_graphVars => GraphInvariant'
  <1> SUFFICES ASSUME GraphInvariant, [GraphNext]_graphVars
               PROVE  GraphInvariant'
    OBVIOUS
  <1>1. ASSUME CheckGates
        PROVE  GraphInvariant'
    BY <1>1 DEF CheckGates, GraphInvariant, GraphTypeOK, SortExact
  <1>2. CASE UNCHANGED graphVars
    BY <1>2 DEF graphVars, GraphInvariant, GraphTypeOK, SortingOK, SortExact
  <1> QED  BY <1>1, <1>2, SubmitStep, TakeStep, SortedStep DEF GraphNext

LEMMA GraphHolds == GraphSpec => []GraphInvariant
  <1>1. GraphInit => GraphInvariant
    BY DEF GraphInit, GraphInvariant, GraphTypeOK, SortExact
  <1> QED  BY <1>1, GraphStep, PTL DEF GraphSpec

\* In-degrees, queue and nodes taken keep their types; no in-degree goes below
\* zero.
THEOREM GraphTypeCorrect == GraphSpec => []GraphTypeOK
  BY GraphHolds, PTL DEF GraphInvariant

\* Kahn's algorithm lets exactly the acyclic graphs through to the gates.
THEOREM KahnExact == GraphSpec => []SortExact
  BY GraphHolds, PTL DEF GraphInvariant

-----------------------------------------------------------------------------
(* Knowledge engineering: the workspace *)

\* Where there is at most one live entry, it is the one that is resolved to.
LEMMA ResolvedIsLive ==
    ASSUME NEW es \in Seq(Entry), SingleActive(es), NEW c \in Concepts
    PROVE  IF Live(es, c) = {} THEN Resolve(es, c) = NoEntry
           ELSE \E i \in Live(es, c) :
                   /\ Resolve(es, c) = es[i] /\ es[i] \in Entry /\ es[i] # NoEntry
                   /\ \A j \in Of(es, c) : es[j].version <= es[i].version
  <1>1. CASE Live(es, c) = {}
    BY <1>1 DEF Resolve
  <1>2. CASE Live(es, c) # {}
    <2>1. DOMAIN es = 1..Len(es) /\ Len(es) \in Nat /\ \A i \in DOMAIN es : es[i] \in Entry
      OBVIOUS
    <2>2. Live(es, c) \subseteq DOMAIN es
      BY DEF Live, Of
    <2>3. IsFiniteSet(Live(es, c))
      <3>1. IsFiniteSet(1..Len(es))
        BY <2>1, FS_Interval
      <3> QED  BY <2>1, <2>2, <3>1, FS_Subset
    <2>4. Cardinality(Live(es, c)) \in Nat /\ Cardinality(Live(es, c)) <= 1
      BY <2>3, FS_CardinalityType DEF SingleActive
    <2>5. Cardinality(Live(es, c)) # 0
      BY <1>2, <2>3, FS_EmptySet
    <2>6. PICK i : Live(es, c) = {i}
      <3>1. Cardinality(Live(es, c)) = 1
        BY <2>4, <2>5
      <3> QED  BY <2>3, <3>1, FS_Singleton, Zenon
    <2>7. i \in DOMAIN es /\ es[i] \in Entry /\ es[i].version \in Int /\ i \in Int
      BY <2>1, <2>2, <2>6 DEF Entry
    <2>8. \E k \in Live(es, c) : \A j \in Live(es, c) :
              es[j].version < es[k].version \/ (es[j].version = es[k].version /\ k <= j)
      BY <2>6, <2>7
    <2>9. Resolve(es, c) = es[i]
      BY <1>2, <2>6, <2>8 DEF Resolve
    <2>10. \A j \in Of(es, c) : es[j].version <= es[i].version
      BY <2>6 DEF SingleActive
    <2> QED  BY <1>2, <2>6, <2>7, <2>9, <2>10, NoEntryAssumption
  <1> QED  BY <1>1, <1>2

\* What a concept resolved to is still in the dictionary, live or not, and no
\* two entries of it are live at once.
KEInvariant ==
    /\ KETypeOK
    /\ SingleActive(entries)
    /\ \A c \in Concepts :
          newest[c] > 0 => \E i \in Of(entries, c) : entries[i].version = newest[c]

\* Entries keep their places, concepts and versions.
Retains(es) ==
    \A i \in DOMAIN entries :
        /\ i \in DOMAIN es
        /\ es[i].concept = entries[i].concept /\ es[i].version = entries[i].version

LEMMA SaveStep ==
    ASSUME KEInvariant, NEW es \in Seq(Entry), NEW ts \in SUBSET Binding, NEW rs,
           Retains(es), Save(es, ts, rs)
    PROVE  KEInvariant'
  <1>1. /\ entries' = es /\ types' = ts /\ rules' = rs
        /\ SingleActive(es) /\ \A r \in rs : r \subseteq Known(ts)
    BY DEF Save, Valid
  <1>2. ASSUME NEW c \in Concepts
        PROVE  /\ newest'[c] \in 0..MaxVersion
               /\ newest'[c] > 0 => \E i \in Of(es, c) : es[i].version = newest'[c]
    <2>1. newest'[c] = IF Resolve(es, c) = NoEntry THEN newest[c]
                       ELSE Max({newest[c], Resolve(es, c).version})
      BY DEF Save
    <2>2. newest[c] \in 0..MaxVersion /\ MaxVersion \in Nat
      BY BoundsAssumption DEF KEInvariant, KETypeOK
    <2>3. newest[c] > 0 => \E i \in Of(es, c) : es[i].version = newest[c]
      BY DEF KEInvariant, Of, Retains
    <2>4. CASE Live(es, c) = {}
      BY <1>1, <2>1, <2>2, <2>3, <2>4, ResolvedIsLive
    <2>5. CASE Live(es, c) # {}
      <3>1. PICK i \in Live(es, c) :
                Resolve(es, c) = es[i] /\ es[i] \in Entry /\ es[i] # NoEntry
        BY <1>1, <2>5, ResolvedIsLive
      <3>2. es[i].version \in 1..MaxVersion /\ i \in Of(es, c)
        BY <3>1 DEF Entry, Live
      <3>3. newest'[c] = Max({newest[c], es[i].version})
        BY <2>1, <3>1
      <3>4. newest'[c] = newest[c] \/ newest'[c] = es[i].version
        <4>1. \E x \in {newest[c], es[i].version} : \A y \in {newest[c], es[i].version} : x >= y
          BY <2>2, <3>2
        <4> QED  BY <3>3, <4>1 DEF Max
      <3> QED  BY <2>2, <2>3, <3>2, <3>4
    <2> QED  BY <2>4, <2>5
  <1>3. newest' \in [Concepts -> 0..MaxVersion]
    <2>1. \E f : newest' = [c \in Concepts |-> f[c]]
      <3> DEFINE f == [c \in Concepts |-> IF Resolve(es, c) = NoEntry THEN newest[c]
                                          ELSE Max({newest[c], Resolve(es, c).version})]
      <3>1. newest' = f /\ f = [c \in Concepts |-> f[c]]
        BY DEF Save
      <3> QED  BY <3>1
    <2> QED  BY <1>2, <2>1
  <1>4. KETypeOK'
    BY <1>1, <1>3 DEF KETypeOK
  <1>5. SingleActive(entries)'
    BY <1>1 DEF SingleActive, Live, Of
  <1>6. \A c \in Concepts :
            newest'[c] > 0 => \E i \in Of(entries', c) : entries'[i].version = newest'[c]
    BY <1>1, <1>2
  <1> QED  BY <1>4, <1>5, <1>6 DEF KEInvariant, Of

LEMMA EditStep ==
    ASSUME KEInvariant, NEW added, added = << >> \/ added \in Seq(Entry), EditEntries(added)
    PROVE  KEInvariant'
  <1>1. entries \in Seq(Entry) /\ types \in SUBSET Binding /\ added \in Seq(Entry)
    <2>1. << >> \in Seq(Entry)
      OBVIOUS
    <2> QED  BY <2>1 DEF KEInvariant, KETypeOK
  <1>2. PICK statuses \in [DOMAIN entries -> Statuses] :
            Save([i \in DOMAIN entries |-> [entries[i] EXCEPT !.status = statuses[i]]] \o added,
                 types, rules)
    BY DEF EditEntries
  <1> DEFINE kept == [i \in DOMAIN entries |-> [entries[i] EXCEPT !.status = statuses[i]]]
  <1>3. DOMAIN entries = 1..Len(entries) /\ Len(entries) \in Nat
    BY <1>1
  <1>4. ASSUME NEW i \in DOMAIN entries
        PROVE  /\ kept[i] \in Entry
               /\ kept[i].concept = entries[i].concept /\ kept[i].version = entries[i].version
    <2>1. entries[i] \in Entry /\ statuses[i] \in Statuses
      BY <1>1, <1>2
    <2> QED  BY <2>1 DEF Entry
  <1>5. kept \in Seq(Entry) /\ Len(kept) = Len(entries)
    <2>1. kept = [i \in 1..Len(entries) |-> kept[i]]
      BY <1>3
    <2> HIDE DEF kept
    <2> QED  BY <1>3, <1>4, <2>1
  <1> HIDE DEF kept
  <1>6. kept \o added \in Seq(Entry) /\ \A i \in DOMAIN entries : 
             i \in DOMAIN (kept \o added) /\ (kept \o added)[i] = kept[i]
    BY <1>1, <1>3, <1>5
  <1>7. Retains(kept \o added)
    BY <1>4, <1>6 DEF Retains
  <1> QED  BY <1>1, <1>2, <1>6, <1>7, SaveStep DEF kept

LEMMA KEHolds == KESpec => []KEInvariant
  <1>1. KEInit => KEInvariant
    <2> SUFFICES ASSUME KEInit
                 PROVE  KEInvariant
      OBVIOUS
    <2>1. \A c : Live(entries, c) = {}
      BY DEF KEInit, Live, Of
    <2>2. SingleActive(entries)
      BY <2>1, FS_EmptySet DEF SingleActive
    <2> QED  BY <2>2, BoundsAssumption DEF KEInit, KEInvariant, KETypeOK, Known
  <1>2. KEInvariant /\ [KENext]_keVars => KEInvariant'
    <2> SUFFICES ASSUME KEInvariant, [KENext]_keVars
                 PROVE  KEInvariant'
      OBVIOUS
    <2>1. Retains(entries) /\ entries \in Seq(Entry) /\ types \in SUBSET Binding
      BY DEF Retains, KEInvariant, KETypeOK
    <2>2. CASE EditEntries(<< >>)
      BY <2>2, EditStep
    <2>3. ASSUME NEW e \in Drafts, EditEntries(<<e>>)
          PROVE  KEInvariant'
      <3>1. <<e>> \in Seq(Entry)
        BY DraftsAssumption
      <3> QED  BY <2>3, <3>1, EditStep
    <2>4. ASSUME NEW b \in Binding, EditTypes(types \cup {b}) \/ EditTypes(types \ {b})
          PROVE  KEInvariant'
      BY <2>1, <2>4, SaveStep DEF EditTypes
    <2>5. ASSUME NEW r \in Rule, EditRules(rules \cup {r}) \/ EditRules(rules \ {r})
          PROVE  KEInvariant'
      BY <2>1, <2>5, SaveStep DEF EditRules
    <2>6. CASE UNCHANGED keVars
      BY <2>6 DEF keVars, KEInvariant, KETypeOK, SingleActive, Live, Of, Known
    <2> QED  BY <2>2, <2>3, <2>4, <2>5, <2>6 DEF KENext
  <1> QED  BY <1>1, <1>2, PTL DEF KESpec

\* The workspace and what its readers saw keep their types; no rule is ever
\* left with a type that an edit took away.
THEOREM KETypeCorrect == KESpec => []KETypeOK
  BY KEHolds, PTL DEF KEInvariant

\* Whatever authors supersede, tombstone or bring back, no reader is sent back
\* to an older version: what was resolved to is retained, and what is live
\* outdoes every entry that is retained.
THEOREM NoReaderIsSentBack == KESpec => []NeverResolvesBack
  <1>1. KEInvariant => NeverResolvesBack
    <2> SUFFICES ASSUME KEInvariant, NEW c \in Concepts, Resolve(entries, c) # NoEntry
                 PROVE  Resolve(entries, c).version >= newest[c]
      BY DEF NeverResolvesBack
    <2>1. entries \in Seq(Entry) /\ SingleActive(entries) /\ newest[c] \in 0..MaxVersion
      BY DEF KEInvariant, KETypeOK
    <2>2. Live(entries, c) # {}
      BY <2>1, ResolvedIsLive
    <2>3. PICK i \in Live(entries, c) :
              /\ Resolve(entries, c) = entries[i] /\ entries[i] \in Entry
              /\ \A j \in Of(entries, c) : entries[j].version <= entries[i].version
      BY <2>1, <2>2, ResolvedIsLive
    <2>4. entries[i].version \in 1..MaxVersion
      BY <2>3 DEF Entry
    <2> QED  BY <2>1, <2>3, <2>4, BoundsAssumption DEF KEInvariant
  <1> QED  BY <1>1, KEHolds, PTL

-----------------------------------------------------------------------------
(* Fibration node: worldviews *)

\* The least of some levels is one of them.
LEMMA LeastRank ==
    ASSUME NEW S \in SUBSET Ranks, S # {}
    PROVE  Min(S) \in S /\ \A x \in S : Min(S) <= x
  <1>1. \E m \in S : \A x \in S : m <= x
    <2>1. CASE 0 \in S
      BY <2>1 DEF Ranks
    <2>2. CASE 0 \notin S /\ 1 \in S
      BY <2>2 DEF Ranks
    <2>3. CASE 0 \notin S /\ 1 \notin S /\ 2 \in S
      BY <2>3 DEF Ranks
    <2>4. CASE 0 \notin S /\ 1 \notin S /\ 2 \notin S
      <3>1. \A x \in S : x = 3
        BY <2>4 DEF Ranks
      <3> QED  BY <3>1
    <2> QED  BY <2>1, <2>2, <2>3, <2>4
  <1> QED  BY <1>1 DEF Min

\* A level that decays stays one, and falls with age.
LEMMA DecayFalls ==
    ASSUME NEW level \in Ranks, NEW a \in Nat, NEW b \in Nat, a <= b
    PROVE  /\ Decay(level, a) \in Ranks
           /\ Decay(level, b) <= Decay(level, a)
           /\ Decay(level, a) > 0 => Decay(level, a) = level - (a \div 2)
  <1>1. a \div 2 \in Nat /\ b \div 2 \in Nat /\ a \div 2 <= b \div 2
    OBVIOUS
  <1> QED  BY <1>1 DEF Decay, Ranks

\* What is said of a section.
LEMMA Descended ==
    ASSUME NEW l, NEW g, NEW a \in [Sections -> Nat], NEW s \in Sections,
           NEW d, d = Descend(l, g, a, s)
    PROVE  /\ d \in Verdict
           /\ d.verdict = "glues" <=> Agrees(l, g, s)
           /\ d.verdict = "blocked" <=> ~ Agrees(l, g, s) /\ Conflicts(l, g, s) # {}
           /\ d.mode = "full" <=> Agrees(l, g, s) /\ ~ Stale(a[s])
           /\ d.level = IF Agrees(l, g, s) THEN Decay(Declared[s], a[s]) ELSE 0
  <1>1. Declared[s] \in Ranks /\ a[s] \in Nat
    BY DeclaredAssumption
  <1>2. Decay(Declared[s], a[s]) \in Ranks /\ 0 \in Ranks
    BY <1>1, DecayFalls DEF Ranks
  <1>3. CASE Agrees(l, g, s)
    BY <1>2, <1>3 DEF Descend, Verdict
  <1>4. CASE ~ Agrees(l, g, s) /\ Conflicts(l, g, s) # {}
    BY <1>2, <1>4 DEF Descend, Verdict
  <1>5. CASE ~ Agrees(l, g, s) /\ Conflicts(l, g, s) = {}
    BY <1>2, <1>5 DEF Descend, Verdict
  <1> QED  BY <1>3, <1>4, <1>5

\* The ceiling is the least level, or that of an external principal where that
\* is lower.
LevelsOf(secs) == {secs[s].level : s \in Sections}

LEMMA LeastLevel ==
    ASSUME NEW secs \in [Sections -> Verdict], NEW meet, meet = Min(LevelsOf(secs))
    PROVE  /\ meet \in Ranks
           /\ \A s \in Sections : meet <= secs[s].level
           /\ \E s \in Sections : meet = secs[s].level
  <1> DEFINE levels == LevelsOf(secs)
  <1>1. \A s \in Sections : secs[s].level \in Ranks
    BY DEF Verdict
  <1>2. levels \subseteq Ranks /\ levels # {}
    BY <1>1, SectionsAssumption DEF LevelsOf
  <1>3. Min(levels) \in levels /\ \A x \in levels : Min(levels) <= x
    BY <1>2, LeastRank
  <1>4. meet = Min(levels)
    OBVIOUS
  <1>5. meet \in levels /\ \A s \in Sections : meet <= secs[s].level
    BY <1>3, <1>4 DEF LevelsOf
  <1> QED  BY <1>2, <1>5 DEF LevelsOf

\* What a worldview v says of sections, and how its ceiling comes about.
Shows(v, l, g, a) ==
    /\ v \in View
    /\ v.gated <=> \E s \in Sections : v.sections[s].verdict = "blocked"
    /\ External => v.ceiling <= ExternalCeiling
    /\ \/ \E s \in Sections : v.ceiling = v.sections[s].level
       \/ External /\ v.ceiling = ExternalCeiling
    /\ \A s \in Sections :
          /\ v.ceiling <= v.sections[s].level
          /\ v.sections[s].verdict = "glues" <=> Agrees(l, g, s)
          /\ v.sections[s].verdict = "blocked" <=> ~ Agrees(l, g, s) /\ Conflicts(l, g, s) # {}
          /\ v.sections[s].mode = "full" <=> Agrees(l, g, s) /\ ~ Stale(a[s])
          /\ v.sections[s].level = IF Agrees(l, g, s) THEN Decay(Declared[s], a[s]) ELSE 0

LEMMA Projected ==
    ASSUME NEW l, NEW g, NEW a \in [Sections -> Nat], NEW v, v = Project(l, g, a)
    PROVE  Shows(v, l, g, a)
  <1> DEFINE secs == [s \in Sections |-> Descend(l, g, a, s)]
             meet == Min(LevelsOf(secs))
  <1>1. secs \in [Sections -> Verdict] /\ \A s \in Sections : secs[s] = Descend(l, g, a, s)
    BY Descended
  <1>2. /\ v.sections = secs
        /\ v.ceiling = IF External /\ meet > ExternalCeiling THEN ExternalCeiling ELSE meet
        /\ v.gated = \E s \in Sections : secs[s].verdict = "blocked"
        /\ v = [sections |-> v.sections, ceiling |-> v.ceiling, gated |-> v.gated]
    BY DEF Project, LevelsOf
  <1> HIDE DEF secs
  <1>3. /\ meet \in Ranks
        /\ \A s \in Sections : meet <= secs[s].level
        /\ \E s \in Sections : meet = secs[s].level
    BY <1>1, LeastLevel
  <1> HIDE DEF meet
  <1>4. v.ceiling \in Ranks /\ v.ceiling <= meet
    BY <1>2, <1>3 DEF Ranks, ExternalCeiling
  <1>5. External => v.ceiling <= ExternalCeiling
    BY <1>2, <1>3 DEF Ranks, ExternalCeiling
  <1>6. v.ceiling = meet \/ (External /\ v.ceiling = ExternalCeiling)
    BY <1>2
  <1>7. \A s \in Sections : v.ceiling <= secs[s].level
    <2>1. \A s \in Sections : secs[s].level \in Ranks
      BY <1>1 DEF Verdict
    <2> QED  BY <1>3, <1>4, <2>1 DEF Ranks
  <1>8. v \in View
    <2>1. v.gated \in BOOLEAN /\ v.sections \in [Sections -> Verdict]
      BY <1>1, <1>2
    <2> QED  BY <1>2, <1>4, <2>1 DEF View
  <1>9. ASSUME NEW s \in Sections, NEW d, d = secs[s]
        PROVE  /\ d.verdict = "glues" <=> Agrees(l, g, s)
               /\ d.verdict = "blocked" <=> ~ Agrees(l, g, s) /\ Conflicts(l, g, s) # {}
               /\ d.mode = "full" <=> Agrees(l, g, s) /\ ~ Stale(a[s])
               /\ d.level = IF Agrees(l, g, s) THEN Decay(Declared[s], a[s]) ELSE 0
    <2>1. d = Descend(l, g, a, s)
      BY <1>1, <1>9
    <2> QED  BY <2>1, Descended
  <1> QED  BY <1>2, <1>3, <1>5, <1>6, <1>7, <1>8, <1>9 DEF Shows

NodeInvariant ==
    /\ NodeTypeOK
    /\ view = Project(local, shared, age)

LEMMA NodeHolds == NodeSpec => []NodeInvariant
  <1>1. ASSUME NodeTypeOK
        PROVE  age \in [Sections -> Nat]
    BY <1>1 DEF NodeTypeOK
  <1>2. NodeInit => NodeInvariant
    <2> SUFFICES ASSUME NodeInit
                 PROVE  NodeInvariant
      OBVIOUS
    <2>1. age \in [Sections -> Nat] /\ age \in [Sections -> 0..MaxAge]
      BY MaxAgeAssumption DEF NodeInit
    <2>2. Project(local, shared, age) \in View
      BY <2>1, Projected DEF Shows
    <2> QED  BY <2>1, <2>2 DEF NodeInit, NodeInvariant, NodeTypeOK
  <1>3. NodeInvariant /\ [NodeNext]_nodeVars => NodeInvariant'
    <2> SUFFICES ASSUME NodeInvariant, [NodeNext]_nodeVars
                 PROVE  NodeInvariant'
      OBVIOUS
    <2>1. ASSUME NEW s \in Sections, NEW v \in SectionValues, Write(s, v) \/ Share(s, v)
          PROVE  /\ local' \in [Sections -> SectionValues] /\ shared' \in [Sections -> SectionValues]
                 /\ age' \in [Sections -> 0..MaxAge] /\ view' = Project(local', shared', age')
      BY <2>1 DEF Write, Share, NodeInvariant, NodeTypeOK
    <2>2. ASSUME Pass
          PROVE  /\ local' \in [Sections -> SectionValues] /\ shared' \in [Sections -> SectionValues]
                 /\ age' \in [Sections -> 0..MaxAge] /\ view' = Project(local', shared', age')
      <3>1. \A s \in Sections : age[s] + 1 \in 0..MaxAge
        BY <2>2, MaxAgeAssumption DEF Pass, NodeInvariant, NodeTypeOK
      <3> QED  BY <2>2, <3>1 DEF Pass, NodeInvariant, NodeTypeOK
    <2>3. ASSUME NEW s \in Sections, Refresh(s)
          PROVE  /\ local' \in [Sections -> SectionValues] /\ shared' \in [Sections -> SectionValues]
                 /\ age' \in [Sections -> 0..MaxAge] /\ view' = Project(local', shared', age')
      BY <2>3, MaxAgeAssumption DEF Refresh, NodeInvariant, NodeTypeOK
    <2>4. CASE UNCHANGED nodeVars
      BY <2>4 DEF nodeVars, NodeInvariant, NodeTypeOK
    <2>5. ASSUME NodeNext
          PROVE  NodeInvariant'
      <3>1. /\ local' \in [Sections -> SectionValues] /\ shared' \in [Sections -> SectionValues]
            /\ age' \in [Sections -> 0..MaxAge] /\ view' = Project(local', shared', age')
        BY <2>1, <2>2, <2>3, <2>5 DEF NodeNext
      <3>2. age' \in [Sections -> Nat]
        BY <3>1
      <3>3. Project(local', shared', age') \in View
        BY <3>2, Projected DEF Shows
      <3> QED  BY <3>1, <3>3 DEF NodeInvariant, NodeTypeOK
    <2> QED  BY <2>4, <2>5
  <1> QED  BY <1>2, <1>3, PTL DEF NodeSpec

\* Values, ages and the worldview keep their types.
THEOREM NodeTypeCorrect == NodeSpec => []NodeTypeOK
  BY NodeHolds, PTL DEF NodeInvariant

LEMMA NodeShows == NodeInvariant => Shows(view, local, shared, age)
  BY Projected DEF NodeInvariant, NodeTypeOK

\* While the extent is open, of two sections that overlap one agrees.
THEOREM OpenExtentIsLocal == NodeSpec => []OpenIsLocal
  <1>1. NodeInvariant => OpenIsLocal
    <2> SUFFICES ASSUME NodeInvariant, ~ view.gated, NEW s \in Sections, NEW t \in Sections,
                        <<s, t>> \in Overlaps
                 PROVE  view.sections[s].verdict = "glues" \/ view.sections[t].verdict = "glues"
      BY DEF OpenIsLocal
    <2>1. CASE Agrees(local, shared, t)
      BY <2>1, NodeShows DEF Shows
    <2>2. CASE ~ Agrees(local, shared, t)
      <3>1. t \in Conflicts(local, shared, s)
        BY <2>2 DEF Conflicts
      <3> QED  BY <3>1, NodeShows DEF Shows
    <2> QED  BY <2>1, <2>2
  <1> QED  BY <1>1, NodeHolds, PTL

\* A ceiling above Speculative is earned by every section.
THEOREM CeilingEarned == NodeSpec => []CeilingIsEarned
  <1>1. NodeInvariant => CeilingIsEarned
    <2> SUFFICES ASSUME NodeInvariant, view.ceiling > 0
                 PROVE  /\ \A s \in Sections : /\ Survives(view.sections[s])
                                               /\ age[s] \div 2 + view.ceiling <= Declared[s]
                        /\ External => view.ceiling = ExternalCeiling
      BY DEF CeilingIsEarned
    <2>1. view.ceiling \in Ranks
      BY NodeShows DEF Shows, View
    <2>2. ASSUME NEW s \in Sections
          PROVE  Survives(view.sections[s]) /\ age[s] \div 2 + view.ceiling <= Declared[s]
      <3>1. Declared[s] \in Ranks /\ age[s] \in Nat /\ age[s] \div 2 \in Nat
        BY DeclaredAssumption DEF NodeInvariant, NodeTypeOK
      <3>2. view.ceiling <= IF Agrees(local, shared, s) THEN Decay(Declared[s], age[s]) ELSE 0
        BY NodeShows DEF Shows
      <3>3. Agrees(local, shared, s) /\ view.ceiling <= Decay(Declared[s], age[s])
        BY <2>1, <3>2 DEF Ranks
      <3>4. /\ Decay(Declared[s], age[s]) \in Ranks
            /\ Decay(Declared[s], age[s]) > 0
                => Decay(Declared[s], age[s]) = Declared[s] - (age[s] \div 2)
        BY <3>1, DecayFalls
      <3>5. age[s] \div 2 + view.ceiling <= Declared[s]
        BY <2>1, <3>1, <3>3, <3>4 DEF Ranks
      <3> QED  BY <3>3, <3>5, NodeShows DEF Survives, Shows
    <2>3. External => view.ceiling = ExternalCeiling
      BY <2>1, NodeShows DEF Shows, ExternalCeiling, Ranks
    <2> QED  BY <2>2, <2>3
  <1> QED  BY <1>1, NodeHolds, PTL

\* The same values, as old or older, show nothing higher.
LEMMA OlderIsLower ==
    ASSUME NEW l, NEW g, NEW a \in [Sections -> Nat], NEW b \in [Sections -> Nat],
           \A s \in Sections : a[s] <= b[s],
           NEW v, Shows(v, l, g, a), NEW w, Shows(w, l, g, b)
    PROVE  /\ w.ceiling <= v.ceiling
           /\ \A s \in Sections :
                 /\ w.sections[s].level <= v.sections[s].level
                 /\ w.sections[s].mode = "full" => v.sections[s].mode = "full"
  <1>1. ASSUME NEW s \in Sections
        PROVE  /\ v.sections[s].level \in Ranks /\ w.sections[s].level \in Ranks
               /\ w.sections[s].level <= v.sections[s].level
    <2>1. Declared[s] \in Ranks /\ a[s] \in Nat /\ b[s] \in Nat /\ a[s] <= b[s]
      BY DeclaredAssumption
    <2>2. /\ Decay(Declared[s], a[s]) \in Ranks /\ Decay(Declared[s], b[s]) \in Ranks
          /\ Decay(Declared[s], b[s]) <= Decay(Declared[s], a[s])
      BY <2>1, DecayFalls
    <2>3. /\ v.sections[s].level = IF Agrees(l, g, s) THEN Decay(Declared[s], a[s]) ELSE 0
          /\ w.sections[s].level = IF Agrees(l, g, s) THEN Decay(Declared[s], b[s]) ELSE 0
      BY DEF Shows
    <2> QED  BY <2>2, <2>3 DEF Ranks
  <1>2. ASSUME NEW s \in Sections, w.sections[s].mode = "full"
        PROVE  v.sections[s].mode = "full"
    <2>1. Agrees(l, g, s) /\ ~ Stale(b[s])
      BY <1>2 DEF Shows
    <2>2. ~ Stale(a[s])
      BY <2>1 DEF Stale
    <2> QED  BY <2>1, <2>2 DEF Shows
  <1>3. w.ceiling <= v.ceiling
    <2>1. v.ceiling \in Ranks /\ w.ceiling \in Ranks
      BY DEF Shows, View
    <2>2. CASE \E s \in Sections : v.ceiling = v.sections[s].level
      <3>1. PICK s \in Sections : v.ceiling = v.sections[s].level
        BY <2>2
      <3>2. w.ceiling <= w.sections[s].level
        BY DEF Shows
      <3> QED  BY <1>1, <2>1, <3>1, <3>2 DEF Ranks
    <2>3. CASE External /\ v.ceiling = ExternalCeiling
      BY <2>3 DEF Shows
    <2> QED  BY <2>2, <2>3 DEF Shows
  <1> QED  BY <1>1, <1>2, <1>3

\* Time alone raises no level and no ceiling, and gives no mode back.
THEOREM TimeOnlyLowers == NodeSpec => AgeOnlyLowers
  <1> DEFINE Aged == UNCHANGED <<local, shared>> /\ \A s \in Sections : age'[s] >= age[s]
             Lowers == /\ view'.ceiling <= view.ceiling
                       /\ \A s \in Sections :
                             /\ view'.sections[s].level <= view.sections[s].level
                             /\ view'.sections[s].mode = "full" => view.sections[s].mode = "full"
  <1>1. NodeInvariant /\ NodeInvariant' /\ Aged => Lowers
    <2> SUFFICES ASSUME NodeInvariant, NodeInvariant', Aged
                 PROVE  Lowers
      OBVIOUS
    <2>1. /\ age \in [Sections -> Nat] /\ age' \in [Sections -> Nat]
          /\ \A s \in Sections : age[s] <= age'[s]
      BY DEF NodeInvariant, NodeTypeOK
    <2>2. view = Project(local, shared, age) /\ view' = Project(local, shared, age')
      BY DEF NodeInvariant
    <2>3. Shows(view, local, shared, age) /\ Shows(view', local, shared, age')
      BY <2>1, <2>2, Projected
    <2> QED  BY <2>1, <2>3, OlderIsLower
  <1> QED  BY <1>1, NodeHolds, PTL DEF AgeOnlyLowers

-----------------------------------------------------------------------------
(* Agent cognition: entity-relationship instances *)

Below == {p \in Nat \X Nat : p[1] < p[2]}

\* Some positions, all up to a bound, have a last one.
LEMMA LastPosition ==
    ASSUME NEW k \in Nat, NEW S \in SUBSET (1..k), S # {}
    PROVE  \E n \in S : \A i \in S : i <= n
  <1> DEFINE T == {i \in Nat : k - i \in S}
  <1>1. IsWellFoundedOn(Below, Nat)
    BY NatLessThanWellFounded, Zenon DEF OpToRel, Below
  <1>2. T \subseteq Nat /\ T # {}
    <2>1. PICK i \in S : TRUE
      OBVIOUS
    <2>2. k - i \in Nat /\ k - (k - i) = i
      OBVIOUS
    <2> QED  BY <2>2
  <1>3. PICK m \in T : \A i \in T : ~ (<<i, m>> \in Below)
    BY <1>1, <1>2, WFMin, Zenon
  <1>4. m \in Nat /\ k - m \in S
    OBVIOUS
  <1>5. ASSUME NEW i \in S
        PROVE  i <= k - m
    <2>1. k - i \in T /\ i \in Nat
      OBVIOUS
    <2>2. ~ (k - i < m)
      BY <1>3, <1>4, <2>1 DEF Below
    <2> QED  BY <1>4, <2>1, <2>2
  <1> QED  BY <1>4, <1>5

\* The record that holds an id is the only one of that id that no later one
\* shadows.
LEMMA HolderIsApparent ==
    ASSUME ERTypeOK, NEW id \in Named
    PROVE  \E n \in DOMAIN authored :
              /\ Apparent(n) /\ authored[n].id = id /\ Holder(id) = authored[n]
              /\ \A k \in DOMAIN authored : Apparent(k) /\ authored[k].id = id => k = n
  <1> DEFINE S == {n \in DOMAIN authored : authored[n].id = id}
             P(n) == authored[n].id = id /\ \A k \in DOMAIN authored : authored[k].id = id => k <= n
  <1>1. DOMAIN authored = 1..Len(authored) /\ Len(authored) \in Nat
    BY DEF ERTypeOK
  <1>2. S \in SUBSET (1..Len(authored)) /\ S # {}
    BY <1>1 DEF Named
  <1>3. PICK n \in S : \A i \in S : i <= n
    BY <1>1, <1>2, LastPosition
  <1>4. n \in DOMAIN authored /\ P(n) /\ n \in Nat
    BY <1>1, <1>3
  <1>5. \A m \in DOMAIN authored : P(m) => m = n
    <2> SUFFICES ASSUME NEW m \in DOMAIN authored, P(m)
                 PROVE  m = n
      OBVIOUS
    <2>1. m <= n /\ n <= m /\ m \in Nat
      BY <1>1, <1>4
    <2> QED  BY <1>4, <2>1
  <1>6. (CHOOSE m \in DOMAIN authored : P(m)) = n
    <2> HIDE DEF P
    <2> QED  BY <1>4, <1>5
  <1>7. Holder(id) = authored[n]
    BY <1>6 DEF Holder
  <1>8. Apparent(n)
    BY <1>1, <1>4 DEF Apparent
  <1>9. \A k \in DOMAIN authored : Apparent(k) /\ authored[k].id = id => k = n
    <2> SUFFICES ASSUME NEW k \in DOMAIN authored, Apparent(k), authored[k].id = id
                 PROVE  k = n
      OBVIOUS
    <2>1. k <= n /\ k \in Nat
      BY <1>1, <1>4
    <2>2. ~ (n > k)
      BY <1>4 DEF Apparent
    <2> QED  BY <1>4, <2>1, <2>2
  <1> QED  BY <1>4, <1>7, <1>8, <1>9

\* The object of a required relation is of one entity.
LEMMA RequiredIsTyped ==
    \A r \in Required : \A type : <<r[1], r[2], type>> \in Relations => type = r[3]
  <1> SUFFICES ASSUME NEW r \in Required, NEW type, <<r[1], r[2], type>> \in Relations
               PROVE  type = r[3]
    OBVIOUS
  <1>1. CASE r = <<"ACTION", "gated_by", "POLICY_CHECK">>
    BY <1>1 DEF Relations, Required
  <1>2. CASE r = <<"ACTION", "recorded_as", "AUDIT_EVENT">>
    BY <1>2 DEF Relations, Required
  <1>3. CASE r = <<"PROVENANCE_RECORD", "depends_on", "DATASET_VERSION">>
    BY <1>3 DEF Relations, Required
  <1>4. CASE r = <<"PROVENANCE_RECORD", "includes", "MODEL_VERSION">>
    BY <1>4 DEF Relations, Required
  <1> QED  BY <1>1, <1>2, <1>3, <1>4 DEF Required

\* What was found valid has not been added to since.
Passes ==
    /\ \A r \in ToSet(authored) : RecordOK(r)
    /\ \A e \in links : EdgeOK(e)
    /\ \A id \in Named : HasRequired(id)

ERInvariant == ERTypeOK /\ (found = "valid" => Passes)

\* A block of records stays in one piece.
LEMMA AddRecordStep ==
    ASSUME ERInvariant, NEW r \in RecordPool, AddRecord(r)
    PROVE  ERInvariant'
  <1>1. authored \in Seq(Record) /\ links \subseteq Related /\ r \in Record
    BY PoolsAssumption DEF ERInvariant, ERTypeOK
  <1>2. authored' = Append(authored, r) /\ found' = "nothing" /\ links' = links
    BY DEF AddRecord
  <1> DEFINE n == Len(authored)
  <1>3. /\ n \in Nat /\ DOMAIN authored = 1..n /\ DOMAIN authored' = 1..(n + 1)
        /\ authored' \in Seq(Record)
        /\ \A i \in 1..n : authored'[i] = authored[i]
        /\ authored'[n + 1] = r
    BY <1>1, <1>2
  <1> HIDE DEF n
  <1>4. \A i \in 1..n : authored[i].type = r.type => i = n \/ authored[n].type = r.type
    BY <1>3 DEF AddRecord, n
  <1>5. ASSUME NEW i \in 1..(n + 1), NEW j \in 1..(n + 1), NEW k \in 1..(n + 1),
               i < j, j < k, authored'[i].type = authored'[k].type
        PROVE  authored'[j].type = authored'[i].type
    <2>1. i \in 1..n /\ j \in 1..n /\ n \in 1..n
      BY <1>3, <1>5
    <2>2. CASE k <= n
      <3>1. k \in 1..n
        BY <1>3, <2>2
      <3> QED  BY <1>3, <1>5, <2>1, <3>1 DEF ERInvariant, ERTypeOK
    <2>3. CASE k = n + 1
      <3>1. authored[i].type = r.type /\ i # n
        BY <1>3, <1>5, <2>1, <2>3
      <3>2. authored[n].type = authored[i].type
        BY <1>4, <2>1, <3>1
      <3>3. j = n \/ authored[j].type = authored[i].type
        BY <1>3, <1>5, <2>1, <3>2 DEF ERInvariant, ERTypeOK
      <3> QED  BY <1>3, <2>1, <3>2, <3>3
    <2> QED  BY <1>3, <2>2, <2>3
  <1> QED  BY <1>1, <1>2, <1>3, <1>5 DEF ERInvariant, ERTypeOK

LEMMA ERHolds == ERSpec => []ERInvariant
  <1>1. ERInit => ERInvariant
    BY DEF ERInit, ERInvariant, ERTypeOK
  <1>2. ERInvariant /\ [ERNext]_erVars => ERInvariant'
    <2> SUFFICES ASSUME ERInvariant, [ERNext]_erVars
                 PROVE  ERInvariant'
      OBVIOUS
    <2>1. ASSUME NEW e \in EdgePool, AddEdge(e)
          PROVE  ERInvariant'
      BY <2>1, PoolsAssumption DEF AddEdge, ERInvariant, ERTypeOK
    <2>2. ASSUME UNCHANGED <<authored, links>>
          PROVE  Passes' <=> Passes
      <3>1. \A e : EdgeOK(e)' <=> EdgeOK(e)
        BY <2>2 DEF EdgeOK, Named, Holder
      <3>2. \A id : HasRequired(id)' <=> HasRequired(id)
        BY <2>2 DEF HasRequired, Holder
      <3>3. Named' = Named
        BY <2>2 DEF Named
      <3> QED  BY <2>2, <3>1, <3>2, <3>3 DEF Passes
    <2>3. ASSUME Validate
          PROVE  ERInvariant'
      <3>1. ERTypeOK'
        BY <2>3 DEF Validate, ERInvariant, ERTypeOK
      <3>2. found' = "valid" => Passes
        BY <2>3 DEF Validate, Passes
      <3> QED  BY <2>3, <2>2, <3>1, <3>2 DEF Validate, ERInvariant
    <2>4. CASE UNCHANGED erVars
      BY <2>4, <2>2 DEF erVars, ERInvariant, ERTypeOK
    <2> QED  BY <2>1, <2>3, <2>4, AddRecordStep DEF ERNext
  <1> QED  BY <1>1, <1>2, PTL DEF ERSpec

\* An instance and its edges keep their types and its records their blocks.
THEOREM ERTypeCorrect == ERSpec => []ERTypeOK
  BY ERHolds, PTL DEF ERInvariant

\* Whoever reads a valid instance finds, behind the edges of every action and
\* every provenance record that shows, the records they must lead to.
THEOREM ValidIsAuditable == ERSpec => []Auditable
  <1>1. ERInvariant => Auditable
    <2> SUFFICES ASSUME ERInvariant, found = "valid",
                        NEW n \in DOMAIN authored, NEW r \in Required,
                        authored[n].type = r[1], Apparent(n)
                 PROVE  \E e \in links, k \in DOMAIN authored :
                            /\ e.from = authored[n].id /\ e.by = r[2] /\ e.to = authored[k].id
                            /\ authored[k].type = r[3] /\ authored[k].keyed
                            /\ Apparent(k)
      BY DEF Auditable
    <2> DEFINE id == authored[n].id
    <2>1. id \in Named /\ ERTypeOK
      BY DEF Named, ERInvariant
    <2>2. Holder(id) = authored[n]
      BY <2>1, HolderIsApparent
    <2>3. PICK e \in links : e.from = id /\ e.by = r[2]
      BY <2>1, <2>2 DEF ERInvariant, Passes, HasRequired
    <2>4. e.to \in Named /\ <<Holder(e.from).type, e.by, Holder(e.to).type>> \in Relations
      BY <2>3 DEF ERInvariant, Passes, EdgeOK
    <2>5. PICK k \in DOMAIN authored :
              Apparent(k) /\ authored[k].id = e.to /\ Holder(e.to) = authored[k]
      BY <2>1, <2>4, HolderIsApparent
    <2>6. authored[k].type = r[3]
      <3>1. <<r[1], r[2], authored[k].type>> \in Relations
        BY <2>2, <2>3, <2>4, <2>5
      <3> QED  BY <3>1, RequiredIsTyped
    <2>7. authored[k].keyed
      BY DEF ERInvariant, Passes, RecordOK, ToSet
    <2> QED  BY <2>3, <2>5, <2>6, <2>7
  <1> QED  BY <1>1, ERHolds, PTL

(* The contracts side by side *)

\* Side by side with the others, each contract is what its own part makes of
\* it.
LEMMA Parts == Spec => GraphSpec /\ KESpec /\ NodeSpec /\ ERSpec
  <1>1. Init => GraphInit /\ KEInit /\ NodeInit /\ ERInit
    BY DEF Init
  <1>2. [Next]_<<graphVars, keVars, nodeVars, erVars>>
           => /\ [GraphNext]_graphVars
              /\ [KENext]_keVars
              /\ [NodeNext]_nodeVars
              /\ [ERNext]_erVars
    BY DEF Next
  <1> QED  BY <1>1, <1>2, PTL DEF Spec, GraphSpec, KESpec, NodeSpec, ERSpec

\* Graphs, entries, nodes and records stay what they are written as.
THEOREM TypeCorrect == Spec => []TypeOK
  <1> QED  BY Parts, GraphTypeCorrect, KETypeCorrect, NodeTypeCorrect, ERTypeCorrect, PTL
           DEF TypeOK
==============================================================================
