----------------------------- MODULE MCKnowledge -----------------------------
(* Small instances of the contracts of knowledge, composition and worldview. *)
EXTENDS CompositionGraph, KEWorkspace, FibrationNode, CognitionER

CONSTANTS n1, n2, n3, concept, person, org, s1, s2, s3, yes, no

ThreeNodes == {n1, n2, n3}
Plain(n) == [id |-> n, ttl |-> 1, budget |-> 0, loop |-> FALSE, high |-> FALSE, host |-> FALSE]
Over(kind, ns) == [kind |-> kind, over |-> ns]
EdgesOf(ns) == [from : ns, to : ns]

\* Every graph of three nodes and at most four edges between different nodes.
Sound ==
    {[contained |-> TRUE, nodes |-> <<Plain(n1), Plain(n2), Plain(n3)>>, edges |-> edges,
      gates |-> <<Over("policy", {n1})>>] :
        edges \in UNION {[1..k -> {e \in EdgesOf(ThreeNodes) : e.from # e.to}] : k \in 0..4}}

\* Graphs that fall short in their nodes, their gates or their fields.
Chain2 == [contained |-> TRUE, nodes |-> <<Plain(n1), Plain(n2)>>,
           edges |-> <<[from |-> n1, to |-> n2]>>, gates |-> <<Over("policy", {n1})>>]
Others ==
    {[Chain2 EXCEPT !.nodes[2] = d] :
        d \in [id : {n1, n2}, ttl : {0, 1}, budget : {0, 2}, loop : BOOLEAN,
               high : BOOLEAN, host : BOOLEAN]}
    \cup {[Chain2 EXCEPT !.nodes[1].host = TRUE, !.gates = <<Over(kind, ns)>>] :
            kind \in {"eval", "quorum"}, ns \in {{}, {n1}, {n2}, {n3}}}
    \cup {[Chain2 EXCEPT !.edges = <<e>>] : e \in EdgesOf(ThreeNodes)}
    \cup {[Chain2 EXCEPT !.contained = FALSE], [Chain2 EXCEPT !.gates = << >>]}

SomeGraphs == Sound \cup Others

OneConcept == {concept}
TwoBindings == {person, org}
Written(v, state, reviewed) ==
    [concept |-> concept, version |-> v, status |-> "active", state |-> state,
     sound |-> TRUE, reviewed |-> reviewed, surfaced |-> reviewed]
SomeEntries ==
    {Written(v, "source_anchored", FALSE) : v \in 1..3}
    \cup {Written(3, "tested_doctrine", FALSE)}

ThreeSections == {s1, s2, s3}
TwoValues == {yes, no}
SomeOverlaps == {<<s1, s2>>, <<s2, s1>>, <<s2, s3>>}
SomeLevels == [s \in ThreeSections |-> CASE s = s1 -> 3 [] s = s2 -> 2 [] OTHER -> 1]

ThreeIds == {n1, n2, n3}
Rec(type, id) == [type |-> type, id |-> id, keyed |-> TRUE, scoped |-> type \in MemoryScoped]
SomeRecords ==
    {Rec("ACTION", n1), Rec("POLICY_CHECK", n2), Rec("AUDIT_EVENT", n3), Rec("AUDIT_EVENT", n1),
     Rec("PROVENANCE_RECORD", n1), Rec("DATASET_VERSION", n2), Rec("MODEL_VERSION", n3),
     Rec("OBSERVATION", n3), [Rec("POLICY_CHECK", n2) EXCEPT !.keyed = FALSE],
     [Rec("OBSERVATION", n3) EXCEPT !.scoped = FALSE], Rec("no such entity", n3)}
Link(a, by, b) == [from |-> a, by |-> by, to |-> b]
SomeEdges ==
    {Link(n1, "gated_by", n2), Link(n1, "recorded_as", n3), Link(n1, "depends_on", n2),
     Link(n1, "includes", n3), Link(n2, "gated_by", n2), Link(n1, "no such relation", n2)}

\* The parts share nothing: each is explored with the others at their start.
AllYes == local = [s \in Sections |-> yes]
Init == GraphInit /\ KEInit /\ NodeInit /\ ERInit
Next ==
    \/ /\ KEInit /\ AllYes /\ NodeInit /\ ERInit
       /\ GraphNext /\ UNCHANGED <<keVars, nodeVars, erVars>>
    \/ /\ GraphInit /\ AllYes /\ NodeInit /\ ERInit
       /\ KENext /\ UNCHANGED <<graphVars, nodeVars, erVars>>
    \/ /\ GraphInit /\ KEInit /\ ERInit
       /\ NodeNext /\ UNCHANGED <<graphVars, keVars, erVars>>
    \/ /\ GraphInit /\ KEInit /\ AllYes /\ NodeInit
       /\ ERNext /\ UNCHANGED <<graphVars, keVars, nodeVars>>

\* Types of the parts.
TypeOK == GraphTypeOK /\ KETypeOK /\ NodeTypeOK /\ ERTypeOK

Spec == Init /\ [][Next]_<<graphVars, keVars, nodeVars, erVars>>
=============================================================================
