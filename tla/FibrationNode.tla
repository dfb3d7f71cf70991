---------------------------- MODULE FibrationNode ----------------------------
(***************************************************************************)
(* tools/fibration-node: a node holds a local value of each section of the *)
(* graph it shares, and projects them into a worldview that says which     *)
(* sections agree, at what level, and whether the extent above is closed.  *)
(* Nodes write, the shared graph moves on and sections grow old between    *)
(* one projection and the next.                                            *)
(***************************************************************************)
EXTENDS Integers, FiniteSets, FiniteSetsExt

CONSTANTS
    Sections,
    SectionValues,
    Overlaps,      \* <<s, t>>: s declares that it overlaps t
    Declared,      \* the level each section is declared at, by rank
    External,      \* whether the node is an external principal
    MaxAge         \* bound on age in half windows, for model checking

ASSUME OverlapsAssumption == Overlaps \subseteq Sections \X Sections
ASSUME SectionsAssumption == IsFiniteSet(Sections) /\ Sections # {}
ASSUME MaxAgeAssumption == MaxAge \in Nat

\* LEVELS by rank: Speculative, Derived, Measured, Proved.
Ranks == 0..3
ExternalCeiling == 1
ASSUME DeclaredAssumption == Declared \in [Sections -> Ranks]

VARIABLES
    local,     \* local[s]: the node's value
    shared,    \* shared[s]: the graph's value
    age,       \* age[s]: half decay windows since the section was refreshed
    view       \* the projection: for each section a verdict, and the ceiling

nodeVars == <<local, shared, age, view>>

Verdict == [verdict : {"glues", "degraded", "blocked"},
            mode : {"full", "read-only", "blocked"}, level : Ranks]
View == [sections : [Sections -> Verdict], ceiling : Ranks, gated : BOOLEAN]

\* _decay: a step down for each full window.
Decay(level, a) == IF a \div 2 >= level THEN 0 ELSE level - (a \div 2)

\* Mutant: read-only for the third window only.
StaleBriefly(a) == a \in {4, 5}

\* Older than two windows, a section can only be read.
Stale(a) == a >= 4

Agrees(l, g, s) == l[s] = g[s]

\* Mutant: only overlaps that are declared both ways count.
ConflictsMutual(l, g, s) ==
    {t \in Sections : <<s, t>> \in Overlaps /\ <<t, s>> \in Overlaps /\ ~ Agrees(l, g, t)}

\* The sections that s overlaps and that disagree too.
Conflicts(l, g, s) == {t \in Sections : <<s, t>> \in Overlaps /\ ~ Agrees(l, g, t)}

\* descend_section.
Descend(l, g, a, s) ==
    IF Agrees(l, g, s)
    THEN [verdict |-> "glues", mode |-> IF Stale(a[s]) THEN "read-only" ELSE "full",
          level |-> Decay(Declared[s], a[s])]
    ELSE IF Conflicts(l, g, s) # {}
         THEN [verdict |-> "blocked", mode |-> "blocked", level |-> 0]
         ELSE [verdict |-> "degraded", mode |-> "read-only", level |-> 0]

\* Mutant: the sections that are degraded left out of the meet.
ProjectGlued(l, g, a) ==
    LET secs == [s \in Sections |-> Descend(l, g, a, s)]
        meet == Min({secs[s].level : s \in {x \in Sections : secs[x].verdict = "glues"}} \cup {3})
    IN  [sections |-> secs,
         ceiling |-> IF External /\ meet > ExternalCeiling THEN ExternalCeiling ELSE meet,
         gated |-> \E s \in Sections : secs[s].verdict = "blocked"]

\* project_worldview.
Project(l, g, a) ==
    LET secs == [s \in Sections |-> Descend(l, g, a, s)]
        meet == Min({secs[s].level : s \in Sections})
    IN  [sections |-> secs,
         ceiling |-> IF External /\ meet > ExternalCeiling THEN ExternalCeiling ELSE meet,
         gated |-> \E s \in Sections : secs[s].verdict = "blocked"]

\* survives_loop, of a section whose claim has its ProofArtifact.
Survives(v) == v.verdict = "glues"

-----------------------------------------------------------------------------

\* Every step is followed by a projection, as the node is asked for one.
NodeInit ==
    /\ local \in [Sections -> SectionValues]
    /\ shared = local
    /\ age = [s \in Sections |-> 0]
    /\ view = Project(local, shared, age)

Write(s, v) ==
    /\ local' = [local EXCEPT ![s] = v]
    /\ view' = Project(local', shared, age)
    /\ UNCHANGED <<shared, age>>

\* Others write to the shared graph.
Share(s, v) ==
    /\ shared' = [shared EXCEPT ![s] = v]
    /\ view' = Project(local, shared', age)
    /\ UNCHANGED <<local, age>>

\* Half a window passes for everything.
Pass ==
    /\ \A s \in Sections : age[s] < MaxAge
    /\ age' = [s \in Sections |-> age[s] + 1]
    /\ view' = Project(local, shared, age')
    /\ UNCHANGED <<local, shared>>

\* A section is read from the graph anew.
Refresh(s) ==
    /\ local' = [local EXCEPT ![s] = shared[s]]
    /\ age' = [age EXCEPT ![s] = 0]
    /\ view' = Project(local', shared, age')
    /\ UNCHANGED shared

NodeNext ==
    \/ \E s \in Sections : \E v \in SectionValues : Write(s, v) \/ Share(s, v)
    \/ Pass
    \/ \E s \in Sections : Refresh(s)

NodeSpec == NodeInit /\ [][NodeNext]_nodeVars

-----------------------------------------------------------------------------
(* Properties *)

\* Types of the values, of their age and of the worldview.
NodeTypeOK ==
    /\ local \in [Sections -> SectionValues]
    /\ shared \in [Sections -> SectionValues]
    /\ age \in [Sections -> 0..MaxAge]
    /\ view \in View

\* As long as the extent above is open, disagreements stand alone: no two
\* sections of which one overlaps the other both disagree, whoever declared it.
OpenIsLocal ==
    ~ view.gated =>
        \A s, t \in Sections :
            <<s, t>> \in Overlaps /\ s # t => view.sections[s].verdict = "glues"
                                            \/ view.sections[t].verdict = "glues"

\* The ceiling rests on agreement: above Speculative every claim of the node
\* survives, and was refreshed fewer full windows ago than its level has steps
\* above the ceiling.
CeilingIsEarned ==
    view.ceiling > 0 =>
        /\ \A s \in Sections :
              Survives(view.sections[s]) /\ age[s] \div 2 + view.ceiling <= Declared[s]
        /\ External => view.ceiling = ExternalCeiling

\* Time alone raises nothing: as long as nobody writes or refreshes, no level
\* and no ceiling goes up and no section that could only be read can be written.
AgeOnlyLowers ==
    [][ /\ UNCHANGED <<local, shared>> /\ \A s \in Sections : age'[s] >= age[s]
        => /\ view'.ceiling <= view.ceiling
           /\ \A s \in Sections :
                 /\ view'.sections[s].level <= view.sections[s].level
                 /\ view'.sections[s].mode = "full" => view.sections[s].mode = "full" ]_nodeVars
=============================================================================
