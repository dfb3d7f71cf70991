-------------------------- MODULE MCZoneLifecycle --------------------------
(* A small instance of ZoneLifecycle. *)
EXTENDS ZoneLifecycle, TLC

CONSTANTS a, b

TwoArtifacts == {a, b}
Symmetry == Permutations(TwoArtifacts)

\* From one the gates of the first zones are in reach, from the other the last.
FirstAndFourth == {0, 3}

\* Every gate met, but for one fact that comes and goes.
AllFacts == Facts
GradeOnly == {"grade E3"}

Torn == {"torn"}
=============================================================================
