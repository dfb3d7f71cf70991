SPECIFICATION Spec
CONSTANTS
    a = a
    b = b
    None = None
    Artifacts <- TwoArtifacts
    Births <- FirstAndFourth
    Established <- AllFacts
    Volatile <- GradeOnly
    WriteFaults <- Torn
    MaxEvents = 3
CHECK_DEADLOCK FALSE
SYMMETRY Symmetry
INVARIANTS
    ReplayAgrees
    TrailConnected
    RetirementTerminal
PROPERTY ClimbsByGates
