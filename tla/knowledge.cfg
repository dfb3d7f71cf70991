SPECIFICATION Spec
CONSTANTS
    n1 = n1
    n2 = n2
    n3 = n3
    concept = concept
    person = person
    org = org
    s1 = s1
    s2 = s2
    s3 = s3
    yes = yes
    no = no
    Sections <- ThreeSections
    SectionValues <- TwoValues
    Overlaps <- SomeOverlaps
    Declared <- SomeLevels
    External = TRUE
    MaxAge = 6
    Concepts <- OneConcept
    Bindings <- TwoBindings
    Drafts <- SomeEntries
    MaxVersion = 3
    MaxEntries = 3
    NoEntry = NoEntry
    Nodes <- ThreeNodes
    Graphs <- SomeGraphs
    NoGraph = NoGraph
    Ids <- ThreeIds
    RecordPool <- SomeRecords
    EdgePool <- SomeEdges
    MaxRecords = 3
    MaxEdges = 2
CHECK_DEADLOCK FALSE
INVARIANTS
    TypeOK
    SortExact
    NeverResolvesBack
    OpenIsLocal
    
    Auditable
PROPERTY AgeOnlyLowers
