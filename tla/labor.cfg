SPECIFICATION Spec
CONSTANTS
    r1 = r1
    r2 = r2
    photo = photo
    survey = survey
    w1 = w1
    w2 = w2
    k1 = k1
    k2 = k2
    Runners <- TwoRunners
    EvidenceIds <- TwoIds
    Chains <- SomeChains
    MaxRuns = 2
    NoChain = NoChain
    Genesis = Genesis
    WriteFaults <- Torn
    MaxEvents = 6
    Receipts = {receipt1, receipt2}
    Ids <- TwoWitnesses
    Keys <- TwoKeys
    Rosters <- SomeRosters
    NotAKey = NotAKey
    MaxK = 2
    MaxSigs = 2
    Nothing = Nothing
CHECK_DEADLOCK FALSE
INVARIANTS
    TypeOK
    TrustVouches
    PromotedOnQuorum
PROPERTIES
    ReturnsInOrder
    RunsEnd
