SPECIFICATION Spec
CONSTANTS
    c1 = c1
    c2 = c2
    hit1 = hit1
    hit2 = hit2
    fact1 = fact1
    fact2 = fact2
    Calls <- TwoCalls
    Keys <- TwoHits
    HitLists <- Answers
    NoAnswer = NoAnswer
    WriteFaults <- Torn
    MaxEvents = 2
    MaxExemplars = 3
    MaxScore = 2
    NotRouted = NotRouted
    FactKeys <- TwoFacts
    Times = {1, 2}
    Pool <- Facts
    MaxCandidates = 3
    None = None
    decision = decision
    note = note
    other = other
    w1 = w1
    w2 = w2
    Years = {1, 2, 3}
    Classes <- TwoClasses
    OtherClass = other
    Words <- TwoWords
    LimitCap = 1
    NoWord = NoWord
    Misfit = Misfit
    Questions <- Asked
    Proposals <- Proposed
CHECK_DEADLOCK FALSE
INVARIANTS
    TypeOK
    DecidedOnLedger
    NothingLost
    SemanticStable
    NewestSurfaces
    StoresAgree
    FilterMeansProposal
