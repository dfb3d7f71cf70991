SPECIFICATION Spec
CONSTANTS
    p1 = p1
    p2 = p2
    r1 = r1
    r2 = r2
    Garbage = Garbage
    Torn = Torn
    Closed = Closed
    NoView = NoView
    Pushers <- OnePusher
    Records <- TwoRecords
    WriteFaults <- CleanOrTorn
    MaxEntries = 4
CHECK_DEADLOCK FALSE
INVARIANT LinesChainValid
PROPERTIES
    LogSpec
    CallersSpec
