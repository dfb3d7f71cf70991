SPECIFICATION Spec
CONSTANTS
    o1 = o1
    o2 = o2
    a = a
    b = b
    Absent = Absent
    Missing = Missing
    Truncated = Truncated
    Operators <- TwoOperators
    Files <- OneFile
    Contents <- OneContent
    Size <- AllSameSize
    SampleSize = 1
    MaxEdits = 2
INVARIANT VerifiedPresent
PROPERTY ReapOnlyPresent
