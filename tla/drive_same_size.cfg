SPECIFICATION Spec
CONSTANTS
    o1 = o1
    o2 = o2
    a = a
    b = b
    Absent = Absent
    Missing = Missing
    Truncated = Truncated
    Operators <- OneOperator
    Files <- OneFile
    Contents <- TwoContents
    Size <- AllSameSize
    SampleSize = 1
    MaxEdits = 1
PROPERTY ReapChoosesUploaded
