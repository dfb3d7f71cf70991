SPECIFICATION Spec
CONSTANTS
    o1 = o1
    o2 = o2
    a = a
    b = b
    Absent = Absent
    Missing = Missing
    Truncated = Truncated
    Operators <- OneOperator
    Files <- TwoFiles
    Contents <- TwoContents
    Size <- AllDistinct
    SampleSize = 2
    MaxEdits = 2
PROPERTY ReapChoosesUploaded
