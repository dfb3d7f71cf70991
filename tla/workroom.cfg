SPECIFICATION Spec
CONSTANTS
    c1 = c1
    c2 = c2
    mail = mail
    drive = drive
    grantor = grantor
    room1 = room1
    Calls <- TwoCalls
    Sources <- TwoSources
    Grantors <- OneGrantor
    Workspace = workspace
    Segments = {"org", "team", "case", "other"}
    Tables <- SomeTables
    Changers = {"editor", "bot"}
    NoChange = NoChange
    Rooms <- OneRoom
    Catalogs <- SomeCatalogs
    NoCall = NoCall
    Drafts <- SomeDrafts
    Commands <- SomeCommands
    WriteFaults <- Torn
    MaxEvents = 2
SYMMETRY Symmetry
CHECK_DEADLOCK FALSE
INVARIANTS
    TypeOK
    WithinReviewed
    ReceiptLaw
    AnswersUnderCeiling
