SPECIFICATION Spec
CONSTANTS
    c1 = c1
    c2 = c2
    image = image
    manager = manager
    security = security
    boot = boot
    network = network
    None = None
    Calls <- TwoCalls
    Images <- OneImage
    Bundles <- ManyBundles
    Policies <- ManyPolicies
    Roles <- TwoRoles
    Scenarios <- TwoScenarios
    WriteFaults <- Torn
    MaxEvents = 4
CHECK_DEADLOCK FALSE
SYMMETRY Symmetry
INVARIANTS
    PromotedIsReceipted
    RefusedIsRecorded
    StricterRefuses
