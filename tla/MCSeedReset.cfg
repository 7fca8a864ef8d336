SPECIFICATION FairSpec
CONSTANTS
    NULL = NULL
    Seeds = {up, again}
    Shapes <- MCLargeShapes
    Workers = {service}
    Requests = {post}
    MaxRetries = 2
    FailFirst = TRUE
INVARIANTS
    SeedTypeOK
    ReferencesAreGenuine
    OutcomesReachTheirRow
    DataSetsPileUpOnlyBeside
    SeedsAreAccepted
PROPERTIES
    SeedEnds
CHECK_DEADLOCK FALSE
