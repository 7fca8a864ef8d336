SPECIFICATION Spec
CONSTANTS
    NULL = NULL
    Seeds = {up, again}
    Shapes <- MCShapes
    Workers = {service}
    Requests = {}
    MaxRetries = 2
    FailFirst = TRUE
INVARIANTS
    RetryIsShown
CHECK_DEADLOCK FALSE
