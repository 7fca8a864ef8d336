SPECIFICATION ApiSpec
CONSTANTS
    NULL = NULL
    Requests = {r1, r2}
    Creates <- MCCreates
    Patches <- MCPatches
    IntMax = 127
    MaxAlerts = 1
PROPERTIES
    DeletedIsNotUpdated
CHECK_DEADLOCK FALSE
