SPECIFICATION ApiSpec
CONSTANTS
    NULL = NULL
    Requests = {r1, r2}
    Creates <- MCCreates
    Patches <- MCPatches
    IntMax = 127
    MaxAlerts = 2
INVARIANTS
    ApiTypeOK
    LiveRulesDiffer
    RefusedForAReason
    DeleteOfActiveSucceeds
PROPERTIES
    DeletedIsFinal
    PatchIsAsIfAlone
CHECK_DEADLOCK FALSE
