SPECIFICATION Spec
CONSTANTS
    MaxCrashes = 1
INVARIANTS
    HeadIsTheModels
    UpgradesAreAccepted
    DowngradeObstacles
