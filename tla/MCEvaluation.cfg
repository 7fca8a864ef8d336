SPECIFICATION Spec
SYMMETRY MCSymmetry
CONSTANTS
    NULL = NULL
    Requests = {r1}
    Creates <- MCCreates
    Patches <- MCEdits
    IntMax = 127
    MaxAlerts = 1
    Workers = {service, once}
    Forecasts = {1, 2}
    ForecastField <- MCForecastField
    ForecastDate <- MCForecastDate
    Readings <- MCOneReading
    MaxDay = 1
    MaxFaults = 1
INVARIANTS
    EvaluationTypeOK
    OneTriggerPerForecast
    EveryTriggerIsQueued
    SnapshotsAreConsistent
PROPERTIES
    TriggersAreKept
    CycleKeepsEdits
