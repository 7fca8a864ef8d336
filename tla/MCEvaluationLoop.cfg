SPECIFICATION LoopSpec
SYMMETRY MCSymmetry
CONSTANTS
    NULL = NULL
    Requests = {r1}
    Creates <- MCCreates
    Patches = {}
    IntMax = 127
    MaxAlerts = 2
    Workers = {service, once}
    Forecasts = {1, 2}
    ForecastField <- MCForecastField
    ForecastDate <- MCForecastDate
    Readings <- MCReadings
    MaxDay = 0
    MaxFaults = 1
INVARIANTS
    CyclesDoNotDeadlock
PROPERTIES
    ImplementsEvaluation
