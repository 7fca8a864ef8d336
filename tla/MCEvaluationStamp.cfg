SPECIFICATION Spec
CONSTANTS
    NULL = NULL
    Requests = {r1}
    Creates <- MCCreates
    Patches <- MCPatches
    IntMax = 127
    MaxAlerts = 1
    Workers = {service}
    Forecasts = {1}
    ForecastField <- MCForecastField
    ForecastDate <- MCForecastDate
    Readings <- MCReadings
    MaxDay = 0
    MaxFaults = 0
INVARIANTS
    StampIsCurrent
