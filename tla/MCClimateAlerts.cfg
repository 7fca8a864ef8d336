SPECIFICATION ClimateSpec
CONSTANTS
    NULL = NULL
    Requests = {r1}
    Creates <- MCCreates
    Patches = {}
    IntMax = 127
    MaxAlerts = 2
    Workers = {service}
    Forecasts = {1}
    ForecastField <- MCForecastField
    ForecastDate <- MCForecastDate
    Readings <- MCReadings
    MaxDay = 0
    MaxFaults = 1
    N = 2
    MaxRetries = 2
    BatchSize = 1
    Backoff <- MCBackoff
    FailFirst = TRUE
    MaxTime = 4
    MaxDisturbances = 1
INVARIANTS
    PartsAgree
    GivenUpForAReason
PROPERTIES
    LastingMatchesSettle
    QueuedIsSettled
CHECK_DEADLOCK FALSE
