SPECIFICATION FairSpec
CONSTANTS
    Workers = {service}
    N = 2
    MaxRetries = 2
    BatchSize = 2
    Backoff <- MCFlatBackoff
    Answers <- MCPlainAnswers
    Poison = {1}
    MaxFaults = 0
    MaxTime = 4
PROPERTIES
    HealthySettle
