SPECIFICATION Spec
CONSTANTS
    Workers = {service, once}
    N = 2
    MaxRetries = 3
    BatchSize = 2
    Backoff <- MCFlatBackoff
    Answers <- MCAnswers
    Poison = {2}
    MaxFaults = 1
    MaxTime = 4
INVARIANTS
    AttemptsBackedByPosts
PROPERTIES
    DeliveredStaysDelivered
