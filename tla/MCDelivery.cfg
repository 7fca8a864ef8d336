SPECIFICATION FairSpec
CONSTANTS
    Workers = {service}
    N = 2
    MaxRetries = 4
    BatchSize = 2
    Backoff <- MCBackoff
    Answers <- MCOddAnswers
    Poison = {}
    MaxFaults = 1
    MaxTime = 10
INVARIANTS
    TypeOK
    DeliveredWasAccepted
    AttemptsBackedByPosts
    UncountedPostsAreFaults
    AttemptsAreNumbered
    RetryLimit
    InFlightIsFresh
    OutcomesAreStorable
PROPERTIES
    ImplementsService
    TerminalIsFinal
    EventuallySettled
