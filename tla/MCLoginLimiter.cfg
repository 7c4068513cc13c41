\* The clock and the rows run out: the behaviour then ends.
SPECIFICATION Spec
CHECK_DEADLOCK FALSE
CONSTANTS
    r1 = r1
    r2 = r2
    Request = {r1, r2}
    RATE_LIMIT_WINDOW = 5
    RATE_LIMIT_MAX_ATTEMPTS = 3
    BACKOFF_CAP_SECONDS = 3
    LOGIN_ATTEMPT_RETENTION = 6
    Second = 1
    MaxLatency = 1
    MaxTime = 7
    MaxRows = 5
SYMMETRY Symmetry
INVARIANTS
    CapWithConcurrency
    BackoffSpacing
    PurgeInvisible
PROPERTIES
    RefusedOnlyAfterWrong
