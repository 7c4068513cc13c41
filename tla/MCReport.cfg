SPECIFICATION Spec
CHECK_DEADLOCK FALSE
CONSTANTS
    Sweeper = {"loop"}
    Content <- MCContent
    MaxRows <- ReportRows
    ANALYTICS_RETENTION_DAYS = 2
    LOGIN_ATTEMPT_RETENTION_DAYS = 1
    EXPIRED_SESSION_GRACE = 1
    SESSION_DURATION = 1
    Days = {1, 2}
    MaxLatency = 1
    MaxTime = 3
    DAY = 2
    HOUR = 1
    TOP_LIMIT = 2
    RECENT_EVENTS_LIMIT = 1
INVARIANTS
    NothingMissing
    FiguresOrdered
