SPECIFICATION FairSpec
CHECK_DEADLOCK FALSE
CONSTANTS
    Sweeper = {"loop", "script"}
    Content <- MCContent
    MaxRows <- SweepRows
    ANALYTICS_RETENTION_DAYS = 2
    LOGIN_ATTEMPT_RETENTION_DAYS = 1
    EXPIRED_SESSION_GRACE = 1
    SESSION_DURATION = 1
    Days = {}
    MaxLatency = 1
    MaxTime = 4
    DAY = 2
    HOUR = 1
    TOP_LIMIT = 2
    RECENT_EVENTS_LIMIT = 1
PROPERTIES
    GovernedRowsGo
