\* Both processes restart; polls, inserts and purges fail.
SPECIFICATION FairSpec
CONSTANTS
    NULL = NULL
    PURGE_EVERY_N_CYCLES = 2
    RETENTION_DAYS = 0
    MaxTime = 1
    MaxServed = 3
    MaxFailures = 2
INVARIANTS
    NeverOvercounts
PROPERTIES
    ExactBetweenResets
    ExpiredPurged
