SPECIFICATION FairSpec
CONSTANTS
    r1 = r1
    r2 = r2
    r3 = r3
    s1 = s1
    s2 = s2
    Request = {r1, r2}
    Session = {s1}
    Sweeper = Sweeper
    NoOne = NoOne
    SESSION_DURATION = 2
    EXPIRED_SESSION_GRACE = 1
    MaxLatency = 1
    MaxTime = 4
    MaxFailures = 1
PROPERTIES
    RequestsAnswered
    LapsedCollected
