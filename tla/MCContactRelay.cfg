\* Two concurrent submissions of one address beside the analytics events of
\* another, in a table with room for one, on a clock of half seconds.
SPECIFICATION Spec
CONSTANTS
    r1 = r1
    r2 = r2
    c1 = c1
    a1 = a1
    Request = {r1, r2}
    ContactClient = {c1}
    AnalyticsClient = {a1}
    MAX_TRACKED_CLIENTS = 1
    TicksPerSecond = 2
    CONTACT_BURST <- Burst
    CONTACT_HOURLY <- Hourly
    ANALYTICS_PER_IP <- PerIp
    MaxTime = 9
    MaxMixedTime = 6
    MaxEvents = 4
    MaxRestarts = 1
CONSTRAINT Bounded
SYMMETRY Symmetry
INVARIANTS
    LimitsWithConcurrency
    SentIsDelivered
    ForgetsOnlyIdle
    TrackedBounded
PROPERTIES
    RefusedOnlyAfterAccepted
    WaitClearsLimit
