\* Two tabs of a session; the clock and the rows run out, so the behaviour ends.
SPECIFICATION Spec
CHECK_DEADLOCK FALSE
CONSTANTS
    t1 = t1
    t2 = t2
    r1 = r1
    r2 = r2
    viewA = viewA
    viewB = viewB
    click = click
    NoEvent = NoEvent
    Tab = {t1, t2}
    Request = {r1, r2}
    Event = {viewA, click}
    PageView = {viewA}
    MIN_INTERVAL_MS = 2
    EVENT_RATE_LIMIT_WINDOW = 4
    EVENT_RATE_LIMIT_MAX = 2
    PAGE_VIEW_DEDUP_WINDOW = 3
    MaxLatency = 1
    MaxTime = 5
    MaxRows = 4
SYMMETRY Symmetry
INVARIANTS
    LimitWithConcurrency
    RepeatsOverlapped
