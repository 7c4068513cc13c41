---------------------------- MODULE RateLimiter ----------------------------
(***************************************************************************)
(* rate_limit_service: sliding windows kept in the memory of the one       *)
(* backend process, one deque of time stamps per (scope, address). The     *)
(* functions here map a table of deques to the next one; the modules of    *)
(* the routes that call the service decide when. No await separates the    *)
(* statements of check() or of record(), so each is atomic.                *)
(***************************************************************************)
EXTENDS Integers, Sequences, FiniteSets

CONSTANTS
    MAX_TRACKED_CLIENTS,
    TicksPerSecond      \* the clock is finer than the whole seconds of the
                        \* windows and of the waits that callers are told

ASSUME TrackedAssumption == MAX_TRACKED_CLIENTS \in Nat \ {0}
ASSUME ClockAssumption == TicksPerSecond \in Nat \ {0}

VARIABLES
    now,        \* time.monotonic(), in ticks
    hits        \* _hits: the stamps, oldest first, of each tracked key, which
                \* is a scope with a hashed address

\* A limit permits max_events per window_seconds. (A limit of no events would
\* leave check() without the stamp that it tells the wait from.)
RateLimit == [max_events : Nat \ {0}, window_seconds : Nat]

\* The window of a limit, in ticks.
Window(limit) == limit.window_seconds * TicksPerSecond

\* _hits is a defaultdict: reading a missing key inserts an empty deque.
Stamps(h, k) == IF k \in DOMAIN h THEN h[k] ELSE <<>>

Put(h, k, stamps) ==
    [j \in DOMAIN h \cup {k} |-> IF j = k THEN stamps ELSE h[j]]

-----------------------------------------------------------------------------
(* check()                                                                 *)

\* The places in s of the stamps that a window ending at t still counts.
Recent(s, limit, t) == {i \in DOMAIN s : s[i] > t - Window(limit)}

Exceeded(s, limit, t) == Cardinality(Recent(s, limit, t)) >= limit.max_events

\* Mutant: the deque is cut to the shortest window.
PrunedToShortest(s, limits) ==
    SelectSeq(s, LAMBDA x : \A l \in limits : now - x <= Window(l))

\* Stamps outside the longest window are dropped from the left.
Pruned(s, limits) ==
    LET stale == {i \in 1..Len(s) :
                    \A j \in 1..i, l \in limits : now - s[j] > Window(l)}
    IN  SubSeq(s, Cardinality(stale) + 1, Len(s))

\* Mutant: the check is recorded whatever it decides.
CheckedAndCounted(h, k, limits) ==
    Put(h, k, Append(Pruned(Stamps(h, k), limits), now))

\* The table after a check of k ...
Checked(h, k, limits) == Put(h, k, Pruned(Stamps(h, k), limits))

\* ... which refuses if any of the limits is reached.
Refused(h, k, limits) ==
    \E l \in limits : Exceeded(Pruned(Stamps(h, k), limits), l, now)

\* Mutant: the oldest stamp of the deque.
RetryAfterOldest(s, limit) ==
    LET seconds == (Window(limit) - (now - Head(s))) \div TicksPerSecond
    IN  IF seconds > 1 THEN seconds ELSE 1

\* What a refused caller is told: the whole seconds, cut and not rounded up,
\* until the oldest event leaves the window of the first limit that is
\* reached, and never less than one.
RetryAfter(s, limit) ==
    LET recent == Recent(s, limit, now)
        first == CHOOSE i \in recent : \A j \in recent : i <= j
        seconds == (Window(limit) - (now - s[first])) \div TicksPerSecond
    IN  IF seconds > 1 THEN seconds ELSE 1

-----------------------------------------------------------------------------
(* record()                                                                *)

LastStamp(s) == IF s = <<>> THEN 0 ELSE s[Len(s)]

\* Mutants: the most recent keys go; the size is tested before the append.
EvictedNewest(h) ==
    IF Cardinality(DOMAIN h) <= MAX_TRACKED_CLIENTS
      THEN {h}
      ELSE {[k \in K |-> h[k]] :
               K \in {K \in SUBSET DOMAIN h :
                        /\ Cardinality(K) = MAX_TRACKED_CLIENTS
                        /\ \A k \in K, e \in DOMAIN h \ K :
                              LastStamp(h[k]) <= LastStamp(h[e])}}
EvictedLate(h) ==
    IF Cardinality(DOMAIN h) <= MAX_TRACKED_CLIENTS + 1 THEN {h} ELSE
      {[k \in K |-> h[k]] :
          K \in {K \in SUBSET DOMAIN h :
                   /\ Cardinality(K) = MAX_TRACKED_CLIENTS + 1
                   /\ \A k \in K, e \in DOMAIN h \ K :
                         LastStamp(h[e]) <= LastStamp(h[k])}}

\* An oversized table loses the keys whose last stamps are oldest, empty
\* deques first. (Which of two keys stamped together goes is left open.)
Evicted(h) ==
    IF Cardinality(DOMAIN h) <= MAX_TRACKED_CLIENTS
      THEN {h}
      ELSE {[k \in K |-> h[k]] :
               K \in {K \in SUBSET DOMAIN h :
                        /\ Cardinality(K) = MAX_TRACKED_CLIENTS
                        /\ \A k \in K, e \in DOMAIN h \ K :
                              LastStamp(h[e]) <= LastStamp(h[k])}}

\* The tables that may result from recording an event of k.
Recorded(h, k) == Evicted(Put(h, k, Append(Stamps(h, k), now)))

=============================================================================
