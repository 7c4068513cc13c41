-------------------------- MODULE AnalyticsIngest --------------------------
(***************************************************************************)
(* One visitor session's analytics events, from the browser to the row:    *)
(* the throttle of useAnalytics in each tab, the request on its way, and   *)
(* record_event's two counting queries and its INSERT, which interleave    *)
(* with those of the session's other requests at every await. Sessions do  *)
(* not interact: every query is restricted to one session_id. (The limit   *)
(* per address in front of it is AnalyticsEvent of ContactRelay.)          *)
(***************************************************************************)
EXTENDS Integers, Sequences, FiniteSets

CONSTANTS
    Tab,                    \* open tabs: they share the session's id
    Request,                \* the session's requests in flight at once
    Event,                  \* what makes two events identical: type, project
                            \* and metadata
    PageView,               \* those of type page_view, one per path
    NoEvent,
    MIN_INTERVAL_MS,        \* in ticks, like the windows
    EVENT_RATE_LIMIT_WINDOW,
    EVENT_RATE_LIMIT_MAX,
    PAGE_VIEW_DEDUP_WINDOW,
    MaxLatency,             \* the service takes at most this long
    MaxTime,                \* bound: the clock stops here
    MaxRows                 \* bound: events recorded in a behaviour

ASSUME IngestAssumption ==
    /\ PageView \subseteq Event
    /\ NoEvent \notin Event
    /\ MIN_INTERVAL_MS \in Nat
    /\ EVENT_RATE_LIMIT_WINDOW \in Nat
    /\ EVENT_RATE_LIMIT_MAX \in Nat \ {0}
    /\ PAGE_VIEW_DEDUP_WINDOW \in Nat
    /\ MaxLatency \in Nat
    /\ MaxTime \in Nat
    /\ MaxRows \in Nat
    /\ IsFiniteSet(Request)

VARIABLES
    now,
    lastEventKey,   \* of each tab
    lastEventAt,
    rows,           \* analytics_events of the session, in commit order
    phase,
    event,          \* what each request carries
    began           \* when its transaction began

tabVars == <<lastEventKey, lastEventAt>>
requestVars == <<phase, event, began>>
vars == <<now, tabVars, rows, requestVars>>

InFlight(r) == phase[r] # "idle"
InService(r) == phase[r] \in {"dedup", "insert"}

\* A row, with the time of its commit as history.
Row == [event : Event, at : 0..MaxTime, committed : 0..MaxTime]

TypeOK ==
    /\ now \in 0..MaxTime
    /\ lastEventKey \in [Tab -> Event \cup {NoEvent}]
    /\ lastEventAt \in [Tab -> 0..MaxTime]
    /\ rows \in Seq(Row)
    /\ Len(rows) <= MaxRows
    /\ phase \in [Request -> {"idle", "sent", "dedup", "insert"}]
    /\ event \in [Request -> Event \cup {NoEvent}]
    /\ began \in [Request -> 0..MaxTime]

Init ==
    /\ now = 0
    /\ lastEventKey = [t \in Tab |-> NoEvent]
    /\ lastEventAt = [t \in Tab |-> 0]
    /\ rows = <<>>
    /\ phase = [r \in Request |-> "idle"]
    /\ event = [r \in Request |-> NoEvent]
    /\ began = [r \in Request |-> 0]

-----------------------------------------------------------------------------
(* The browser.                                                            *)

Throttled(t, e) == e = lastEventKey[t] /\ now - lastEventAt[t] < MIN_INTERVAL_MS

\* track(): an event that is not throttled is sent, and nothing awaits it.
Track(t, r, e) ==
    /\ ~InFlight(r)
    /\ ~Throttled(t, e)
    /\ Len(rows) + Cardinality({q \in Request : InFlight(q)}) < MaxRows
    /\ lastEventKey' = [lastEventKey EXCEPT ![t] = e]
    /\ lastEventAt' = [lastEventAt EXCEPT ![t] = now]
    /\ phase' = [phase EXCEPT ![r] = "sent"]
    /\ event' = [event EXCEPT ![r] = e]
    /\ UNCHANGED <<now, rows, began>>

-----------------------------------------------------------------------------
(* record_event, for a session id and a user agent that are accepted.      *)

\* A request is over, whether its event was recorded, ignored or lost.
Finish(r) ==
    /\ phase' = [phase EXCEPT ![r] = "idle"]
    /\ event' = [event EXCEPT ![r] = NoEvent]
    /\ began' = [began EXCEPT ![r] = 0]

EventCount == Cardinality({i \in DOMAIN rows :
                              rows[i].at >= now - EVENT_RATE_LIMIT_WINDOW})

\* Mutants: one event too many; a page view is compared with the last row.
AtLimitLate == EventCount > EVENT_RATE_LIMIT_MAX
IsDuplicateOfLast(e) ==
    /\ rows # <<>>
    /\ rows[Len(rows)].event = e
    /\ rows[Len(rows)].at >= now - PAGE_VIEW_DEDUP_WINDOW

AtLimit == EventCount >= EVENT_RATE_LIMIT_MAX

IsDuplicatePageView(e) ==
    \E i \in DOMAIN rows : /\ rows[i].event = e
                           /\ rows[i].at >= now - PAGE_VIEW_DEDUP_WINDOW

\* The first query, which begins the transaction.
CountEvents(r) ==
    /\ phase[r] = "sent"
    /\ IF AtLimit
         THEN Finish(r)
         ELSE /\ phase' = [phase EXCEPT
                    ![r] = IF event[r] \in PageView THEN "dedup" ELSE "insert"]
              /\ began' = [began EXCEPT ![r] = now]
              /\ event' = event
    /\ UNCHANGED <<now, tabVars, rows>>

CheckDuplicate(r) ==
    /\ phase[r] = "dedup"
    /\ IF IsDuplicatePageView(event[r])
         THEN Finish(r)
         ELSE phase' = [phase EXCEPT ![r] = "insert"] /\ UNCHANGED <<event, began>>
    /\ UNCHANGED <<now, tabVars, rows>>

\* created_at is the time the transaction began.
RecordEvent(r) ==
    /\ phase[r] = "insert"
    /\ rows' = Append(rows, [event |-> event[r], at |-> began[r], committed |-> now])
    /\ Finish(r)
    /\ UNCHANGED <<now, tabVars>>

\* The request never arrives, or the backend fails: a beacon is not retried.
Lose(r) ==
    /\ InFlight(r)
    /\ Finish(r)
    /\ UNCHANGED <<now, tabVars, rows>>

Tick ==
    /\ now < MaxTime
    /\ \A r \in Request : InService(r) => now < began[r] + MaxLatency
    /\ now' = now + 1
    /\ UNCHANGED <<tabVars, rows, requestVars>>

Next ==
    \/ \E r \in Request :
          \/ \E t \in Tab, e \in Event : Track(t, r, e)
          \/ CountEvents(r) \/ CheckDuplicate(r) \/ RecordEvent(r) \/ Lose(r)
    \/ Tick

Spec == Init /\ [][Next]_vars

-----------------------------------------------------------------------------
(* Properties.                                                             *)

RowsWithin(t) ==
    {i \in DOMAIN rows : t <= rows[i].at
                            /\ rows[i].at <= t + EVENT_RATE_LIMIT_WINDOW}

\* The session's limit under concurrency: no window holds more events than
\* the limit and, beyond it, those in service when it was reached.
LimitWithConcurrency ==
    \A t \in 0..MaxTime :
        Cardinality(RowsWithin(t))
           <= EVENT_RATE_LIMIT_MAX + Cardinality(Request) - 1

\* Deduplication misses only page views that were in service together: of
\* two rows of one page view, well within the window, the later had begun
\* before the earlier committed.
RepeatsOverlapped ==
    \A i, j \in DOMAIN rows :
        /\ i < j /\ rows[i].event = rows[j].event /\ rows[i].event \in PageView
        /\ rows[j].at - rows[i].at + MaxLatency <= PAGE_VIEW_DEDUP_WINDOW
        => rows[j].at <= rows[i].committed

=============================================================================
