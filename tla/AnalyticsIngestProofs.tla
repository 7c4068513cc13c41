----------------------- MODULE AnalyticsIngestProofs -----------------------
(***************************************************************************)
(* Proofs about the ingestion of analytics events, for any number of tabs  *)
(* and concurrent requests, any limit and any windows: how far concurrency *)
(* stretches the session's limit, and which repeats deduplication misses.  *)
(***************************************************************************)
EXTENDS AnalyticsIngest, TLAPS, FiniteSetTheorems

-----------------------------------------------------------------------------
(* The inductive invariant.                                                *)

Rows == DOMAIN rows

\* The events that were sent have room in the table.
Busy == {q \in Request : InFlight(q)}
RoomInv == Len(rows) + Cardinality(Busy) <= MaxRows

\* A request carries an event until it ends.
EventInv == \A r \in Request : InFlight(r) => event[r] \in Event

\* A transaction lasts no longer than the latency.
TimeInv ==
    \A r \in Request :
        InService(r) => began[r] <= now /\ now <= began[r] + MaxLatency

\* The requests that may still add a row to the window that begins at t.
Pending(t) ==
    {r \in Request : /\ InService(r)
                     /\ t <= began[r]
                     /\ began[r] <= t + EVENT_RATE_LIMIT_WINDOW}
LimitInv ==
    \A t \in 0..MaxTime :
        Cardinality(RowsWithin(t)) + Cardinality(Pending(t))
           <= EVENT_RATE_LIMIT_MAX + Cardinality(Request) - 1

\* A page view that passed the second query repeats no row of its window but
\* those that committed while it was in service.
FreshInv ==
    \A r \in Request : phase[r] = "insert" /\ event[r] \in PageView =>
        \A i \in Rows :
            /\ rows[i].event = event[r]
            /\ began[r] - rows[i].at + MaxLatency <= PAGE_VIEW_DEDUP_WINDOW
            => began[r] <= rows[i].committed

IInv ==
    /\ TypeOK
    /\ RoomInv
    /\ EventInv
    /\ TimeInv
    /\ LimitInv
    /\ FreshInv
    /\ RepeatsOverlapped

-----------------------------------------------------------------------------
(* The sets that are counted.                                              *)

\* Every set of rows and every set of requests can be counted.
LEMMA Counting ==
  ASSUME TypeOK
  PROVE  /\ Rows = 1..Len(rows) /\ Len(rows) \in Nat
         /\ \A i \in Rows : rows[i].at \in 0..MaxTime /\ rows[i].committed \in 0..MaxTime
         /\ \A S : S \subseteq Rows => IsFiniteSet(S) /\ Cardinality(S) \in Nat
         /\ \A S : S \subseteq Request => IsFiniteSet(S) /\ Cardinality(S) \in Nat
<1>1. Rows = 1..Len(rows) /\ Len(rows) \in Nat
  BY DEF TypeOK, Rows
<1>2. \A i \in Rows : rows[i].at \in 0..MaxTime /\ rows[i].committed \in 0..MaxTime
  <2>1. rows \in Seq(Row)
    BY DEF TypeOK
  <2>2. \A i \in 1..Len(rows) : rows[i] \in Row
    BY <2>1
  <2> QED
    BY <1>1, <2>2 DEF Row
<1>3. IsFiniteSet(Rows)
  BY <1>1, FS_Interval
<1>4. \A S : S \subseteq Rows => IsFiniteSet(S) /\ Cardinality(S) \in Nat
  BY <1>3, FS_Subset, FS_CardinalityType
<1>5. \A S : S \subseteq Request => IsFiniteSet(S) /\ Cardinality(S) \in Nat
  BY IngestAssumption, FS_Subset, FS_CardinalityType
<1> QED
  BY <1>1, <1>2, <1>4, <1>5

-----------------------------------------------------------------------------
(* The steps.                                                              *)

LEMMA InitIInv == Init => IInv
<1> SUFFICES ASSUME Init PROVE IInv
  OBVIOUS
<1> USE IngestAssumption DEF Init
<1>1. Rows = {} /\ Len(rows) = 0
  BY DEF Rows
<1>2. TypeOK
  BY DEF TypeOK
<1>3. Busy = {}
  BY DEF Busy, InFlight
<1>4. RoomInv
  BY <1>1, <1>3, FS_EmptySet DEF RoomInv
<1>5. ASSUME NEW t \in 0..MaxTime
      PROVE  Cardinality(RowsWithin(t)) = 0 /\ Cardinality(Pending(t)) = 0
  <2>1. RowsWithin(t) = {} /\ Pending(t) = {}
    BY <1>1 DEF RowsWithin, Pending, InService, Rows
  <2> QED
    BY <2>1, FS_EmptySet
<1>6. LimitInv
  BY <1>2, <1>5, Counting DEF LimitInv
<1>7. EventInv /\ TimeInv /\ FreshInv /\ RepeatsOverlapped
  BY <1>1 DEF EventInv, InFlight, TimeInv, FreshInv, RepeatsOverlapped, InService, Rows
<1> QED
  BY <1>2, <1>4, <1>6, <1>7 DEF IInv

\* An event that the throttle lets pass takes room in the table, and nothing
\* else yet.
LEMMA TrackKeeps ==
  ASSUME IInv, NEW r \in Request, NEW t \in Tab, NEW e \in Event, Track(t, r, e)
  PROVE  IInv'
<1> USE IngestAssumption
<1>1. /\ ~InFlight(r) /\ Len(rows) + Cardinality(Busy) < MaxRows
      /\ lastEventKey' = [lastEventKey EXCEPT ![t] = e]
      /\ lastEventAt' = [lastEventAt EXCEPT ![t] = now]
      /\ phase' = [phase EXCEPT ![r] = "sent"]
      /\ event' = [event EXCEPT ![r] = e]
      /\ now' = now /\ rows' = rows /\ began' = began
  BY DEF Track, Busy
<1>2. \A q \in Request : q # r => phase'[q] = phase[q] /\ event'[q] = event[q]
  BY <1>1 DEF IInv, TypeOK
<1>3. phase'[r] = "sent" /\ phase[r] = "idle"
  BY <1>1 DEF IInv, TypeOK, InFlight
<1>4. TypeOK' /\ Rows' = Rows
  BY <1>1 DEF IInv, TypeOK, Rows
<1>5. RoomInv'
  <2>1. r \notin Busy /\ Busy' = Busy \cup {r}
    BY <1>1, <1>2, <1>3 DEF Busy, InFlight
  <2>2. IsFiniteSet(Busy) /\ Cardinality(Busy) \in Nat /\ Len(rows) \in Nat
    BY Counting DEF IInv, Busy
  <2>3. Cardinality(Busy \cup {r}) = Cardinality(Busy) + 1
    BY <2>1, <2>2, FS_AddElement
  <2> QED
    BY <1>1, <2>1, <2>2, <2>3 DEF RoomInv
<1>6. \A q \in Request : InService(q)' <=> InService(q)
  BY <1>2, <1>3 DEF InService
<1>7. TimeInv' /\ RepeatsOverlapped'
  BY <1>1, <1>6 DEF IInv, TimeInv, RepeatsOverlapped
<1>8. LimitInv'
  BY <1>1, <1>6 DEF IInv, LimitInv, Pending, RowsWithin
<1>9. FreshInv'
  BY <1>1, <1>2, <1>3, <1>4 DEF IInv, FreshInv
<1>10. EventInv'
  BY <1>1, <1>2 DEF IInv, TypeOK, EventInv, InFlight
<1> QED
  BY <1>4, <1>5, <1>7, <1>8, <1>9, <1>10 DEF IInv

\* A request that ends without a row leaves its room, and its place in every
\* window, free.
LEMMA FinishKeeps ==
  ASSUME IInv, NEW r \in Request, Finish(r), UNCHANGED <<now, tabVars, rows>>
  PROVE  IInv'
<1> USE IngestAssumption DEF tabVars
<1>1. \A q \in Request : q # r => /\ phase'[q] = phase[q] /\ event'[q] = event[q]
                                  /\ began'[q] = began[q]
  BY DEF Finish, IInv, TypeOK
<1>2. phase'[r] = "idle"
  BY DEF Finish, IInv, TypeOK
<1>3. TypeOK' /\ Rows' = Rows
  BY DEF Finish, IInv, TypeOK, Rows
<1>4. RoomInv'
  <2>1. Busy' \subseteq Busy /\ Busy \subseteq Request
    BY <1>1, <1>2 DEF Busy, InFlight
  <2>2. Cardinality(Busy') <= Cardinality(Busy)
    BY <2>1, Counting, FS_Subset DEF IInv
  <2>3. Cardinality(Busy') \in Nat /\ Cardinality(Busy) \in Nat /\ Len(rows) \in Nat
    BY <2>1, Counting DEF IInv
  <2> QED
    BY <2>2, <2>3 DEF IInv, RoomInv
<1>5. EventInv' /\ TimeInv' /\ FreshInv' /\ RepeatsOverlapped'
  BY <1>1, <1>2, <1>3
     DEF IInv, EventInv, InFlight, TimeInv, FreshInv, RepeatsOverlapped, InService
<1>6. ASSUME NEW t \in 0..MaxTime
      PROVE  Cardinality(RowsWithin(t)') + Cardinality(Pending(t)')
               <= EVENT_RATE_LIMIT_MAX + Cardinality(Request) - 1
  <2>1. Pending(t)' \subseteq Pending(t) /\ RowsWithin(t)' = RowsWithin(t)
    BY <1>1, <1>2 DEF Pending, InService, RowsWithin
  <2>2. RowsWithin(t) \subseteq Rows /\ Pending(t) \subseteq Request
    BY DEF Pending, RowsWithin, Rows
  <2>3. Cardinality(Pending(t)') <= Cardinality(Pending(t))
    BY <2>1, <2>2, Counting, FS_Subset DEF IInv
  <2>4. /\ Cardinality(Pending(t)') \in Nat /\ Cardinality(Pending(t)) \in Nat
        /\ Cardinality(RowsWithin(t)) \in Nat /\ Cardinality(Request) \in Nat
    BY <2>1, <2>2, Counting DEF IInv
  <2> QED
    BY <2>1, <2>3, <2>4 DEF IInv, LimitInv
<1>7. LimitInv'
  BY <1>6 DEF LimitInv
<1> QED
  BY <1>3, <1>4, <1>5, <1>7 DEF IInv

\* A request is admitted by the first query: it may add a row to the window
\* that ends now, which held fewer than the limit.
LEMMA AdmitKeeps ==
  ASSUME IInv, NEW r \in Request, CountEvents(r), ~AtLimit
  PROVE  IInv'
<1> USE IngestAssumption DEF tabVars
<1>1. /\ phase[r] = "sent"
      /\ phase' = [phase EXCEPT ![r] = IF event[r] \in PageView THEN "dedup" ELSE "insert"]
      /\ began' = [began EXCEPT ![r] = now] /\ event' = event
      /\ now' = now /\ rows' = rows
      /\ lastEventKey' = lastEventKey /\ lastEventAt' = lastEventAt
  BY DEF CountEvents
<1>2. \A q \in Request : q # r => phase'[q] = phase[q] /\ began'[q] = began[q]
  BY <1>1 DEF IInv, TypeOK
<1>3. /\ began'[r] = now /\ phase'[r] \in {"dedup", "insert"}
      /\ phase'[r] = "insert" => event[r] \notin PageView
  BY <1>1 DEF IInv, TypeOK
<1>4. TypeOK' /\ Rows' = Rows
  BY <1>1 DEF IInv, TypeOK, Rows
<1>5. RoomInv'
  <2>1. Busy' = Busy
    BY <1>1, <1>2, <1>3 DEF Busy, InFlight
  <2> QED
    BY <1>1, <2>1 DEF IInv, RoomInv
<1>6. EventInv' /\ TimeInv' /\ FreshInv' /\ RepeatsOverlapped'
  BY <1>1, <1>2, <1>3, <1>4
     DEF IInv, TypeOK, EventInv, InFlight, TimeInv, FreshInv, RepeatsOverlapped, InService
<1>7. EventCount \in Nat /\ EventCount <= EVENT_RATE_LIMIT_MAX - 1
  BY Counting DEF IInv, AtLimit, EventCount, Rows
<1>8. ASSUME NEW t \in 0..MaxTime
      PROVE  Cardinality(RowsWithin(t)') + Cardinality(Pending(t)')
               <= EVENT_RATE_LIMIT_MAX + Cardinality(Request) - 1
  <2>1. /\ RowsWithin(t)' = RowsWithin(t) /\ RowsWithin(t) \subseteq Rows
        /\ Pending(t)' \subseteq Request
    BY <1>1 DEF RowsWithin, Pending, Rows
  <2>2. /\ Cardinality(RowsWithin(t)) \in Nat /\ Cardinality(Pending(t)') \in Nat
        /\ Cardinality(Request) \in Nat
    BY <2>1, Counting DEF IInv
  <2>3. CASE t <= now /\ now <= t + EVENT_RATE_LIMIT_WINDOW
    <3> DEFINE Counted == {i \in DOMAIN rows : rows[i].at >= now - EVENT_RATE_LIMIT_WINDOW}
    <3>1. RowsWithin(t) \subseteq Counted
      BY <2>3, Counting DEF RowsWithin, IInv, TypeOK, Rows
    <3>2. Counted \subseteq Rows
      BY DEF Rows
    <3>3. EventCount = Cardinality(Counted)
      BY DEF EventCount
    <3> HIDE DEF Counted
    <3>4. Cardinality(RowsWithin(t)) <= EventCount
      BY <3>1, <3>2, <3>3, Counting, FS_Subset DEF IInv
    <3>5. Cardinality(Pending(t)') <= Cardinality(Request)
      BY <2>1, FS_Subset
    <3> QED
      BY <1>7, <2>1, <2>2, <3>4, <3>5
  <2>4. CASE ~(t <= now /\ now <= t + EVENT_RATE_LIMIT_WINDOW)
    <3>1. Pending(t)' = Pending(t)
      BY <2>4, <1>1, <1>2, <1>3 DEF Pending, InService
    <3> QED
      BY <2>1, <3>1 DEF IInv, LimitInv
  <2> QED
    BY <2>3, <2>4
<1>9. LimitInv'
  BY <1>8 DEF LimitInv
<1> QED
  BY <1>4, <1>5, <1>6, <1>9 DEF IInv

\* A page view that passes the second query repeats no row of its window.
LEMMA PassKeeps ==
  ASSUME IInv, NEW r \in Request, CheckDuplicate(r), ~IsDuplicatePageView(event[r])
  PROVE  IInv'
<1> USE IngestAssumption DEF tabVars
<1>1. /\ phase[r] = "dedup" /\ phase' = [phase EXCEPT ![r] = "insert"]
      /\ began' = began /\ event' = event /\ now' = now /\ rows' = rows
      /\ lastEventKey' = lastEventKey /\ lastEventAt' = lastEventAt
  BY DEF CheckDuplicate
<1>2. phase'[r] = "insert" /\ \A q \in Request : q # r => phase'[q] = phase[q]
  BY <1>1 DEF IInv, TypeOK
<1>3. TypeOK' /\ Rows' = Rows
  BY <1>1 DEF IInv, TypeOK, Rows
<1>4. /\ Busy' = Busy
      /\ \A q \in Request : InService(q)' <=> InService(q)
  BY <1>1, <1>2 DEF Busy, InFlight, InService
<1>5. RoomInv' /\ EventInv' /\ TimeInv' /\ RepeatsOverlapped'
  BY <1>1, <1>2, <1>4 DEF IInv, RoomInv, EventInv, InFlight, TimeInv, RepeatsOverlapped
<1>6. LimitInv'
  BY <1>1, <1>4 DEF IInv, LimitInv, Pending, RowsWithin
<1>7. ASSUME NEW i \in Rows, rows[i].event = event[r]
      PROVE  began[r] - rows[i].at + MaxLatency > PAGE_VIEW_DEDUP_WINDOW
  <2>1. rows[i].at \in Nat /\ began[r] \in Nat /\ now \in Nat
    BY Counting DEF IInv, TypeOK
  <2>2. ~(rows[i].at >= now - PAGE_VIEW_DEDUP_WINDOW)
    BY <1>7 DEF IsDuplicatePageView, Rows
  <2>3. now <= began[r] + MaxLatency
    BY <1>1 DEF IInv, TimeInv, InService
  <2> QED
    BY <2>1, <2>2, <2>3
<1>8. FreshInv'
  <2>1. ASSUME NEW q \in Request, phase'[q] = "insert", event[q] \in PageView,
               NEW i \in Rows, rows[i].event = event[q],
               began[q] - rows[i].at + MaxLatency <= PAGE_VIEW_DEDUP_WINDOW
        PROVE  began[q] <= rows[i].committed
    <3>1. CASE q = r
      <4>1. rows[i].at \in Nat /\ began[r] \in Nat
        BY Counting DEF IInv, TypeOK
      <4> QED
        BY <1>7, <2>1, <3>1, <4>1
    <3>2. CASE q # r
      BY <1>2, <2>1, <3>2 DEF IInv, FreshInv
    <3> QED
      BY <3>1, <3>2
  <2> QED
    BY <1>1, <1>3, <2>1 DEF FreshInv
<1> QED
  BY <1>3, <1>5, <1>6, <1>8 DEF IInv

\* The row takes the place of the request that was pending, and commits now:
\* after every request in service began.
LEMMA RecordKeeps ==
  ASSUME IInv, NEW r \in Request, RecordEvent(r)
  PROVE  IInv'
<1> USE IngestAssumption
<1> DEFINE row == [event |-> event[r], at |-> began[r], committed |-> now]
           id == Len(rows) + 1
<1>1. /\ phase[r] = "insert" /\ rows' = Append(rows, row) /\ Finish(r) /\ now' = now
      /\ lastEventKey' = lastEventKey /\ lastEventAt' = lastEventAt
  BY DEF RecordEvent, tabVars
<1>2. \A q \in Request : q # r => /\ phase'[q] = phase[q] /\ event'[q] = event[q]
                                  /\ began'[q] = began[q]
  BY <1>1 DEF Finish, IInv, TypeOK
<1>3. phase'[r] = "idle"
  BY <1>1 DEF Finish, IInv, TypeOK
<1>4. Rows = 1..Len(rows) /\ Len(rows) \in Nat
  BY Counting DEF IInv
<1>5. /\ began[r] \in 0..MaxTime /\ now \in 0..MaxTime /\ began[r] <= now
  BY <1>1 DEF IInv, TypeOK, TimeInv, InService
<1>6. r \in Busy /\ Busy' = Busy \ {r}
  BY <1>1, <1>2, <1>3 DEF Busy, InFlight
<1>7. /\ Cardinality(Busy') = Cardinality(Busy) - 1 /\ Cardinality(Busy) \in Nat
      /\ Cardinality(Busy') \in Nat
  <2>1. Busy \subseteq Request /\ Busy \ {r} \subseteq Request
    BY DEF Busy
  <2>2. IsFiniteSet(Busy) /\ Cardinality(Busy) \in Nat /\ Cardinality(Busy \ {r}) \in Nat
    BY <2>1, Counting DEF IInv
  <2>3. Cardinality(Busy \ {r}) = Cardinality(Busy) - 1
    BY <1>6, <2>2, FS_RemoveElement
  <2> QED
    BY <1>6, <2>2, <2>3
<1>8. Len(rows') = id /\ id <= MaxRows /\ id \in Nat
  BY <1>1, <1>4, <1>7 DEF IInv, RoomInv, TypeOK
<1>9. event[r] \in Event
  BY <1>1 DEF IInv, EventInv, InFlight
<1>10. rows' \in Seq(Row)
  <2>1. row \in Row
    BY <1>5, <1>9 DEF Row
  <2> HIDE DEF row
  <2> QED
    BY <1>1, <2>1 DEF IInv, TypeOK
<1>11. row.event = event[r] /\ row.at = began[r] /\ row.committed = now
  OBVIOUS
<1> HIDE DEF row
<1>12. (\A i \in Rows : rows'[i] = rows[i]) /\ rows'[id] = row
  BY <1>1, <1>4 DEF IInv, TypeOK
<1>13. /\ Rows' = Rows \cup {id} /\ id \notin Rows
       /\ \A i \in Rows : i < id
  BY <1>4, <1>8, <1>10 DEF Rows
<1>14. TypeOK'
  <2>1. /\ phase' \in [Request -> {"idle", "sent", "dedup", "insert"}]
        /\ event' \in [Request -> Event \cup {NoEvent}]
        /\ began' \in [Request -> 0..MaxTime]
    BY <1>1 DEF Finish, IInv, TypeOK
  <2> QED
    BY <1>1, <1>8, <1>10, <2>1 DEF IInv, TypeOK
<1>15. RoomInv'
  BY <1>4, <1>7, <1>8 DEF IInv, RoomInv
<1> HIDE DEF id
<1>16. EventInv' /\ TimeInv'
  BY <1>1, <1>2, <1>3 DEF IInv, EventInv, InFlight, TimeInv, InService
<1>17. FreshInv'
  <2>1. ASSUME NEW q \in Request, phase'[q] = "insert", event'[q] \in PageView,
               NEW i \in Rows', rows'[i].event = event'[q],
               began'[q] - rows'[i].at + MaxLatency <= PAGE_VIEW_DEDUP_WINDOW
        PROVE  began'[q] <= rows'[i].committed
    <3>1. q # r /\ phase[q] = "insert" /\ event[q] = event'[q] /\ began'[q] = began[q]
      BY <1>2, <1>3, <2>1
    <3>2. CASE i = id
      <4>1. began[q] <= now
        BY <3>1 DEF IInv, TimeInv, InService
      <4> QED
        BY <1>11, <1>12, <3>1, <3>2, <4>1
    <3>3. CASE i \in Rows
      BY <1>12, <2>1, <3>1, <3>3 DEF IInv, FreshInv
    <3> QED
      BY <1>13, <3>2, <3>3
  <2> QED
    BY <2>1 DEF FreshInv
<1>18. RepeatsOverlapped'
  <2>1. ASSUME NEW i \in Rows', NEW j \in Rows', i < j,
               rows'[i].event = rows'[j].event, rows'[i].event \in PageView,
               rows'[j].at - rows'[i].at + MaxLatency <= PAGE_VIEW_DEDUP_WINDOW
        PROVE  rows'[j].at <= rows'[i].committed
    <3>1. i \in Rows
      BY <1>4, <1>8, <1>13, <2>1
    <3>2. CASE j = id
      BY <1>1, <1>11, <1>12, <2>1, <3>1, <3>2 DEF IInv, FreshInv
    <3>3. CASE j \in Rows
      BY <1>12, <2>1, <3>1, <3>3 DEF IInv, RepeatsOverlapped, Rows
    <3> QED
      BY <1>13, <3>2, <3>3
  <2> QED
    BY <2>1 DEF RepeatsOverlapped, Rows
<1>19. ASSUME NEW t \in 0..MaxTime
       PROVE  Cardinality(RowsWithin(t)') + Cardinality(Pending(t)')
                <= EVENT_RATE_LIMIT_MAX + Cardinality(Request) - 1
  <2>1. Pending(t)' = Pending(t) \ {r}
    BY <1>2, <1>3 DEF Pending, InService
  <2>2. RowsWithin(t)' = IF t <= began[r] /\ began[r] <= t + EVENT_RATE_LIMIT_WINDOW
                           THEN RowsWithin(t) \cup {id} ELSE RowsWithin(t)
    BY <1>11, <1>12, <1>13 DEF RowsWithin, Rows
  <2>3. /\ RowsWithin(t) \subseteq Rows /\ Pending(t) \subseteq Request
        /\ id \notin RowsWithin(t)
    BY <1>13 DEF RowsWithin, Pending, Rows
  <2>4. /\ IsFiniteSet(RowsWithin(t)) /\ IsFiniteSet(Pending(t))
        /\ Cardinality(RowsWithin(t)) \in Nat /\ Cardinality(Pending(t)) \in Nat
        /\ Cardinality(Request) \in Nat
    BY <2>3, Counting DEF IInv
  <2>5. Cardinality(RowsWithin(t) \cup {id}) = Cardinality(RowsWithin(t)) + 1
    BY <2>3, <2>4, FS_AddElement
  <2>6. Cardinality(Pending(t) \ {r}) = IF r \in Pending(t) THEN Cardinality(Pending(t)) - 1
                                        ELSE Cardinality(Pending(t))
    BY <2>4, FS_RemoveElement
  <2>7. Cardinality(RowsWithin(t)) + Cardinality(Pending(t))
          <= EVENT_RATE_LIMIT_MAX + Cardinality(Request) - 1
    BY DEF IInv, LimitInv
  <2>8. t <= began[r] /\ began[r] <= t + EVENT_RATE_LIMIT_WINDOW => r \in Pending(t)
    BY <1>1 DEF Pending, InService
  <2> QED
    BY <2>1, <2>2, <2>4, <2>5, <2>6, <2>7, <2>8, IngestAssumption
<1>20. LimitInv'
  BY <1>19 DEF LimitInv
<1> QED
  BY <1>14, <1>15, <1>16, <1>17, <1>18, <1>20 DEF IInv

LEMMA TickKeeps ==
  ASSUME IInv, Tick
  PROVE  IInv'
<1> USE IngestAssumption DEF tabVars, requestVars, Tick
<1>1. TypeOK' /\ Rows' = Rows
  BY DEF IInv, TypeOK, Rows
<1>2. TimeInv'
  BY DEF IInv, TimeInv, TypeOK, InService
<1>3. RoomInv' /\ EventInv' /\ LimitInv' /\ FreshInv' /\ RepeatsOverlapped'
  BY <1>1
     DEF IInv, RoomInv, EventInv, LimitInv, FreshInv, RepeatsOverlapped, Busy, InFlight,
         RowsWithin, Pending, InService, Rows
<1> QED
  BY <1>1, <1>2, <1>3 DEF IInv

LEMMA StepIInv == IInv /\ [Next]_vars => IInv'
<1> SUFFICES ASSUME IInv, [Next]_vars PROVE IInv'
  OBVIOUS
<1>1. ASSUME NEW r \in Request, NEW t \in Tab, NEW e \in Event, Track(t, r, e)
      PROVE  IInv'
  BY <1>1, TrackKeeps
<1>2. ASSUME NEW r \in Request, CountEvents(r) PROVE IInv'
  <2>1. CASE AtLimit
    BY <1>2, <2>1, FinishKeeps DEF CountEvents
  <2>2. CASE ~AtLimit
    BY <1>2, <2>2, AdmitKeeps
  <2> QED
    BY <2>1, <2>2
<1>3. ASSUME NEW r \in Request, CheckDuplicate(r) PROVE IInv'
  <2>1. CASE IsDuplicatePageView(event[r])
    BY <1>3, <2>1, FinishKeeps DEF CheckDuplicate
  <2>2. CASE ~IsDuplicatePageView(event[r])
    BY <1>3, <2>2, PassKeeps
  <2> QED
    BY <2>1, <2>2
<1>4. ASSUME NEW r \in Request, RecordEvent(r) PROVE IInv'
  BY <1>4, RecordKeeps
<1>5. ASSUME NEW r \in Request, Lose(r) PROVE IInv'
  BY <1>5, FinishKeeps DEF Lose
<1>6. CASE Tick
  BY <1>6, TickKeeps
<1>7. CASE UNCHANGED vars
  BY <1>7 DEF vars, tabVars, requestVars, IInv, TypeOK, RoomInv, EventInv, TimeInv, LimitInv,
              FreshInv, RepeatsOverlapped, Busy, InFlight, RowsWithin, Pending, InService, Rows
<1> QED
  BY <1>1, <1>2, <1>3, <1>4, <1>5, <1>6, <1>7 DEF Next

-----------------------------------------------------------------------------
(* The theorems.                                                           *)

\* The inductive invariant of useAnalytics and record_event.
THEOREM Invariance == Spec => []IInv
<1>1. Init => IInv
  BY InitIInv
<1>2. IInv /\ [Next]_vars => IInv'
  BY StepIInv
<1> QED
  BY <1>1, <1>2, PTL DEF Spec

\* Every variable of the ingestion keeps its type, its bounds included.
THEOREM TypeCorrect == Spec => []TypeOK
<1>1. IInv => TypeOK
  BY DEF IInv
<1> QED
  BY <1>1, Invariance, PTL

\* record_event's limit per session: however many requests interleave between
\* its count and its INSERT, a window holds at most their number less one
\* above the limit.
THEOREM LimitHolds == Spec => []LimitWithConcurrency
<1>1. IInv => LimitWithConcurrency
  <2> SUFFICES ASSUME IInv, NEW t \in 0..MaxTime
               PROVE  Cardinality(RowsWithin(t))
                        <= EVENT_RATE_LIMIT_MAX + Cardinality(Request) - 1
    BY DEF LimitWithConcurrency
  <2>1. RowsWithin(t) \subseteq Rows /\ Pending(t) \subseteq Request
    BY DEF RowsWithin, Pending, Rows
  <2>2. /\ Cardinality(RowsWithin(t)) \in Nat /\ Cardinality(Pending(t)) \in Nat
        /\ Cardinality(Request) \in Nat
    BY <2>1, Counting DEF IInv
  <2> QED
    BY <2>2, IngestAssumption DEF IInv, LimitInv
<1> QED
  BY <1>1, Invariance, PTL

\* record_event's deduplication of page views: it misses a repeat only when
\* the two requests were in service together.
THEOREM DeduplicationHolds == Spec => []RepeatsOverlapped
<1>1. IInv => RepeatsOverlapped
  BY DEF IInv
<1> QED
  BY <1>1, Invariance, PTL

=============================================================================
