------------------------- MODULE ContactRelayProofs -------------------------
(***************************************************************************)
(* Proofs about ContactRelay, for any sets of submissions and addresses,   *)
(* any limits and any room in the table.                                   *)
(***************************************************************************)
EXTENDS ContactRelay, FiniteSetTheorems, TLAPS

-----------------------------------------------------------------------------
(* The answers.                                                            *)

\* The message of a request that may still be answered with success has been
\* taken.
DeliveryInv ==
    /\ phase \in [Request -> Phase]
    /\ delivered \in [Request -> BOOLEAN]
    /\ \A r \in Request : phase[r] \in {"closing", "sent"} => delivered[r]

LEMMA DeliveryHolds == Init => DeliveryInv
BY DEF Init, DeliveryInv, Phase, Answered

\* Submit starts over with a request that was answered; Deliver sets both;
\* nothing but RecordSent leads to "sent", and it comes from "closing".
LEMMA DeliveryStep == DeliveryInv /\ [Next]_vars => DeliveryInv'
<1> SUFFICES ASSUME DeliveryInv, [Next]_vars PROVE DeliveryInv'
  OBVIOUS
<1> USE DEF DeliveryInv, Phase, Answered, InFlight, requestVars
<1>1. ASSUME NEW r \in Request, NEW c \in ContactClient, Submit(r, c)
      PROVE  DeliveryInv'
  <2>1. /\ delivered' = [delivered EXCEPT ![r] = FALSE]
        /\ \E p \in {"limited", "trapped", "rejected", "sending"} :
              phase' = [phase EXCEPT ![r] = p]
    BY <1>1 DEF Submit
  <2> QED
    BY <2>1
<1>2. ASSUME NEW r \in Request, Deliver(r) PROVE DeliveryInv'
  BY <1>2 DEF Deliver
<1>3. ASSUME NEW r \in Request, DeliveryFails(r) \/ CloseFails(r)
      PROVE  DeliveryInv'
  BY <1>3 DEF DeliveryFails, CloseFails
<1>4. ASSUME NEW r \in Request, RecordSent(r) PROVE DeliveryInv'
  BY <1>4 DEF RecordSent
<1>5. CASE Restart
  BY <1>5 DEF Restart
<1>6. CASE \/ \E c \in AnalyticsClient : AnalyticsEvent(c)
           \/ Tick
           \/ UNCHANGED vars
  BY <1>6 DEF AnalyticsEvent, Tick, vars
<1> QED
  BY <1>1, <1>2, <1>3, <1>4, <1>5, <1>6 DEF Next

\* A visitor who is told "sent" has a message in the owner's inbox.
THEOREM NothingLostSilently == Spec => []SentIsDelivered
<1>1. DeliveryInv => SentIsDelivered
  BY DEF DeliveryInv, SentIsDelivered
<1> QED
  BY DeliveryHolds, DeliveryStep, <1>1, PTL DEF Spec

-----------------------------------------------------------------------------
(* The table.                                                              *)

\* The keys of a table that have stamps.
Stamped(h) == {k \in DOMAIN h : h[k] # <<>>}

\* The table is finite, and its keys with stamps fit in it.
TableInv ==
    /\ IsFiniteSet(DOMAIN hits)
    /\ Cardinality(Stamped(hits)) <= MAX_TRACKED_CLIENTS

\* No stamp remains of none.
LEMMA NothingSelected ==
    ASSUME NEW limits PROVE Pruned(<<>>, limits) = <<>>
<1> DEFINE stale == {i \in 1..Len(<<>>) :
                        \A j \in 1..i, l \in limits : now - <<>>[j] > Window(l)}
<1>1. stale = {}
  OBVIOUS
<1>2. Cardinality(stale) = 0
  BY <1>1, FS_EmptySet
<1>3. Pruned(<<>>, limits) = SubSeq(<<>>, Cardinality(stale) + 1, 0)
  BY DEF Pruned
<1> HIDE DEF stale
<1> QED
  BY <1>2, <1>3

\* A check inserts its key, but gives no stamps to a key that had none.
LEMMA CheckAddsNoStamps ==
    ASSUME NEW h, NEW k, NEW limits
    PROVE  /\ DOMAIN Checked(h, k, limits) = DOMAIN h \cup {k}
           /\ Stamped(Checked(h, k, limits)) \subseteq Stamped(h)
<1>1. DOMAIN Checked(h, k, limits) = DOMAIN h \cup {k}
  BY DEF Checked, Put
<1>2. ASSUME NEW j \in Stamped(Checked(h, k, limits)) PROVE j \in Stamped(h)
  <2>1. CASE j = k
    <3>1. Pruned(Stamps(h, k), limits) # <<>>
      BY <1>2, <2>1 DEF Stamped, Checked, Put
    <3>2. Stamps(h, k) # <<>>
      BY <3>1, NothingSelected
    <3> QED
      BY <2>1, <3>2 DEF Stamps, Stamped
  <2>2. CASE j # k
    BY <1>2, <2>2 DEF Stamped, Checked, Put
  <2> QED
    BY <2>1, <2>2
<1> QED
  BY <1>1, <1>2

\* Eviction leaves a finite table with no more keys than there is room for.
LEMMA EvictionMakesRoom ==
    ASSUME NEW h, IsFiniteSet(DOMAIN h), NEW g \in Evicted(h)
    PROVE  /\ IsFiniteSet(DOMAIN g)
           /\ Cardinality(DOMAIN g) <= MAX_TRACKED_CLIENTS
<1>1. CASE Cardinality(DOMAIN h) <= MAX_TRACKED_CLIENTS
  BY <1>1 DEF Evicted
<1>2. CASE ~(Cardinality(DOMAIN h) <= MAX_TRACKED_CLIENTS)
  <2>1. PICK K \in SUBSET DOMAIN h :
           Cardinality(K) = MAX_TRACKED_CLIENTS /\ g = [k \in K |-> h[k]]
    BY <1>2 DEF Evicted
  <2>2. DOMAIN g = K /\ IsFiniteSet(K)
    BY <2>1, FS_Subset
  <2> QED
    BY <2>1, <2>2, TrackedAssumption
<1> QED
  BY <1>1, <1>2

\* So does a record, whatever was in the table before.
LEMMA RecordMakesRoom ==
    ASSUME NEW h, IsFiniteSet(DOMAIN h), NEW k, NEW g \in Recorded(h, k)
    PROVE  /\ IsFiniteSet(DOMAIN g)
           /\ Cardinality(Stamped(g)) <= MAX_TRACKED_CLIENTS
<1> DEFINE p == Put(h, k, Append(Stamps(h, k), now))
<1>1. IsFiniteSet(DOMAIN p)
  <2>1. DOMAIN p = DOMAIN h \cup {k}
    BY DEF Put
  <2> QED
    BY <2>1, FS_AddElement
<1>2. g \in Evicted(p)
  BY DEF Recorded
<1>3. IsFiniteSet(DOMAIN g) /\ Cardinality(DOMAIN g) <= MAX_TRACKED_CLIENTS
  <2> HIDE DEF p
  <2> QED
    BY <1>1, <1>2, EvictionMakesRoom
<1>4. /\ Cardinality(Stamped(g)) <= Cardinality(DOMAIN g)
      /\ Cardinality(Stamped(g)) \in Nat /\ Cardinality(DOMAIN g) \in Nat
  <2>1. Stamped(g) \subseteq DOMAIN g
    BY DEF Stamped
  <2> QED
    BY <1>3, <2>1, FS_Subset, FS_CardinalityType
<1> QED
  BY <1>3, <1>4, TrackedAssumption

LEMMA TableHolds == Init => TableInv
<1> SUFFICES ASSUME Init PROVE TableInv
  OBVIOUS
<1>1. DOMAIN hits = {} /\ Stamped(hits) = {}
  BY DEF Init, Stamped
<1> QED
  BY <1>1, FS_EmptySet, TrackedAssumption DEF TableInv

\* Every change of the table is a check, a check followed by a record, a
\* record or a restart.
LEMMA TableStep == TableInv /\ [Next]_vars => TableInv'
<1> SUFFICES ASSUME TableInv, [Next]_vars PROVE TableInv'
  OBVIOUS
<1>0. ASSUME NEW k, NEW limits
      PROVE  IsFiniteSet(DOMAIN Checked(hits, k, limits))
  <2>1. DOMAIN Checked(hits, k, limits) = DOMAIN hits \cup {k}
    BY CheckAddsNoStamps
  <2>2. IsFiniteSet(DOMAIN hits \cup {k})
    BY FS_AddElement DEF TableInv
  <2> QED
    BY <2>1, <2>2
<1>1. ASSUME NEW k, NEW limits, hits' = Checked(hits, k, limits)
      PROVE  TableInv'
  <2>1. IsFiniteSet(DOMAIN hits')
    BY <1>1, <1>0
  <2>2. Stamped(hits)' \subseteq Stamped(hits)
    BY <1>1, CheckAddsNoStamps DEF Stamped
  <2>3. IsFiniteSet(Stamped(hits))
    BY FS_Subset DEF TableInv, Stamped
  <2> QED
    BY <2>1, <2>2, <2>3, FS_Subset, FS_CardinalityType, TrackedAssumption DEF TableInv
<1>2. ASSUME NEW h, IsFiniteSet(DOMAIN h), NEW k, hits' \in Recorded(h, k)
      PROVE  TableInv'
  BY <1>2, RecordMakesRoom DEF TableInv, Stamped
<1>4. ASSUME UNCHANGED hits PROVE TableInv'
  BY <1>4 DEF TableInv, Stamped
<1>5. ASSUME NEW r \in Request, NEW c \in ContactClient, Submit(r, c)
      PROVE  TableInv'
  <2> DEFINE h == Checked(hits, ContactKey(c), ContactLimits)
  <2>1. hits' = h \/ hits' \in Recorded(h, ContactKey(c))
    BY <1>5 DEF Submit, Record
  <2> QED
    BY <2>1, <1>1, <1>2, <1>0
<1>6. ASSUME NEW r \in Request, RecordSent(r) PROVE TableInv'
  BY <1>6, <1>2 DEF RecordSent, Record, TableInv
<1>7. ASSUME NEW c \in AnalyticsClient, AnalyticsEvent(c) PROVE TableInv'
  <2> DEFINE h == Checked(hits, AnalyticsKey(c), {ANALYTICS_PER_IP})
  <2>1. hits' = h \/ hits' \in Recorded(h, AnalyticsKey(c))
    BY <1>7 DEF AnalyticsEvent, Record
  <2> QED
    BY <2>1, <1>1, <1>2, <1>0
<1>8. CASE Restart
  <2>1. DOMAIN hits' = {} /\ Stamped(hits)' = {}
    BY <1>8 DEF Restart, Stamped
  <2> QED
    BY <2>1, FS_EmptySet, TrackedAssumption DEF TableInv
<1>9. ASSUME NEW r \in Request, Deliver(r) \/ DeliveryFails(r) \/ CloseFails(r)
      PROVE  TableInv'
  BY <1>9, <1>4 DEF Deliver, DeliveryFails, CloseFails
<1>10. CASE Tick \/ UNCHANGED vars
  BY <1>10, <1>4 DEF Tick, vars
<1> QED
  BY <1>5, <1>6, <1>7, <1>8, <1>9, <1>10 DEF Next

\* However many keys are checked, those with stamps fit in the table.
THEOREM MemoryBounded == Spec => []TrackedBounded
<1>1. TableInv => TrackedBounded
  BY DEF TableInv, TrackedBounded, Stamped
<1> QED
  BY TableHolds, TableStep, <1>1, PTL DEF Spec

-----------------------------------------------------------------------------
(* What a deque has kept of the stamps recorded for its key.               *)

Stamp == 1..MaxTime

\* Stamps are recorded in the order of time.
OrderInv ==
    \A k \in Key :
        /\ \A i \in 1..Len(accepted[k]) : accepted[k][i] <= now
        /\ \A i, j \in 1..Len(accepted[k]) :
              i <= j => accepted[k][i] <= accepted[k][j]

\* s is the end of a.
Ends(s, a) ==
    /\ Len(s) <= Len(a)
    /\ \A i \in 1..Len(s) : s[i] = a[Len(a) - Len(s) + i]

\* The keys other than k that had an event at t or later.
Since(a, k, t) == {j \in Key \ {k} : LastStamp(a[j]) >= t}

\* What may be missing of the stamps of k: those outside of all windows, and
\* those since which as many other keys as there is room for had events.
Expired(k, x) == \A l \in Limits(k) : now - x > Window(l)
Crowded(a, k, x) == Cardinality(Since(a, k, x)) >= MAX_TRACKED_CLIENTS

Keeps(h, a, k) ==
    /\ Stamps(h, k) \in Seq(Stamp)
    /\ Ends(Stamps(h, k), a[k])
    /\ \A i \in 1..(Len(a[k]) - Len(Stamps(h, k))) :
          Expired(k, a[k][i]) \/ Crowded(a, k, a[k][i])

KeptIn(h, a) == DOMAIN h \subseteq Key /\ \A k \in Key : Keeps(h, a, k)

\* The submissions of c that may still be recorded.
Pending(c) == {r \in Request : InFlight(r) /\ client[r] = c}

\* Until a window is over, what is pending counts against it.
Fits(c, l, t) ==
    LET n == Cardinality(Within(accepted[ContactKey(c)], l, t))
        bound == l.max_events + Cardinality(Request) - 1
    IN  /\ n <= bound
        /\ now < t + Window(l) => n + Cardinality(Pending(c)) <= bound

LimitInv ==
    \A c \in ContactClient, l \in ContactLimits, t \in 1..MaxTime :
        Fits(c, l, t) \/ Crowded(accepted, ContactKey(c), t)

IInv ==
    /\ TypeOK
    /\ OrderInv
    /\ KeptIn(hits, accepted)
    /\ LimitInv

-----------------------------------------------------------------------------
(* Lemmas about deques and tables.                                         *)

\* A product is a natural number, and it grows with its factor.
LEMMA ProductGrows ==
  ASSUME NEW a \in Nat, NEW b \in Nat, NEW t \in Nat
  PROVE  a * t \in Nat /\ (a <= b => a * t <= b * t)
  OBVIOUS

\* A limit has a window, in ticks.
LEMMA WindowType ==
  ASSUME NEW l \in RateLimit
  PROVE  Window(l) \in Nat /\ l.max_events \in Nat \ {0}
<1>1. l.window_seconds \in Nat /\ l.max_events \in Nat \ {0}
  BY DEF RateLimit
<1> QED
  BY <1>1, ProductGrows, ClockAssumption DEF Window

\* No limit of the contact form has a longer window than the hourly one.
LEMMA HourlyIsLongest ==
  \A l \in ContactLimits : Window(l) <= Window(CONTACT_HOURLY)
<1>1. /\ CONTACT_BURST.window_seconds \in Nat
      /\ CONTACT_HOURLY.window_seconds \in Nat
      /\ CONTACT_BURST.window_seconds <= CONTACT_HOURLY.window_seconds
  BY RelayAssumption DEF RateLimit
<1>2. Window(CONTACT_BURST) <= Window(CONTACT_HOURLY)
  BY <1>1, ProductGrows, ClockAssumption DEF Window
<1>3. Window(CONTACT_HOURLY) \in Nat
  BY RelayAssumption, WindowType
<1> QED
  BY <1>2, <1>3 DEF ContactLimits

\* The limits of a key have windows.
LEMMA LimitTypes ==
  ASSUME NEW k
  PROVE  /\ \A l \in Limits(k) : Window(l) \in Nat /\ l.max_events \in Nat \ {0}
         /\ \A l \in ContactLimits :
               Window(l) \in Nat /\ l.max_events \in Nat \ {0}
  BY RelayAssumption, WindowType DEF Limits, ContactLimits

\* A contact key has the contact form's limits, an analytics key its own.
LEMMA KeyLimits ==
  /\ \A c \in ContactClient :
        ContactKey(c) \in Key /\ Limits(ContactKey(c)) = ContactLimits
  /\ \A c \in AnalyticsClient :
        AnalyticsKey(c) \in Key /\ Limits(AnalyticsKey(c)) = {ANALYTICS_PER_IP}
  BY DEF Key, ContactKey, AnalyticsKey, Limits

\* There are n numbers from 1 to n.
LEMMA CountTo ==
  \A n \in Nat : IsFiniteSet(1..n) /\ Cardinality(1..n) = n
<1>1. ASSUME NEW n \in Nat PROVE IsFiniteSet(1..n) /\ Cardinality(1..n) = n
  <2>1. IsFiniteSet(1..n) /\ Cardinality(1..n) = IF 1 > n THEN 0 ELSE n - 1 + 1
    BY FS_Interval
  <2> QED
    BY <2>1
<1> QED
  BY <1>1

\* Pruning drops a prefix of stamps that are outside of all windows.
LEMMA PrunedDropsExpired ==
  ASSUME NEW s \in Seq(Stamp), NEW limits, now \in Stamp,
         \A l \in limits : Window(l) \in Nat
  PROVE  \E n \in 0..Len(s) :
            /\ Pruned(s, limits) = SubSeq(s, n + 1, Len(s))
            /\ \A i \in 1..n, l \in limits : now - s[i] > Window(l)
<1> DEFINE stale == {i \in 1..Len(s) :
                        \A j \in 1..i, l \in limits : now - s[j] > Window(l)}
           n == Cardinality(stale)
<1>1. IsFiniteSet(1..Len(s)) /\ Cardinality(1..Len(s)) = Len(s) /\ Len(s) \in Nat
  BY CountTo
<1>2. stale \subseteq 1..Len(s)
  OBVIOUS
<1>3. IsFiniteSet(stale) /\ n \in Nat /\ n <= Len(s)
  BY <1>1, <1>2, FS_Subset, FS_CardinalityType
<1>4. ASSUME NEW i \in 1..n, i \notin stale PROVE FALSE
  <2>1. stale \subseteq 1..(i - 1)
    <3>1. ASSUME NEW j \in stale, j >= i PROVE FALSE
      <4>1. i \in 1..Len(s)
        BY <1>3
      <4>2. \A m \in 1..i : m \in 1..j
        BY <1>3, <3>1
      <4> QED
        BY <1>4, <3>1, <4>1, <4>2
    <3> QED
      BY <3>1, <1>3
  <2>2. i - 1 \in Nat /\ IsFiniteSet(1..(i - 1)) /\ Cardinality(1..(i - 1)) = i - 1
    BY <1>3, CountTo
  <2>3. n <= i - 1
    BY <2>1, <2>2, FS_Subset
  <2> QED
    BY <2>3, <1>3
<1>5. \A i \in 1..n, l \in limits : now - s[i] > Window(l)
  <2>1. ASSUME NEW i \in 1..n, NEW l \in limits PROVE now - s[i] > Window(l)
    <3>1. i \in stale /\ i \in 1..i
      BY <1>3, <1>4
    <3> QED
      BY <3>1
  <2> QED
    BY <2>1
<1>6. Pruned(s, limits) = SubSeq(s, n + 1, Len(s))
  BY Zenon DEF Pruned
<1>7. n \in 0..Len(s)
  BY <1>1, <1>3
<1> HIDE DEF stale, n
<1> QED
  BY <1>5, <1>6, <1>7

\* The end of a sequence.
LEMMA SubSeqEnds ==
  ASSUME NEW s \in Seq(Stamp), NEW n \in 0..Len(s)
  PROVE  /\ SubSeq(s, n + 1, Len(s)) \in Seq(Stamp)
         /\ Len(SubSeq(s, n + 1, Len(s))) = Len(s) - n
         /\ \A i \in 1..(Len(s) - n) : SubSeq(s, n + 1, Len(s))[i] = s[n + i]
  OBVIOUS

\* More keys have had an event when one more is recorded.
LEMMA CrowdGrows ==
  ASSUME NEW a, NEW b, NEW k, NEW x,
         \A j \in Key : LastStamp(a[j]) >= x => LastStamp(b[j]) >= x,
         Crowded(a, k, x)
  PROVE  Crowded(b, k, x)
<1>1. Since(a, k, x) \subseteq Since(b, k, x) /\ Since(b, k, x) \subseteq Key
  BY DEF Since
<1>2. IsFiniteSet(Since(b, k, x))
  BY <1>1, RelayAssumption, FS_Subset
<1>3. /\ Cardinality(Since(a, k, x)) <= Cardinality(Since(b, k, x))
      /\ Cardinality(Since(a, k, x)) \in Nat /\ Cardinality(Since(b, k, x)) \in Nat
  BY <1>1, <1>2, FS_Subset, FS_CardinalityType
<1> QED
  BY <1>3, TrackedAssumption DEF Crowded

\* So had they since an earlier time.
LEMMA CrowdedEarlier ==
  ASSUME NEW a, \A j \in Key : LastStamp(a[j]) \in Nat,
         NEW k, NEW x \in Nat, NEW y \in Nat, y <= x, Crowded(a, k, x)
  PROVE  Crowded(a, k, y)
<1>1. Since(a, k, x) \subseteq Since(a, k, y) /\ Since(a, k, y) \subseteq Key
  BY DEF Since
<1>2. IsFiniteSet(Since(a, k, y))
  BY <1>1, RelayAssumption, FS_Subset
<1>3. /\ Cardinality(Since(a, k, x)) <= Cardinality(Since(a, k, y))
      /\ Cardinality(Since(a, k, x)) \in Nat /\ Cardinality(Since(a, k, y)) \in Nat
  BY <1>1, <1>2, FS_Subset, FS_CardinalityType
<1> QED
  BY <1>3, TrackedAssumption DEF Crowded

\* A check drops only what has expired.
LEMMA CheckKeeps ==
  ASSUME NEW h, NEW a \in [Key -> Seq(Stamp)], KeptIn(h, a), now \in Stamp,
         NEW k \in Key
  PROVE  KeptIn(Checked(h, k, Limits(k)), a)
<1> DEFINE s == Stamps(h, k)
           g == Checked(h, k, Limits(k))
           t == Pruned(s, Limits(k))
<1>1. DOMAIN g = DOMAIN h \cup {k}
  BY DEF Checked, Put
<1>2. \A j \in Key : Stamps(g, j) = IF j = k THEN t ELSE Stamps(h, j)
  BY DEF Checked, Put, Stamps
<1>3. s \in Seq(Stamp) /\ Ends(s, a[k]) /\ a[k] \in Seq(Stamp)
  BY DEF KeptIn, Keeps
<1> HIDE DEF s, t, g
<1>4. PICK n \in 0..Len(s) :
         /\ t = SubSeq(s, n + 1, Len(s))
         /\ \A i \in 1..n, l \in Limits(k) : now - s[i] > Window(l)
  BY <1>3, PrunedDropsExpired, LimitTypes DEF t
<1>5. /\ t \in Seq(Stamp) /\ Len(t) = Len(s) - n
      /\ \A i \in 1..(Len(s) - n) : t[i] = s[n + i]
  BY <1>3, <1>4, SubSeqEnds
<1>6. Len(s) \in Nat /\ Len(a[k]) \in Nat /\ Len(t) \in Nat
  BY <1>3, <1>5
<1>7. Ends(t, a[k])
  <2>1. ASSUME NEW i \in 1..Len(t) PROVE t[i] = a[k][Len(a[k]) - Len(t) + i]
    <3>1. i \in 1..(Len(s) - n) /\ n + i \in 1..Len(s)
      BY <1>5, <1>6
    <3>2. t[i] = a[k][Len(a[k]) - Len(s) + (n + i)]
      BY <1>3, <1>5, <3>1 DEF Ends
    <3>3. Len(a[k]) - Len(s) + (n + i) = Len(a[k]) - Len(t) + i
      BY <1>5, <1>6
    <3> QED
      BY <3>2, <3>3
  <2>2. Len(t) <= Len(a[k])
    BY <1>3, <1>5, <1>6 DEF Ends
  <2> QED
    BY <2>1, <2>2 DEF Ends
<1>8. ASSUME NEW i \in 1..(Len(a[k]) - Len(t))
      PROVE  Expired(k, a[k][i]) \/ Crowded(a, k, a[k][i])
  <2>1. CASE i <= Len(a[k]) - Len(s)
    <3>1. i \in 1..(Len(a[k]) - Len(s))
      BY <1>6, <2>1
    <3> QED
      BY <3>1 DEF KeptIn, Keeps, s
  <2>2. CASE ~(i <= Len(a[k]) - Len(s))
    <3> DEFINE m == i - (Len(a[k]) - Len(s))
    <3>1. m \in 1..n /\ m \in 1..Len(s) /\ i = Len(a[k]) - Len(s) + m
      BY <1>5, <1>6, <2>2
    <3>2. a[k][i] = s[m]
      BY <1>3, <3>1 DEF Ends
    <3> QED
      BY <1>4, <3>1, <3>2 DEF Expired
  <2> QED
    BY <2>1, <2>2
<1>9. ASSUME NEW j \in Key PROVE Keeps(g, a, j)
  <2>1. CASE j = k
    BY <1>2, <1>5, <1>7, <1>8, <2>1 DEF Keeps
  <2>2. CASE j # k
    BY <1>2, <2>2 DEF KeptIn, Keeps
  <2> QED
    BY <2>1, <2>2
<1> QED
  BY <1>1, <1>9 DEF KeptIn, g

\* The last stamp of a key in the table is the last recorded for it.
LEMMA LastOfEnd ==
  ASSUME NEW s \in Seq(Stamp), NEW a \in Seq(Stamp), Ends(s, a), s # <<>>
  PROVE  /\ a # <<>> /\ Len(s) \in 1..Len(a) /\ LastStamp(s) = a[Len(a)]
         /\ LastStamp(a) = a[Len(a)]
<1>1. Len(s) \in Nat /\ Len(a) \in Nat /\ Len(s) # 0 /\ Len(s) <= Len(a)
  BY DEF Ends
<1>2. s[Len(s)] = a[Len(a) - Len(s) + Len(s)]
  BY <1>1 DEF Ends
<1> QED
  BY <1>1, <1>2 DEF LastStamp

\* Time stamps are positive, and 0 stands for none.
LEMMA LastStampTypes ==
  ASSUME NEW s \in Seq(Stamp)
  PROVE  LastStamp(s) \in Nat /\ (LastStamp(s) = 0 <=> s = <<>>)
<1>1. CASE s = <<>>
  BY <1>1 DEF LastStamp
<1>2. CASE s # <<>>
  <2>1. Len(s) \in 1..Len(s)
    BY <1>2
  <2>2. s[Len(s)] \in Stamp
    BY <2>1
  <2>3. LastStamp(s) = s[Len(s)]
    BY <1>2 DEF LastStamp
  <2> QED
    BY <1>2, <2>2, <2>3, RelayAssumption DEF Stamp
<1> QED
  BY <1>1, <1>2

\* A record makes no key's latest stamp older.
LEMMA AppendGrows ==
  ASSUME NEW a \in [Key -> Seq(Stamp)], now \in Stamp, NEW k \in Key,
         \A i \in 1..Len(a[k]) : a[k][i] <= now
  PROVE  LET b == [a EXCEPT ![k] = Append(@, now)]
         IN  \A j \in Key : /\ LastStamp(a[j]) <= LastStamp(b[j])
                             /\ LastStamp(a[j]) \in Nat /\ LastStamp(b[j]) \in Nat
<1> DEFINE b == [a EXCEPT ![k] = Append(@, now)]
<1>1. /\ \A j \in Key : j # k => b[j] = a[j]
      /\ b[k] = Append(a[k], now) /\ a[k] \in Seq(Stamp)
  OBVIOUS
<1> HIDE DEF b
<1>2. Len(b[k]) = Len(a[k]) + 1 /\ b[k][Len(a[k]) + 1] = now /\ Len(a[k]) \in Nat
  BY <1>1
<1>3. LastStamp(b[k]) = now
  <2>1. b[k] # <<>>
    BY <1>2
  <2> QED
    BY <1>2, <2>1 DEF LastStamp
<1>4. LastStamp(a[k]) <= now
  BY <1>1, <1>2, RelayAssumption DEF LastStamp, Stamp
<1>5. \A j \in Key : LastStamp(a[j]) \in Nat
  BY LastStampTypes
<1>6. \A j \in Key : LastStamp(a[j]) <= LastStamp(b[j]) /\ LastStamp(b[j]) \in Nat
  <2>1. ASSUME NEW j \in Key
        PROVE  LastStamp(a[j]) <= LastStamp(b[j]) /\ LastStamp(b[j]) \in Nat
    <3>1. CASE j = k
      BY <1>3, <1>4, <3>1 DEF Stamp
    <3>2. CASE j # k
      BY <1>1, <1>5, <3>2
    <3> QED
      BY <3>1, <3>2
  <2> QED
    BY <2>1
<1> QED
  BY <1>5, <1>6 DEF b

\* Appending the present time to both keeps the deque an end of the record.
LEMMA AppendKeeps ==
  ASSUME NEW h, NEW a \in [Key -> Seq(Stamp)], KeptIn(h, a), now \in Stamp,
         NEW k \in Key,
         \A i \in 1..Len(a[k]) : a[k][i] <= now
  PROVE  KeptIn(Put(h, k, Append(Stamps(h, k), now)),
                [a EXCEPT ![k] = Append(@, now)])
<1> DEFINE s == Stamps(h, k)
           g == Put(h, k, Append(s, now))
           b == [a EXCEPT ![k] = Append(@, now)]
<1>1. DOMAIN g = DOMAIN h \cup {k}
  BY DEF Put
<1>2. \A j \in Key : Stamps(g, j) = IF j = k THEN Append(s, now) ELSE Stamps(h, j)
  BY DEF Put, Stamps
<1>3. s \in Seq(Stamp) /\ Ends(s, a[k]) /\ a[k] \in Seq(Stamp)
  BY DEF KeptIn, Keeps
<1>4. \A j \in Key : b[j] = IF j = k THEN Append(a[k], now) ELSE a[j]
  OBVIOUS
<1>10. b[k] = Append(a[k], now) /\ Stamps(g, k) = Append(s, now)
  BY <1>2, <1>4, Zenon
<1> HIDE DEF s, g, b
<1>5. /\ Append(s, now) \in Seq(Stamp) /\ Len(Append(s, now)) = Len(s) + 1
      /\ \A i \in 1..Len(s) : Append(s, now)[i] = s[i]
      /\ Append(s, now)[Len(s) + 1] = now
      /\ Len(Append(a[k], now)) = Len(a[k]) + 1
      /\ \A i \in 1..Len(a[k]) : Append(a[k], now)[i] = a[k][i]
      /\ Append(a[k], now)[Len(a[k]) + 1] = now
      /\ Len(s) \in Nat /\ Len(a[k]) \in Nat
  BY <1>3
<1>6. Ends(Append(s, now), Append(a[k], now))
  BY <1>3, <1>5 DEF Ends
<1>7. \A j \in Key : LastStamp(a[j]) <= LastStamp(b[j]) /\ LastStamp(a[j]) \in Nat
                        /\ LastStamp(b[j]) \in Nat
  BY AppendGrows DEF b
<1>8. ASSUME NEW j, NEW x \in Stamp, Crowded(a, j, x) PROVE Crowded(b, j, x)
  BY <1>7, <1>8, CrowdGrows DEF Stamp
<1>9. ASSUME NEW j \in Key PROVE Keeps(g, b, j)
  <2>1. CASE j = k
    <3>1. \A i \in 1..(Len(b[k]) - Len(Stamps(g, k))) :
             i \in 1..(Len(a[k]) - Len(s)) /\ b[k][i] = a[k][i] /\ a[k][i] \in Stamp
      <4>1. Len(b[k]) - Len(Stamps(g, k)) = Len(a[k]) - Len(s)
        BY <1>5, <1>10
      <4>2. \A i \in 1..(Len(a[k]) - Len(s)) : i \in 1..Len(a[k])
        BY <1>5
      <4>3. \A i \in 1..Len(a[k]) : b[k][i] = a[k][i] /\ a[k][i] \in Stamp
        BY <1>3, <1>5, <1>10
      <4> QED
        BY <4>1, <4>2, <4>3
    <3>2. \A i \in 1..(Len(a[k]) - Len(s)) :
             Expired(k, a[k][i]) \/ Crowded(a, k, a[k][i])
      BY DEF KeptIn, Keeps, s
    <3> QED
      BY <1>2, <1>4, <1>5, <1>6, <1>8, <2>1, <3>1, <3>2 DEF Keeps
  <2>2. CASE j # k
    <3>1. Keeps(h, a, j) /\ Stamps(g, j) = Stamps(h, j) /\ b[j] = a[j] /\ a[j] \in Seq(Stamp)
      BY <1>2, <1>4, <2>2 DEF KeptIn
    <3>2. \A i \in 1..(Len(a[j]) - Len(Stamps(h, j))) : a[j][i] \in Stamp
      BY <3>1 DEF Keeps
    <3> QED
      BY <1>8, <3>1, <3>2 DEF Keeps
  <2> QED
    BY <2>1, <2>2
<1> QED
  BY <1>1, <1>9 DEF KeptIn, g, b, s

\* Eviction forgets a key only if as many others as there is room for had
\* events since.
LEMMA EvictionKeeps ==
  ASSUME NEW h, NEW a \in [Key -> Seq(Stamp)], KeptIn(h, a), NEW g \in Evicted(h),
         \A k \in Key : \A i, j \in 1..Len(a[k]) : i <= j => a[k][i] <= a[k][j]
  PROVE  KeptIn(g, a)
<1>1. CASE Cardinality(DOMAIN h) <= MAX_TRACKED_CLIENTS
  BY <1>1 DEF Evicted
<1>2. CASE ~(Cardinality(DOMAIN h) <= MAX_TRACKED_CLIENTS)
  <2>1. PICK K \in SUBSET DOMAIN h :
           /\ Cardinality(K) = MAX_TRACKED_CLIENTS
           /\ \A k \in K, e \in DOMAIN h \ K : LastStamp(h[e]) <= LastStamp(h[k])
           /\ g = [k \in K |-> h[k]]
    BY <1>2 DEF Evicted
  <2>2. DOMAIN g = K /\ K \subseteq DOMAIN h /\ DOMAIN h \subseteq Key
    BY <2>1 DEF KeptIn
  <2>3. \A k \in Key : Stamps(g, k) = IF k \in K THEN Stamps(h, k) ELSE <<>>
    BY <2>1, <2>2 DEF Stamps
  <2>4. \A k \in DOMAIN h : /\ Stamps(h, k) = h[k] /\ h[k] \in Seq(Stamp)
                            /\ Ends(h[k], a[k]) /\ a[k] \in Seq(Stamp)
    BY <2>2 DEF KeptIn, Keeps, Stamps
  <2>5. ASSUME NEW e \in DOMAIN h, e \notin K, NEW i \in 1..Len(a[e]),
               ~(i \in 1..(Len(a[e]) - Len(h[e])))
        PROVE  Crowded(a, e, a[e][i])
    <3>1. h[e] # <<>>
      BY <2>4, <2>5
    <3>2. /\ LastStamp(h[e]) = a[e][Len(a[e])] /\ Len(a[e]) \in 1..Len(a[e])
          /\ a[e][Len(a[e])] \in Stamp /\ a[e][i] \in Stamp
      BY <2>4, <3>1, LastOfEnd
    <3>3. a[e][i] <= LastStamp(h[e])
      BY <2>2, <3>2
    <3>4. ASSUME NEW k \in K PROVE k \in Since(a, e, a[e][i])
      <4>1. LastStamp(h[e]) <= LastStamp(h[k]) /\ LastStamp(h[k]) \in Nat
        BY <2>1, <2>2, <2>4, <2>5, LastStampTypes
      <4>2. LastStamp(h[k]) >= 1 /\ LastStamp(h[k]) >= a[e][i]
        BY <3>2, <3>3, <4>1 DEF Stamp
      <4>3. h[k] # <<>>
        BY <4>2 DEF LastStamp
      <4>4. LastStamp(h[k]) = LastStamp(a[k])
        BY <2>2, <2>4, <4>3, LastOfEnd
      <4> QED
        BY <2>2, <2>5, <4>2, <4>4 DEF Since
    <3>5. K \subseteq Since(a, e, a[e][i]) /\ IsFiniteSet(Since(a, e, a[e][i]))
      BY <3>4, RelayAssumption, FS_Subset DEF Since
    <3>6. /\ Cardinality(K) <= Cardinality(Since(a, e, a[e][i]))
          /\ Cardinality(K) \in Nat /\ Cardinality(Since(a, e, a[e][i])) \in Nat
      BY <3>5, FS_Subset, FS_CardinalityType
    <3> QED
      BY <2>1, <3>6 DEF Crowded
  <2>6. ASSUME NEW k \in Key PROVE Keeps(g, a, k)
    <3>1. CASE k \in K \/ k \notin DOMAIN h
      BY <2>2, <2>3, <3>1 DEF KeptIn, Keeps, Stamps
    <3>2. CASE k \in DOMAIN h /\ k \notin K
      <4>1. Stamps(g, k) = <<>> /\ Stamps(g, k) \in Seq(Stamp) /\ Len(Stamps(g, k)) = 0
            /\ Len(a[k]) \in Nat
        <5>1. a[k] \in Seq(Stamp) /\ Stamps(g, k) = <<>>
          BY <2>3, <3>2
        <5> QED
          BY <5>1
      <4>2. Ends(Stamps(g, k), a[k])
        BY <4>1 DEF Ends
      <4>3. \A i \in 1..Len(a[k]) : Expired(k, a[k][i]) \/ Crowded(a, k, a[k][i])
        BY <2>4, <2>5, <3>2 DEF KeptIn, Keeps
      <4> QED
        BY <4>1, <4>2, <4>3 DEF Keeps
    <3> QED
      BY <3>1, <3>2
  <2> QED
    BY <2>2, <2>6 DEF KeptIn
<1> QED
  BY <1>1, <1>2

\* A record adds the present time and evicts: the table keeps what it should.
LEMMA RecordKeeps ==
  ASSUME NEW h, NEW a \in [Key -> Seq(Stamp)], KeptIn(h, a), now \in Stamp,
         NEW k \in Key, NEW g \in Recorded(h, k),
         \A j \in Key : \A i \in 1..Len(a[j]) : a[j][i] <= now,
         \A j \in Key : \A m, n \in 1..Len(a[j]) : m <= n => a[j][m] <= a[j][n]
  PROVE  /\ KeptIn(g, [a EXCEPT ![k] = Append(@, now)])
         /\ [a EXCEPT ![k] = Append(@, now)] \in [Key -> Seq(Stamp)]
         /\ \A j \in Key : \A i \in 1..Len([a EXCEPT ![k] = Append(@, now)][j]) :
               [a EXCEPT ![k] = Append(@, now)][j][i] <= now
         /\ \A j \in Key : \A m, n \in 1..Len([a EXCEPT ![k] = Append(@, now)][j]) :
               m <= n => [a EXCEPT ![k] = Append(@, now)][j][m]
                            <= [a EXCEPT ![k] = Append(@, now)][j][n]
<1> DEFINE b == [a EXCEPT ![k] = Append(@, now)]
           p == Put(h, k, Append(Stamps(h, k), now))
<1>1. KeptIn(p, b)
  BY AppendKeeps
<1>2. /\ \A j \in Key : b[j] = IF j = k THEN Append(a[k], now) ELSE a[j]
      /\ b[k] = Append(a[k], now)
  OBVIOUS
<1>3. b \in [Key -> Seq(Stamp)]
  BY <1>2
<1>4. g \in Evicted(p)
  BY DEF Recorded
<1> HIDE DEF b, p
<1>5. a[k] \in Seq(Stamp) /\ Len(a[k]) \in Nat
  OBVIOUS
<1>6. /\ Len(b[k]) = Len(a[k]) + 1 /\ b[k][Len(a[k]) + 1] = now
      /\ \A i \in 1..Len(a[k]) : b[k][i] = a[k][i]
  BY <1>2, <1>5
<1>7. \A i \in 1..Len(a[k]) : a[k][i] \in Nat
  BY <1>5, RelayAssumption DEF Stamp
<1>8. \A i \in 1..Len(b[k]) : b[k][i] <= now
  BY <1>5, <1>6, RelayAssumption DEF Stamp
<1>9. ASSUME NEW m \in 1..Len(b[k]), NEW n \in 1..Len(b[k]), m <= n
      PROVE  b[k][m] <= b[k][n]
  <2>1. CASE n <= Len(a[k])
    <3>1. m \in 1..Len(a[k]) /\ n \in 1..Len(a[k])
      BY <1>5, <1>6, <1>9, <2>1
    <3> QED
      BY <1>6, <1>9, <3>1
  <2>2. CASE ~(n <= Len(a[k]))
    <3>1. n = Len(a[k]) + 1
      BY <1>5, <1>6, <2>2
    <3> QED
      BY <1>6, <1>8, <3>1
  <2> QED
    BY <2>1, <2>2
<1>10. \A j \in Key : \A i \in 1..Len(b[j]) : b[j][i] <= now
  BY <1>2, <1>8
<1>11. \A j \in Key : \A m, n \in 1..Len(b[j]) : m <= n => b[j][m] <= b[j][n]
  BY <1>2, <1>9
<1>12. KeptIn(g, b)
  BY <1>1, <1>3, <1>4, <1>11, EvictionKeeps
<1> QED
  BY <1>3, <1>10, <1>11, <1>12 DEF b

-----------------------------------------------------------------------------
(* Lemmas about counts.                                                    *)

\* What a window holds can be counted.
LEMMA WithinIsFinite ==
  ASSUME NEW s \in Seq(Stamp), NEW l, NEW t
  PROVE  /\ Within(s, l, t) \subseteq 1..Len(s)
         /\ IsFiniteSet(Within(s, l, t)) /\ Cardinality(Within(s, l, t)) \in Nat
<1>1. Within(s, l, t) \subseteq 1..Len(s) /\ Len(s) \in Nat
  BY DEF Within
<1> QED
  BY <1>1, CountTo, FS_Subset, FS_CardinalityType

\* An element adds at most itself.
LEMMA OneMore ==
  ASSUME NEW S, IsFiniteSet(S), NEW x
  PROVE  IsFiniteSet(S \cup {x}) /\ Cardinality(S \cup {x}) <= Cardinality(S) + 1
<1>1. /\ IsFiniteSet(S \cup {x}) /\ Cardinality(S) \in Nat
      /\ Cardinality(S \cup {x}) = IF x \in S THEN Cardinality(S) ELSE Cardinality(S) + 1
  BY FS_AddElement, FS_CardinalityType
<1> QED
  BY <1>1

\* A stamp adds at most itself, and nothing to a window it is not in.
LEMMA WithinAppended ==
  ASSUME NEW s \in Seq(Stamp), NEW x \in Stamp, NEW l, NEW t
  PROVE  /\ Cardinality(Within(Append(s, x), l, t)) <= Cardinality(Within(s, l, t)) + 1
         /\ ~(t <= x /\ x < t + Window(l))
               => Cardinality(Within(Append(s, x), l, t)) = Cardinality(Within(s, l, t))
<1> DEFINE u == Append(s, x)
           n == Len(s) + 1
<1>1. /\ Len(s) \in Nat /\ Len(u) = n /\ u[n] = x
      /\ u \in Seq(Stamp) /\ \A i \in 1..Len(s) : u[i] = s[i]
  OBVIOUS
<1> HIDE DEF u
<1>2. DOMAIN u = 1..n /\ DOMAIN s = 1..Len(s) /\ 1..n = 1..Len(s) \cup {n}
  BY <1>1
<1>3. Within(u, l, t) \subseteq Within(s, l, t) \cup {n}
  BY <1>1, <1>2 DEF Within
<1>4. ~(t <= x /\ x < t + Window(l)) => Within(u, l, t) = Within(s, l, t)
  <2> SUFFICES ASSUME ~(t <= x /\ x < t + Window(l))
               PROVE  Within(u, l, t) = Within(s, l, t)
    OBVIOUS
  <2>1. \A i \in 1..n : i = n \/ (i \in 1..Len(s) /\ u[i] = s[i])
    BY <1>1, <1>2
  <2>2. n \notin Within(u, l, t)
    BY <1>1 DEF Within
  <2>3. \A i \in Within(u, l, t) : i \in Within(s, l, t)
    BY <1>2, <2>1, <2>2 DEF Within
  <2>4. \A i \in Within(s, l, t) : i \in Within(u, l, t)
    BY <1>1, <1>2 DEF Within
  <2> QED
    BY <2>3, <2>4
<1>5. IsFiniteSet(Within(s, l, t)) /\ Cardinality(Within(s, l, t)) \in Nat
  BY WithinIsFinite
<1>6. /\ IsFiniteSet(Within(s, l, t) \cup {n})
      /\ Cardinality(Within(s, l, t) \cup {n}) <= Cardinality(Within(s, l, t)) + 1
  BY <1>5, OneMore
<1>7. /\ Cardinality(Within(u, l, t)) <= Cardinality(Within(s, l, t) \cup {n})
      /\ Cardinality(Within(u, l, t)) \in Nat /\ Cardinality(Within(s, l, t) \cup {n}) \in Nat
  BY <1>3, <1>6, FS_Subset, FS_CardinalityType
<1> QED
  BY <1>4, <1>5, <1>6, <1>7 DEF u

\* Submissions can be counted.
LEMMA PendingIsFinite ==
  /\ IsFiniteSet(Request) /\ Cardinality(Request) \in Nat
  /\ \A S : S \subseteq Request =>
        /\ IsFiniteSet(S) /\ Cardinality(S) \in Nat
        /\ Cardinality(S) <= Cardinality(Request)
  /\ \A S, T : S \subseteq Request /\ T \subseteq S =>
        Cardinality(T) <= Cardinality(S)
  /\ \A S, r : S \subseteq Request /\ r \in S =>
        Cardinality(S \ {r}) = Cardinality(S) - 1
<1>1. IsFiniteSet(Request) /\ Cardinality(Request) \in Nat
  BY RelayAssumption, FS_CardinalityType
<1>2. ASSUME NEW S, S \subseteq Request
      PROVE  /\ IsFiniteSet(S) /\ Cardinality(S) \in Nat
             /\ Cardinality(S) <= Cardinality(Request)
  BY <1>1, <1>2, FS_Subset, FS_CardinalityType
<1>3. ASSUME NEW S, NEW T, S \subseteq Request, T \subseteq S
      PROVE  Cardinality(T) <= Cardinality(S)
  BY <1>2, <1>3, FS_Subset
<1>4. ASSUME NEW S, NEW r, S \subseteq Request, r \in S
      PROVE  Cardinality(S \ {r}) = Cardinality(S) - 1
  BY <1>2, <1>4, FS_RemoveElement
<1> QED
  BY <1>1, <1>2, <1>3, <1>4

\* A submission that is admitted finds fewer stamps than the limit in every
\* window that is not over, unless stamps of that window were evicted.
LEMMA AdmittedFindsRoom ==
  ASSUME IInv, NEW c \in ContactClient, ~Refused(hits, ContactKey(c), ContactLimits),
         NEW l \in ContactLimits, NEW t \in Stamp, now < t + Window(l),
         ~Crowded(accepted, ContactKey(c), t)
  PROVE  Cardinality(Within(accepted[ContactKey(c)], l, t)) < l.max_events
<1> DEFINE k == ContactKey(c)
           a == accepted[k]
           g == Checked(hits, k, ContactLimits)
           s == Pruned(Stamps(hits, k), ContactLimits)
           W == Within(a, l, t)
           R == Recent(s, l, now)
           d == Len(a) - Len(s)
<1>1. /\ k \in Key /\ Limits(k) = ContactLimits
      /\ now \in Stamp /\ accepted \in [Key -> Seq(Stamp)] /\ KeptIn(hits, accepted)
      /\ now \in Nat /\ t \in Nat /\ Window(l) \in Nat /\ l.max_events \in Nat
  BY KeyLimits, LimitTypes, RelayAssumption DEF IInv, TypeOK, Stamp
<1>2. Keeps(g, accepted, k)
  BY <1>1, CheckKeeps DEF KeptIn
<1>3. Stamps(g, k) = s
  BY DEF Checked, Put, Stamps
<1>4. /\ s \in Seq(Stamp) /\ Ends(s, a) /\ a \in Seq(Stamp)
      /\ \A i \in 1..d : Expired(k, a[i]) \/ Crowded(accepted, k, a[i])
  BY <1>1, <1>2, <1>3 DEF Keeps
<1>5. ~(Cardinality(R) >= l.max_events)
  BY DEF Refused, Exceeded
<1> HIDE DEF k, a, g, s, W, R
<1>6. Len(a) \in Nat /\ Len(s) \in Nat /\ d \in Nat
  BY <1>4 DEF Ends
<1>7. ASSUME NEW i \in W PROVE i - d \in R
  <2>1. i \in 1..Len(a) /\ t <= a[i] /\ a[i] \in Nat
    BY <1>4, <1>6, RelayAssumption DEF W, Within, Stamp
  <2>2. ~Expired(k, a[i])
    BY <1>1, <2>1 DEF Expired
  <2>3. ~Crowded(accepted, k, a[i])
    <3>1. \A j \in Key : LastStamp(accepted[j]) \in Nat
      BY <1>1, LastStampTypes
    <3> QED
      BY <1>1, <2>1, <3>1, CrowdedEarlier DEF k
  <2>4. i > d
    BY <1>4, <1>6, <2>1, <2>2, <2>3
  <2>5. i - d \in 1..Len(s) /\ i = Len(a) - Len(s) + (i - d)
    BY <1>6, <2>1, <2>4
  <2>6. s[i - d] = a[i]
    BY <1>4, <2>5 DEF Ends
  <2>7. a[i] > now - Window(l)
    BY <1>1, <2>1
  <2>8. DOMAIN s = 1..Len(s)
    BY <1>4
  <2> QED
    BY <2>5, <2>6, <2>7, <2>8 DEF R, Recent
<1>8. IsFiniteSet(R) /\ Cardinality(R) \in Nat
  <2>1. R \subseteq 1..Len(s)
    BY <1>4 DEF R, Recent
  <2> QED
    BY <1>6, <2>1, CountTo, FS_Subset, FS_CardinalityType
<1>9. Cardinality(W) <= Cardinality(R)
  <2> DEFINE f == [i \in W |-> i - d]
  <2>1. f \in [W -> R]
    BY <1>7
  <2>2. W \subseteq Nat
    BY <1>4, <1>6, WithinIsFinite DEF W
  <2>3. \A i, j \in W : f[i] = f[j] => i = j
    BY <1>6, <2>2
  <2>4. f \in Injection(W, R)
    BY <2>1, <2>3 DEF Injection, IsInjective
  <2> QED
    BY <1>8, <2>4, FS_Injection
<1>10. Cardinality(W) \in Nat
  BY <1>4, WithinIsFinite DEF W
<1>11. Cardinality(W) < l.max_events
  BY <1>1, <1>5, <1>8, <1>9, <1>10
<1> QED
  BY <1>11 DEF W, a, k

-----------------------------------------------------------------------------
(* The invariant.                                                          *)

\* A window of nothing is within its limit.
LEMMA NothingFits ==
  ASSUME NEW c \in ContactClient, NEW l \in ContactLimits, NEW t,
         accepted[ContactKey(c)] = <<>>, Pending(c) = {}
  PROVE  Fits(c, l, t)
<1>1. Within(accepted[ContactKey(c)], l, t) = {}
  BY DEF Within
<1>2. l.max_events \in Nat \ {0} /\ Cardinality(Request) \in Nat
  BY LimitTypes, PendingIsFinite
<1>3. /\ Cardinality(Within(accepted[ContactKey(c)], l, t)) = 0
      /\ Cardinality(Pending(c)) = 0
  BY <1>1, FS_EmptySet
<1>4. 0 <= l.max_events + Cardinality(Request) - 1
  BY <1>2
<1> QED
  BY <1>3, <1>4 DEF Fits

LEMMA InitIInv == Init => IInv
<1> SUFFICES ASSUME Init PROVE IInv
  OBVIOUS
<1>1. TypeOK
  BY RelayAssumption DEF Init, TypeOK, Phase, Answered
<1>2. \A k \in Key : accepted[k] = <<>> /\ Stamps(hits, k) = <<>> /\ DOMAIN hits = {}
  BY DEF Init, Stamps
<1>3. OrderInv
  BY <1>2 DEF OrderInv
<1>4. KeptIn(hits, accepted)
  <2>1. \A k \in Key : Keeps(hits, accepted, k)
    <3>1. <<>> \in Seq(Stamp) /\ Len(<<>>) = 0 /\ Ends(<<>>, <<>>)
      BY DEF Ends
    <3>2. \A i \in 1..(Len(<<>>) - Len(<<>>)) : FALSE
      OBVIOUS
    <3> QED
      BY <1>2, <3>1, <3>2, Zenon DEF Keeps
  <2> QED
    BY <2>1 DEF KeptIn, Init
<1>5. LimitInv
  <2>1. \A c \in ContactClient : accepted[ContactKey(c)] = <<>> /\ Pending(c) = {}
    BY <1>2, KeyLimits DEF Init, Pending, InFlight, Answered
  <2> QED
    BY <2>1, NothingFits DEF LimitInv
<1> QED
  BY <1>1, <1>3, <1>4, <1>5 DEF IInv

\* What a table has kept, it has kept when the clock has gone on.
LEMMA KeptLater ==
  ASSUME KeptIn(hits', accepted'), now \in Nat, now' \in Nat, now <= now',
         accepted' \in [Key -> Seq(Stamp)]
  PROVE  KeptIn(hits, accepted)'
<1>1. ASSUME NEW k \in Key, NEW x \in Nat, Expired(k, x)
      PROVE  \A l \in Limits(k) : now' - x > Window(l)
  BY <1>1, LimitTypes DEF Expired
<1>2. ASSUME NEW k \in Key PROVE Keeps(hits, accepted, k)'
  <2> DEFINE s == Stamps(hits', k)
             a == accepted'[k]
  <2>1. /\ s \in Seq(Stamp) /\ Ends(s, a) /\ a \in Seq(Stamp)
        /\ \A i \in 1..(Len(a) - Len(s)) :
              Expired(k, a[i]) \/ Crowded(accepted', k, a[i])
    BY DEF KeptIn, Keeps
  <2>2. \A i \in 1..(Len(a) - Len(s)) : a[i] \in Nat
    BY <2>1, RelayAssumption DEF Ends, Stamp
  <2>3. \A i \in 1..(Len(a) - Len(s)) :
           \/ \A l \in Limits(k) : now' - a[i] > Window(l)
           \/ Crowded(accepted', k, a[i])
    BY <1>1, <2>1, <2>2
  <2>4. Keeps(hits, accepted, k)' <=>
          /\ s \in Seq(Stamp) /\ Ends(s, a)
          /\ \A i \in 1..(Len(a) - Len(s)) :
                \/ \A l \in Limits(k) : now' - a[i] > Window(l)
                \/ Crowded(accepted', k, a[i])
    BY DEF Keeps, Stamps, Ends, Crowded, Since, LastStamp, Expired
  <2> QED
    BY <2>1, <2>3, <2>4
<1> QED
  BY <1>2 DEF KeptIn

\* The counts that Fits compares are numbers, before and after a step.
LEMMA CountTypes ==
  ASSUME TypeOK, accepted' \in [Key -> Seq(Stamp)],
         NEW c \in ContactClient, NEW l \in ContactLimits, NEW t \in Stamp
  PROVE  /\ Cardinality(Within(accepted[ContactKey(c)], l, t)) \in Nat
         /\ Cardinality(Within(accepted'[ContactKey(c)], l, t)) \in Nat
         /\ Cardinality(Pending(c)) \in Nat
         /\ Pending(c)' \subseteq Request
         /\ Cardinality(Pending(c)') \in Nat
         /\ Cardinality(Pending(c)') <= Cardinality(Request)
         /\ Cardinality(Request) \in Nat
         /\ l.max_events \in Nat \ {0} /\ Window(l) \in Nat
         /\ now \in Nat /\ t \in Nat
<1>1. /\ accepted[ContactKey(c)] \in Seq(Stamp)
      /\ accepted'[ContactKey(c)] \in Seq(Stamp)
  BY KeyLimits DEF TypeOK, Stamp
<1>2. Pending(c) \subseteq Request /\ Pending(c)' \subseteq Request
  BY DEF Pending
<1>3. now \in Nat /\ t \in Nat
  BY RelayAssumption DEF TypeOK, Stamp
<1> QED
  BY <1>1, <1>2, <1>3, WithinIsFinite, PendingIsFinite, LimitTypes

\* What Fits says after a step.
LEMMA FitsNext ==
  ASSUME NEW c, NEW l, NEW t
  PROVE  LET n == Cardinality(Within(accepted'[ContactKey(c)], l, t))
             bound == l.max_events + Cardinality(Request) - 1
         IN  Fits(c, l, t)'
               <=> /\ n <= bound
                   /\ now' < t + Window(l)
                         => n + Cardinality(Pending(c)') <= bound
  BY DEF Fits, Within, ContactKey

\* Nothing is recorded for an address and no submission of it is added.
LEMMA StillFits ==
  ASSUME TypeOK, accepted' \in [Key -> Seq(Stamp)], now' \in Nat, now <= now',
         NEW c \in ContactClient, NEW l \in ContactLimits, NEW t \in Stamp,
         Fits(c, l, t),
         accepted'[ContactKey(c)] = accepted[ContactKey(c)],
         Pending(c)' \subseteq Pending(c)
  PROVE  Fits(c, l, t)'
<1> DEFINE n == Cardinality(Within(accepted[ContactKey(c)], l, t))
           m == Cardinality(Within(accepted'[ContactKey(c)], l, t))
           p == Cardinality(Pending(c))
           q == Cardinality(Pending(c)')
           bound == l.max_events + Cardinality(Request) - 1
<1>1. m = n /\ n \in Nat /\ p \in Nat /\ q \in Nat /\ bound \in Nat
  BY CountTypes
<1>2. q <= p
  BY PendingIsFinite DEF Pending
<1>3. n <= bound /\ (now < t + Window(l) => n + p <= bound)
  BY DEF Fits
<1>4. Window(l) \in Nat /\ now \in Nat /\ t \in Nat
  BY CountTypes
<1>5. Fits(c, l, t)'
        <=> m <= bound /\ (now' < t + Window(l) => m + q <= bound)
  BY FitsNext
<1> HIDE DEF n, m, p, q, bound
<1> QED
  BY <1>1, <1>2, <1>3, <1>4, <1>5

\* An admitted submission goes to the server.
LEMMA SendingFits ==
  ASSUME TypeOK, accepted' \in [Key -> Seq(Stamp)], now' = now,
         NEW c \in ContactClient, NEW l \in ContactLimits, NEW t \in Stamp,
         Fits(c, l, t),
         accepted'[ContactKey(c)] = accepted[ContactKey(c)],
         now < t + Window(l)
            => Cardinality(Within(accepted[ContactKey(c)], l, t)) < l.max_events
  PROVE  Fits(c, l, t)'
<1> DEFINE n == Cardinality(Within(accepted[ContactKey(c)], l, t))
           m == Cardinality(Within(accepted'[ContactKey(c)], l, t))
           q == Cardinality(Pending(c)')
           R == Cardinality(Request)
           bound == l.max_events + R - 1
<1>1. m = n /\ n \in Nat /\ q \in Nat /\ R \in Nat /\ q <= R /\ l.max_events \in Nat
  BY CountTypes
<1>2. n <= bound
  BY DEF Fits
<1>3. Fits(c, l, t)'
        <=> m <= bound /\ (now' < t + Window(l) => m + q <= bound)
  BY FitsNext
<1>4. now' < t + Window(l) => n < l.max_events
  OBVIOUS
<1> HIDE DEF n, m, q, R
<1> QED
  BY <1>1, <1>2, <1>3, <1>4

\* An event of an address is recorded.
LEMMA RecordFits ==
  ASSUME TypeOK, accepted' \in [Key -> Seq(Stamp)], now' = now,
         NEW c \in ContactClient, NEW l \in ContactLimits, NEW t \in Stamp,
         Fits(c, l, t),
         accepted'[ContactKey(c)] = Append(accepted[ContactKey(c)], now),
         now < t + Window(l)
            => Cardinality(Within(accepted[ContactKey(c)], l, t))
                 + Cardinality(Pending(c)') + 1
                    <= l.max_events + Cardinality(Request) - 1
  PROVE  Fits(c, l, t)'
<1> DEFINE a == accepted[ContactKey(c)]
           n == Cardinality(Within(a, l, t))
           m == Cardinality(Within(accepted'[ContactKey(c)], l, t))
           q == Cardinality(Pending(c)')
           bound == l.max_events + Cardinality(Request) - 1
<1>1. a \in Seq(Stamp) /\ now \in Stamp
  BY KeyLimits DEF TypeOK, Stamp
<1>2. m <= n + 1 /\ (~(now < t + Window(l)) => m = n)
  <2>1. m = Cardinality(Within(Append(a, now), l, t))
    OBVIOUS
  <2> HIDE DEF a, m
  <2> QED
    BY <1>1, <2>1, WithinAppended
<1>3. m \in Nat /\ n \in Nat /\ q \in Nat /\ bound \in Nat
  <2>1. m \in Nat /\ n \in Nat /\ q \in Nat
    BY CountTypes
  <2>2. l.max_events \in Nat \ {0} /\ Cardinality(Request) \in Nat
    BY CountTypes
  <2> QED
    BY <2>1, <2>2
<1>4. n <= bound
  BY DEF Fits
<1>5. Fits(c, l, t)'
        <=> m <= bound /\ (now' < t + Window(l) => m + q <= bound)
  BY FitsNext
<1>6. now' < t + Window(l) => n + q + 1 <= bound
  OBVIOUS
<1> HIDE DEF n, m, q, bound
<1> QED
  BY <1>2, <1>3, <1>4, <1>5, <1>6

\* Every window fits after a step if it did before, or others have crowded
\* its address out.
LEMMA LimitKept ==
  ASSUME LimitInv,
         \A j \in Key : /\ LastStamp(accepted[j]) <= LastStamp(accepted'[j])
                         /\ LastStamp(accepted[j]) \in Nat
                         /\ LastStamp(accepted'[j]) \in Nat,
         \A c \in ContactClient, l \in ContactLimits, t \in Stamp :
            Fits(c, l, t) /\ ~Crowded(accepted, ContactKey(c), t) => Fits(c, l, t)'
  PROVE  LimitInv'
<1>1. ASSUME NEW c \in ContactClient, NEW l \in ContactLimits, NEW t \in Stamp
      PROVE  Fits(c, l, t)' \/ Crowded(accepted', ContactKey(c), t)
  <2>1. CASE Crowded(accepted, ContactKey(c), t)
    BY <2>1, CrowdGrows, RelayAssumption DEF Stamp
  <2>2. CASE ~Crowded(accepted, ContactKey(c), t)
    BY <2>2 DEF LimitInv, Stamp
  <2> QED
    BY <2>1, <2>2
<1>2. ASSUME NEW c \in ContactClient, NEW t \in Stamp
      PROVE  Crowded(accepted', ContactKey(c), t) => Crowded(accepted, ContactKey(c), t)'
  BY DEF Crowded, Since, LastStamp, ContactKey, Key
<1>3. ASSUME NEW c \in ContactClient, NEW l \in ContactLimits, NEW t \in Stamp
      PROVE  Fits(c, l, t)' \/ Crowded(accepted, ContactKey(c), t)'
  BY <1>1, <1>2
<1> QED
  BY <1>3 DEF LimitInv, Stamp, ContactLimits

\* No request and no event is added; the clock may go on.
LEMMA QuietKept ==
  ASSUME IInv, UNCHANGED accepted, now' \in Nat, now <= now',
         \A c \in ContactClient : Pending(c)' \subseteq Pending(c)
  PROVE  LimitInv'
<1>1. TypeOK /\ LimitInv /\ accepted \in [Key -> Seq(Stamp)]
  BY DEF IInv, TypeOK, Stamp
<1>2. \A j \in Key : LastStamp(accepted[j]) \in Nat
  BY <1>1, LastStampTypes
<1>3. \A c \in ContactClient, l \in ContactLimits, t \in Stamp :
         Fits(c, l, t) => Fits(c, l, t)'
  BY <1>1, StillFits
<1> QED
  BY <1>1, <1>2, <1>3, LimitKept

\* The table and the events after a record.
LEMMA RecordStep ==
  ASSUME IInv, NEW h, KeptIn(h, accepted), NEW k \in Key, Record(h, k), now' = now
  PROVE  /\ accepted' \in [Key -> Seq(Stamp)]
         /\ OrderInv'
         /\ KeptIn(hits, accepted)'
         /\ \A j \in Key : /\ LastStamp(accepted[j]) <= LastStamp(accepted'[j])
                            /\ LastStamp(accepted[j]) \in Nat
                            /\ LastStamp(accepted'[j]) \in Nat
<1>1. /\ accepted \in [Key -> Seq(Stamp)] /\ now \in Stamp /\ now \in Nat
      /\ \A j \in Key : \A i \in 1..Len(accepted[j]) : accepted[j][i] <= now
      /\ \A j \in Key : \A m, n \in 1..Len(accepted[j]) :
            m <= n => accepted[j][m] <= accepted[j][n]
  BY RelayAssumption DEF IInv, TypeOK, OrderInv, Stamp
<1>2. hits' \in Recorded(h, k) /\ accepted' = [accepted EXCEPT ![k] = Append(@, now)]
  BY DEF Record
<1>3. /\ KeptIn(hits', accepted') /\ accepted' \in [Key -> Seq(Stamp)]
      /\ \A j \in Key : \A i \in 1..Len(accepted'[j]) : accepted'[j][i] <= now
      /\ \A j \in Key : \A m, n \in 1..Len(accepted'[j]) :
            m <= n => accepted'[j][m] <= accepted'[j][n]
  BY <1>1, <1>2, RecordKeeps
<1>4. KeptIn(hits, accepted)'
  BY <1>1, <1>3, KeptLater
<1>5. \A j \in Key : /\ LastStamp(accepted[j]) <= LastStamp(accepted'[j])
                     /\ LastStamp(accepted[j]) \in Nat
                     /\ LastStamp(accepted'[j]) \in Nat
  BY <1>1, <1>2, AppendGrows
<1> QED
  BY <1>3, <1>4, <1>5 DEF OrderInv

\* The table and the events when nothing is recorded.
LEMMA QuietStep ==
  ASSUME IInv, KeptIn(hits', accepted), UNCHANGED accepted,
         now' \in Nat, now <= now'
  PROVE  /\ accepted' \in [Key -> Seq(Stamp)]
         /\ OrderInv'
         /\ KeptIn(hits, accepted)'
<1>1. /\ accepted' \in [Key -> Seq(Stamp)] /\ now \in Nat
      /\ \A j \in Key : \A i \in 1..Len(accepted[j]) :
            accepted[j][i] \in Nat /\ accepted[j][i] <= now
      /\ \A j \in Key : \A m, n \in 1..Len(accepted[j]) :
            m <= n => accepted[j][m] <= accepted[j][n]
  BY RelayAssumption DEF IInv, TypeOK, OrderInv, Stamp
<1>2. \A j \in Key : \A i \in 1..Len(accepted[j]) : accepted[j][i] <= now'
  BY <1>1
<1>3. KeptIn(hits, accepted)'
  BY <1>1, KeptLater
<1> QED
  BY <1>1, <1>2, <1>3 DEF OrderInv

\* The types of the table follow from what it has kept.
LEMMA TypesNext ==
  ASSUME KeptIn(hits, accepted)', accepted' \in [Key -> Seq(Stamp)],
         now' \in Stamp, phase' \in [Request -> Phase],
         client' \in [Request -> ContactClient],
         delivered' \in [Request -> BOOLEAN], restarts' \in 0..MaxRestarts
  PROVE  TypeOK'
<1>1. DOMAIN hits' \subseteq Key /\ \A k \in DOMAIN hits' : hits'[k] \in Seq(Stamp)
  BY DEF KeptIn, Keeps, Stamps
<1> QED
  BY <1>1 DEF TypeOK, Stamp

\* The checks before a submission is answered or sent keep the table.
LEMMA CheckStep ==
  ASSUME IInv, NEW k \in Key
  PROVE  KeptIn(Checked(hits, k, Limits(k)), accepted)
BY CheckKeeps DEF IInv, TypeOK, Stamp

LEMMA SubmitStep ==
  ASSUME IInv, NEW r \in Request, NEW c \in ContactClient, Submit(r, c)
  PROVE  IInv'
<1> DEFINE k == ContactKey(c)
           h == Checked(hits, k, ContactLimits)
<1>1. /\ k \in Key /\ KeptIn(h, accepted) /\ accepted \in [Key -> Seq(Stamp)]
      /\ now \in Stamp /\ now \in Nat
  BY KeyLimits, CheckStep, RelayAssumption DEF IInv, TypeOK, Stamp
<1>2. /\ ~InFlight(r) /\ now' = now /\ restarts' = restarts
      /\ client' = [client EXCEPT ![r] = c]
      /\ delivered' = [delivered EXCEPT ![r] = FALSE]
  BY DEF Submit
<1>3. /\ client \in [Request -> ContactClient] /\ phase \in [Request -> Phase]
      /\ delivered \in [Request -> BOOLEAN] /\ restarts \in 0..MaxRestarts
      /\ TypeOK /\ LimitInv
  BY DEF IInv, TypeOK
<1>4. \A d \in ContactClient : r \notin Pending(d)
  BY <1>2 DEF Pending
<1>5. ASSUME NEW p \in Phase, phase' = [phase EXCEPT ![r] = p],
             KeptIn(hits, accepted)', accepted' \in [Key -> Seq(Stamp)]
      PROVE  /\ TypeOK'
             /\ \A d \in ContactClient :
                   /\ Pending(d)' \subseteq Pending(d) \cup {r}
                   /\ d # c \/ p \in Answered => Pending(d)' \subseteq Pending(d)
  <2>1. TypeOK'
    BY <1>1, <1>2, <1>3, <1>5, TypesNext
  <2>2. \A q \in Request : q # r => phase'[q] = phase[q] /\ client'[q] = client[q]
    BY <1>2, <1>3, <1>5
  <2>3. phase'[r] = p /\ client'[r] = c
    BY <1>2, <1>3, <1>5
  <2> QED
    BY <2>1, <2>2, <2>3 DEF Pending, InFlight
<1>6. CASE /\ \E p \in {"limited", "rejected"} : phase' = [phase EXCEPT ![r] = p]
           /\ hits' = h /\ accepted' = accepted
  <2>1. /\ accepted' \in [Key -> Seq(Stamp)] /\ OrderInv' /\ KeptIn(hits, accepted)'
    BY <1>1, <1>2, <1>6, QuietStep
  <2>2. TypeOK' /\ \A d \in ContactClient : Pending(d)' \subseteq Pending(d)
    BY <1>5, <1>6, <2>1 DEF Phase, Answered
  <2>3. LimitInv'
    BY <1>1, <1>2, <1>6, <2>2, QuietKept
  <2> QED
    BY <2>1, <2>2, <2>3 DEF IInv
<1>7. CASE /\ phase' = [phase EXCEPT ![r] = "sending"]
           /\ ~Refused(hits, k, ContactLimits)
           /\ hits' = h /\ accepted' = accepted
  <2>1. /\ accepted' \in [Key -> Seq(Stamp)] /\ OrderInv' /\ KeptIn(hits, accepted)'
    BY <1>1, <1>2, <1>7, QuietStep
  <2>2. /\ TypeOK'
        /\ \A d \in ContactClient : d # c => Pending(d)' \subseteq Pending(d)
    BY <1>5, <1>7, <2>1 DEF Phase
  <2>3. ASSUME NEW d \in ContactClient, NEW l \in ContactLimits, NEW t \in Stamp,
               Fits(d, l, t), ~Crowded(accepted, ContactKey(d), t)
        PROVE  Fits(d, l, t)'
    <3>1. CASE d # c
      BY <1>1, <1>2, <1>3, <1>7, <2>1, <2>2, <2>3, <3>1, StillFits
    <3>2. CASE d = c
      <4>1. now < t + Window(l)
               => Cardinality(Within(accepted[ContactKey(d)], l, t)) < l.max_events
        BY <1>7, <2>3, <3>2, AdmittedFindsRoom
      <4> QED
        BY <1>2, <1>3, <1>7, <2>1, <2>3, <4>1, SendingFits
    <3> QED
      BY <3>1, <3>2
  <2>4. \A j \in Key : /\ LastStamp(accepted[j]) <= LastStamp(accepted'[j])
                       /\ LastStamp(accepted[j]) \in Nat
                       /\ LastStamp(accepted'[j]) \in Nat
    BY <1>1, <1>7, LastStampTypes
  <2>5. LimitInv'
    BY <1>3, <2>3, <2>4, LimitKept
  <2> QED
    BY <2>1, <2>2, <2>5 DEF IInv
<1>8. CASE /\ phase' = [phase EXCEPT ![r] = "trapped"]
           /\ ~Refused(hits, k, ContactLimits)
           /\ Record(h, k)
  <2>1. /\ accepted' \in [Key -> Seq(Stamp)] /\ OrderInv' /\ KeptIn(hits, accepted)'
        /\ \A j \in Key : /\ LastStamp(accepted[j]) <= LastStamp(accepted'[j])
                           /\ LastStamp(accepted[j]) \in Nat
                           /\ LastStamp(accepted'[j]) \in Nat
    BY <1>1, <1>2, <1>8, RecordStep
  <2>2. TypeOK' /\ \A d \in ContactClient : Pending(d)' \subseteq Pending(d)
    BY <1>5, <1>8, <2>1 DEF Phase, Answered
  <2>3. ASSUME NEW d \in ContactClient, NEW l \in ContactLimits, NEW t \in Stamp,
               Fits(d, l, t), ~Crowded(accepted, ContactKey(d), t)
        PROVE  Fits(d, l, t)'
    <3>1. CASE d # c
      <4>1. ContactKey(d) # k /\ ContactKey(d) \in Key
        BY <3>1, KeyLimits DEF ContactKey
      <4>2. accepted'[ContactKey(d)] = accepted[ContactKey(d)]
        BY <1>1, <1>8, <4>1 DEF Record
      <4> QED
        BY <1>1, <1>2, <1>3, <2>1, <2>2, <2>3, <4>2, StillFits
    <3>2. CASE d = c
      <4>1. now < t + Window(l)
               => Cardinality(Within(accepted[ContactKey(d)], l, t)) < l.max_events
        BY <1>8, <2>3, <3>2, AdmittedFindsRoom
      <4>2. Cardinality(Pending(d)') <= Cardinality(Request) - 1
        <5>1. Pending(d)' \subseteq Request \ {r}
          BY <1>4, <2>2 DEF Pending
        <5>2. Cardinality(Request \ {r}) = Cardinality(Request) - 1
          BY PendingIsFinite
        <5>3. Cardinality(Pending(d)') <= Cardinality(Request \ {r})
          BY <5>1, PendingIsFinite
        <5> QED
          BY <5>2, <5>3
      <4>3. accepted'[ContactKey(d)] = Append(accepted[ContactKey(d)], now)
        BY <1>1, <1>8, <3>2 DEF Record
      <4>4. now < t + Window(l)
              => Cardinality(Within(accepted[ContactKey(d)], l, t))
                   + Cardinality(Pending(d)') + 1
                      <= l.max_events + Cardinality(Request) - 1
        <5> DEFINE n == Cardinality(Within(accepted[ContactKey(d)], l, t))
                   q == Cardinality(Pending(d)')
                   R == Cardinality(Request)
        <5>1. n \in Nat /\ q \in Nat /\ R \in Nat
          BY <1>3, <2>1, CountTypes
        <5>2. l.max_events \in Nat
          BY LimitTypes
        <5>3. (now < t + Window(l) => n < l.max_events) /\ q <= R - 1
          BY <4>1, <4>2
        <5> HIDE DEF n, q, R
        <5>4. now < t + Window(l) => n + q + 1 <= l.max_events + R - 1
          BY <5>1, <5>2, <5>3
        <5> QED
          BY <5>4 DEF n, q, R
      <4> QED
        BY <1>2, <1>3, <2>1, <2>3, <4>3, <4>4, RecordFits
    <3> QED
      BY <3>1, <3>2
  <2>4. LimitInv'
    BY <1>3, <2>1, <2>3, LimitKept
  <2> QED
    BY <2>1, <2>2, <2>4 DEF IInv
<1> QED
  BY <1>6, <1>7, <1>8 DEF Submit

LEMMA RecordSentStep ==
  ASSUME IInv, NEW r \in Request, RecordSent(r)
  PROVE  IInv'
<1> DEFINE c == client[r]
           k == ContactKey(c)
<1>1. /\ phase[r] = "closing" /\ phase' = [phase EXCEPT ![r] = "sent"]
      /\ Record(hits, k) /\ now' = now
      /\ UNCHANGED <<client, delivered, restarts>>
  BY DEF RecordSent
<1>2. /\ client \in [Request -> ContactClient] /\ phase \in [Request -> Phase]
      /\ delivered \in [Request -> BOOLEAN] /\ restarts \in 0..MaxRestarts
      /\ now \in Stamp /\ now \in Nat
      /\ accepted \in [Key -> Seq(Stamp)]
      /\ TypeOK /\ LimitInv /\ KeptIn(hits, accepted)
  BY RelayAssumption DEF IInv, TypeOK, Stamp
<1>3. c \in ContactClient /\ k \in Key
  BY <1>2, KeyLimits
<1>4. /\ accepted' \in [Key -> Seq(Stamp)] /\ OrderInv' /\ KeptIn(hits, accepted)'
      /\ \A j \in Key : /\ LastStamp(accepted[j]) <= LastStamp(accepted'[j])
                         /\ LastStamp(accepted[j]) \in Nat
                         /\ LastStamp(accepted'[j]) \in Nat
  BY <1>1, <1>2, <1>3, RecordStep
<1>5. TypeOK'
  BY <1>1, <1>2, <1>4, TypesNext DEF Phase, Answered
<1>6. /\ \A d \in ContactClient : Pending(d)' \subseteq Pending(d)
      /\ r \in Pending(c) /\ r \notin Pending(c)'
  BY <1>1, <1>2 DEF Pending, InFlight, Answered, Phase
<1>7. ASSUME NEW d \in ContactClient, NEW l \in ContactLimits, NEW t \in Stamp,
             Fits(d, l, t)
      PROVE  Fits(d, l, t)'
  <2>1. CASE d # c
    <3>1. ContactKey(d) # k /\ ContactKey(d) \in Key
      BY <2>1, KeyLimits DEF ContactKey
    <3>2. accepted'[ContactKey(d)] = accepted[ContactKey(d)]
      BY <1>1, <1>2, <3>1 DEF Record
    <3> QED
      BY <1>1, <1>2, <1>4, <1>6, <1>7, <3>2, StillFits
  <2>2. CASE d = c
    <3> DEFINE n == Cardinality(Within(accepted[ContactKey(d)], l, t))
               p == Cardinality(Pending(d))
               q == Cardinality(Pending(d)')
               bound == l.max_events + Cardinality(Request) - 1
    <3>1. n \in Nat /\ p \in Nat /\ q \in Nat
      BY <1>2, <1>4, CountTypes
    <3>2. q <= p - 1
      <4>1. Pending(d)' \subseteq Pending(d) \ {r} /\ Pending(d) \subseteq Request
        BY <1>6, <2>2 DEF Pending
      <4>2. Cardinality(Pending(d) \ {r}) = p - 1
        BY <1>6, <2>2, <4>1, PendingIsFinite
      <4>3. q <= Cardinality(Pending(d) \ {r})
        BY <4>1, PendingIsFinite
      <4> QED
        BY <4>2, <4>3
    <3>3. now < t + Window(l) => n + p <= bound
      BY <1>7 DEF Fits
    <3>4. now < t + Window(l) => n + q + 1 <= bound
      <4>1. bound \in Int
        <5>1. l.max_events \in Nat /\ Cardinality(Request) \in Nat
          BY LimitTypes, PendingIsFinite
        <5> QED
          BY <5>1
      <4> HIDE DEF n, p, q, bound
      <4> QED
        BY <3>1, <3>2, <3>3, <4>1
    <3>5. accepted'[ContactKey(d)] = Append(accepted[ContactKey(d)], now)
      BY <1>1, <1>2, <1>3, <2>2 DEF Record
    <3> QED
      BY <1>1, <1>2, <1>4, <1>7, <3>4, <3>5, RecordFits
  <2> QED
    BY <2>1, <2>2
<1>8. LimitInv'
  BY <1>2, <1>4, <1>7, LimitKept
<1> QED
  BY <1>4, <1>5, <1>8 DEF IInv

\* The thread takes a step, or the await ends with an exception.
LEMMA ThreadStep ==
  ASSUME IInv, NEW r \in Request,
         Deliver(r) \/ DeliveryFails(r) \/ CloseFails(r)
  PROVE  IInv'
<1>1. /\ InFlight(r) /\ UNCHANGED <<now, hits, client, accepted, restarts>>
      /\ \E p \in {"closing", "undelivered"} : phase' = [phase EXCEPT ![r] = p]
      /\ delivered' \in {delivered, [delivered EXCEPT ![r] = TRUE]}
  BY DEF Deliver, DeliveryFails, CloseFails, InFlight, Answered
<1>2. /\ client \in [Request -> ContactClient] /\ phase \in [Request -> Phase]
      /\ delivered \in [Request -> BOOLEAN] /\ restarts \in 0..MaxRestarts
      /\ now \in Stamp /\ now \in Nat
      /\ KeptIn(hits, accepted)
  BY RelayAssumption DEF IInv, TypeOK, Stamp
<1>3. /\ accepted' \in [Key -> Seq(Stamp)] /\ OrderInv' /\ KeptIn(hits, accepted)'
  BY <1>1, <1>2, QuietStep
<1>4. /\ phase' \in [Request -> Phase] /\ delivered' \in [Request -> BOOLEAN]
  BY <1>1, <1>2 DEF Phase, Answered
<1>5. TypeOK'
  BY <1>1, <1>2, <1>3, <1>4, TypesNext
<1>6. \A d \in ContactClient : Pending(d)' \subseteq Pending(d)
  BY <1>1, <1>2 DEF Pending, InFlight
<1>7. LimitInv'
  BY <1>1, <1>2, <1>6, QuietKept
<1> QED
  BY <1>3, <1>5, <1>7 DEF IInv

\* Analytics events are no submissions.
LEMMA AnalyticsStep ==
  ASSUME IInv, NEW c \in AnalyticsClient, AnalyticsEvent(c)
  PROVE  IInv'
<1> DEFINE k == AnalyticsKey(c)
           h == Checked(hits, k, {ANALYTICS_PER_IP})
<1>1. /\ k \in Key /\ KeptIn(h, accepted) /\ accepted \in [Key -> Seq(Stamp)]
      /\ now \in Stamp /\ now \in Nat
  <2>1. k \in Key /\ Limits(k) = {ANALYTICS_PER_IP}
    BY KeyLimits
  <2>2. KeptIn(h, accepted)
    BY <2>1, CheckStep
  <2> QED
    BY <2>1, <2>2, RelayAssumption DEF IInv, TypeOK, Stamp
<1>2. UNCHANGED <<now, requestVars, restarts>>
  BY DEF AnalyticsEvent
<1>3. \A d \in ContactClient : Pending(d)' \subseteq Pending(d)
  BY <1>2 DEF Pending, InFlight, requestVars
<1>4. ASSUME KeptIn(hits, accepted)', accepted' \in [Key -> Seq(Stamp)]
      PROVE  TypeOK'
  BY <1>1, <1>2, <1>4, TypesNext DEF IInv, TypeOK, requestVars
<1>5. CASE hits' = h /\ accepted' = accepted
  <2>1. /\ accepted' \in [Key -> Seq(Stamp)] /\ OrderInv' /\ KeptIn(hits, accepted)'
    BY <1>1, <1>2, <1>5, QuietStep
  <2>2. LimitInv'
    BY <1>1, <1>2, <1>3, <1>5, QuietKept
  <2> QED
    BY <1>4, <2>1, <2>2 DEF IInv
<1>6. CASE Record(h, k)
  <2>1. /\ accepted' \in [Key -> Seq(Stamp)] /\ OrderInv' /\ KeptIn(hits, accepted)'
        /\ \A j \in Key : /\ LastStamp(accepted[j]) <= LastStamp(accepted'[j])
                           /\ LastStamp(accepted[j]) \in Nat
                           /\ LastStamp(accepted'[j]) \in Nat
    BY <1>1, <1>2, <1>6, RecordStep
  <2>2. ASSUME NEW d \in ContactClient
        PROVE  accepted'[ContactKey(d)] = accepted[ContactKey(d)]
    <3>1. ContactKey(d) # k /\ ContactKey(d) \in Key
      BY KeyLimits DEF ContactKey, AnalyticsKey
    <3> QED
      BY <1>1, <1>6, <3>1 DEF Record
  <2>3. \A d \in ContactClient, l \in ContactLimits, t \in Stamp :
           Fits(d, l, t) => Fits(d, l, t)'
    BY <1>1, <1>2, <1>3, <2>1, <2>2, StillFits DEF IInv
  <2>4. LimitInv'
    BY <2>1, <2>3, LimitKept DEF IInv
  <2> QED
    BY <1>4, <2>1, <2>4 DEF IInv
<1> QED
  BY <1>5, <1>6 DEF AnalyticsEvent

\* A restart forgets the events with the table.
LEMMA RestartStep == IInv /\ Restart => IInv'
<1> SUFFICES ASSUME IInv, Restart PROVE IInv'
  OBVIOUS
<1>1. \A k \in Key : accepted'[k] = <<>> /\ Stamps(hits', k) = <<>>
  BY DEF Restart, Stamps
<1>2. accepted' \in [Key -> Seq(Stamp)] /\ now \in Stamp /\ now \in Nat /\ now' = now
  BY RelayAssumption DEF IInv, TypeOK, Stamp, Restart
<1>3. OrderInv'
  BY <1>1 DEF OrderInv
<1>4. KeptIn(hits', accepted')
  <2>1. <<>> \in Seq(Stamp) /\ Len(<<>>) = 0 /\ Ends(<<>>, <<>>)
    BY DEF Ends
  <2>2. \A i \in 1..(Len(<<>>) - Len(<<>>)) : FALSE
    OBVIOUS
  <2>3. \A k \in Key : Keeps(hits', accepted', k)
    BY <1>1, <2>1, <2>2, Zenon DEF Keeps
  <2>4. DOMAIN hits' \subseteq Key
    BY DEF Restart
  <2> QED
    BY <2>3, <2>4 DEF KeptIn
<1>5. KeptIn(hits, accepted)'
  BY <1>2, <1>4, KeptLater
<1>6. TypeOK'
  <2>1. /\ phase' \in [Request -> Phase] /\ client' \in [Request -> ContactClient]
        /\ delivered' \in [Request -> BOOLEAN] /\ restarts' \in 0..MaxRestarts
    BY RelayAssumption DEF IInv, TypeOK, Restart, Phase, Answered
  <2> QED
    BY <1>2, <1>5, <2>1, TypesNext
<1>7. LimitInv'
  <2>1. ASSUME NEW c \in ContactClient, NEW l \in ContactLimits, NEW t \in Stamp
        PROVE  Fits(c, l, t)'
    <3>1. Within(accepted'[ContactKey(c)], l, t) = {}
      BY <1>1, KeyLimits DEF Within
    <3>2. Pending(c)' = {}
      BY DEF Restart, Pending, InFlight, Answered, IInv, TypeOK
    <3>3. l.max_events \in Nat \ {0} /\ Cardinality(Request) \in Nat
      BY LimitTypes, PendingIsFinite
    <3>4. /\ Cardinality(Within(accepted'[ContactKey(c)], l, t)) = 0
          /\ Cardinality(Pending(c)') = 0
      BY <3>1, <3>2, FS_EmptySet
    <3>5. 0 <= l.max_events + Cardinality(Request) - 1
      BY <3>3
    <3> QED
      BY <3>4, <3>5, FitsNext
  <2> QED
    BY <2>1 DEF LimitInv, Stamp, ContactLimits
<1> QED
  BY <1>3, <1>5, <1>6, <1>7 DEF IInv

\* The clock goes on, or nothing happens.
LEMMA TickStep == IInv /\ (Tick \/ UNCHANGED vars) => IInv'
<1> SUFFICES ASSUME IInv, Tick \/ UNCHANGED vars PROVE IInv'
  OBVIOUS
<1>1. /\ UNCHANGED <<hits, requestVars, accepted, restarts>>
      /\ now' \in Stamp /\ now' \in Nat /\ now <= now'
  BY RelayAssumption DEF Tick, vars, IInv, TypeOK, Stamp
<1>2. /\ accepted' \in [Key -> Seq(Stamp)] /\ OrderInv' /\ KeptIn(hits, accepted)'
  BY <1>1, QuietStep DEF IInv
<1>3. TypeOK'
  BY <1>1, <1>2, TypesNext DEF IInv, TypeOK, requestVars
<1>4. \A d \in ContactClient : Pending(d)' \subseteq Pending(d)
  BY <1>1 DEF Pending, InFlight, requestVars
<1>5. LimitInv'
  BY <1>1, <1>4, QuietKept
<1> QED
  BY <1>2, <1>3, <1>5 DEF IInv

LEMMA NextIInv == IInv /\ [Next]_vars => IInv'
BY SubmitStep, RecordSentStep, ThreadStep, AnalyticsStep, RestartStep, TickStep DEF Next

\* A table of stamps, submissions in flight and restarts never leave the
\* inductive invariant.
THEOREM Invariance == Spec => []IInv
BY InitIInv, NextIInv, PTL DEF Spec

-----------------------------------------------------------------------------
(* What follows from it.                                                   *)

\* The clock, the table, the requests and the events have their types.
THEOREM TypeCorrect == Spec => []TypeOK
<1>1. IInv => TypeOK
  BY DEF IInv
<1> QED
  BY Invariance, <1>1, PTL

\* No window of either limit of the contact form holds more recorded
\* submissions of an address than the limit and those that were in flight
\* when it was reached, unless the address was crowded out of the table.
THEOREM LimitsHold == Spec => []LimitsWithConcurrency
<1>1. IInv => LimitsWithConcurrency
  BY DEF IInv, LimitInv, Fits, Crowded, Since, LimitsWithConcurrency
<1> QED
  BY Invariance, <1>1, PTL

\* The latest event of an address is forgotten only when it no longer counts
\* or as many others as the table holds were recorded since.
THEOREM IdleForgotten == Spec => []ForgetsOnlyIdle
<1>1. IInv => ForgetsOnlyIdle
  <2> SUFFICES ASSUME IInv, NEW k \in Key, accepted[k] # <<>>
               PROVE  LET last == LastStamp(accepted[k]) IN
                      \/ \A l \in Limits(k) : last <= now - Window(l)
                      \/ LastStamp(Stamps(hits, k)) = last
                      \/ Crowded(accepted, k, last)
    BY DEF ForgetsOnlyIdle, Crowded, Since
  <2> DEFINE a == accepted[k]
             s == Stamps(hits, k)
  <2>1. /\ s \in Seq(Stamp) /\ Ends(s, a) /\ a \in Seq(Stamp)
        /\ \A i \in 1..(Len(a) - Len(s)) : Expired(k, a[i]) \/ Crowded(accepted, k, a[i])
    BY DEF IInv, TypeOK, KeptIn, Keeps, Stamp
  <2>2. CASE s # <<>>
    BY <2>1, <2>2, LastOfEnd
  <2>3. CASE s = <<>>
    <3>1. Len(a) \in 1..(Len(a) - Len(s)) /\ a[Len(a)] \in Nat
      BY <2>1, <2>3, RelayAssumption DEF Stamp
    <3>2. LastStamp(a) = a[Len(a)]
      BY DEF LastStamp
    <3>3. Expired(k, LastStamp(a)) \/ Crowded(accepted, k, LastStamp(a))
      BY <2>1, <3>1, <3>2
    <3>4. ASSUME Expired(k, LastStamp(a))
          PROVE  \A l \in Limits(k) : LastStamp(a) <= now - Window(l)
      <4>1. now \in Nat
        BY RelayAssumption DEF IInv, TypeOK
      <4> QED
        BY <3>1, <3>2, <3>4, <4>1, LimitTypes DEF Expired
    <3> QED
      BY <3>3, <3>4
  <2> QED
    BY <2>2, <2>3
<1> QED
  BY Invariance, <1>1, PTL

\* Only a check refuses a submission, and it records nothing.
LEMMA LimitedByCheck ==
  ASSUME IInv, [Next]_vars, NEW r \in Request,
         phase[r] # "limited", phase'[r] = "limited"
  PROVE  LET k == ContactKey(client'[r])
             h == Checked(hits, k, ContactLimits)
         IN  /\ k \in Key /\ hits' = h
             /\ Refused(hits, k, ContactLimits)
             /\ hits'[k] = Pruned(Stamps(hits, k), ContactLimits)
             /\ hits'[k] \in Seq(Stamp)
             /\ Ends(hits'[k], accepted[k])
<1>1. phase \in [Request -> Phase] /\ client \in [Request -> ContactClient]
  BY DEF IInv, TypeOK
<1>2. PICK q \in Request, c \in ContactClient : Submit(q, c)
  <2>1. ASSUME NEW q \in Request,
               Deliver(q) \/ DeliveryFails(q) \/ CloseFails(q) \/ RecordSent(q)
        PROVE  FALSE
    BY <1>1, <2>1 DEF Deliver, DeliveryFails, CloseFails, RecordSent
  <2>2. ASSUME \/ \E c \in AnalyticsClient : AnalyticsEvent(c)
               \/ Restart \/ Tick \/ UNCHANGED vars
        PROVE  FALSE
    BY <1>1, <2>2 DEF AnalyticsEvent, Restart, Tick, vars, requestVars
  <2> QED
    BY <2>1, <2>2 DEF Next
<1> DEFINE k == ContactKey(c)
           h == Checked(hits, k, ContactLimits)
<1>3. q = r /\ client'[r] = c
  BY <1>1, <1>2 DEF Submit
<1>4. hits' = h /\ Refused(hits, k, ContactLimits)
  BY <1>1, <1>2, <1>3 DEF Submit
<1>5. k \in Key /\ hits'[k] = Pruned(Stamps(hits, k), ContactLimits)
      /\ Stamps(h, k) = hits'[k]
  BY <1>4, KeyLimits DEF Checked, Put, Stamps
<1>6. KeptIn(h, accepted)
  BY <1>5, KeyLimits, CheckStep
<1>7. hits'[k] \in Seq(Stamp) /\ Ends(hits'[k], accepted[k])
  BY <1>5, <1>6 DEF KeptIn, Keeps
<1> QED
  BY <1>3, <1>4, <1>5, <1>7

\* An address is refused only if a submission of it was accepted within the
\* longer window: a refused submission does not extend its own penalty.
THEOREM NoSelfPenalty == Spec => RefusedOnlyAfterAccepted
<1>1. ASSUME IInv, [Next]_vars, NEW r \in Request,
             phase[r] # "limited", phase'[r] = "limited"
      PROVE  LastStamp(accepted[ContactKey(client'[r])])
                > now - Window(CONTACT_HOURLY)
  <2> DEFINE k == ContactKey(client'[r])
             s == hits'[k]
             a == accepted[k]
  <2>1. /\ k \in Key /\ Refused(hits, k, ContactLimits)
        /\ s = Pruned(Stamps(hits, k), ContactLimits)
        /\ s \in Seq(Stamp) /\ Ends(s, a)
    BY <1>1, LimitedByCheck
  <2>2. PICK l \in ContactLimits : Exceeded(s, l, now)
    BY <2>1 DEF Refused
  <2> HIDE DEF k
  <2>3. /\ Window(l) \in Nat /\ l.max_events \in Nat \ {0}
        /\ Window(l) <= Window(CONTACT_HOURLY)
        /\ Window(CONTACT_HOURLY) \in Nat
    BY RelayAssumption, WindowType, HourlyIsLongest DEF ContactLimits
  <2>4. Recent(s, l, now) # {}
    <3>1. Recent(s, l, now) = {} => Cardinality(Recent(s, l, now)) = 0
      BY FS_EmptySet
    <3> QED
      BY <2>2, <2>3, <3>1 DEF Exceeded
  <2>5. PICK i \in DOMAIN s : s[i] > now - Window(l)
    BY <2>4 DEF Recent
  <2>6. /\ a \in Seq(Stamp) /\ now \in Nat
        /\ \A m, n \in 1..Len(a) : m <= n => a[m] <= a[n]
    BY <1>1, <2>1, RelayAssumption DEF IInv, TypeOK, OrderInv, Stamp
  <2> HIDE DEF s, a
  <2>7. /\ i \in 1..Len(s) /\ s # <<>> /\ s[i] \in Nat
        /\ Len(s) \in Nat /\ Len(a) \in Nat /\ Len(s) <= Len(a)
    BY <2>1, <2>5, RelayAssumption DEF Ends, Stamp
  <2>8. /\ s[i] = a[Len(a) - Len(s) + i] /\ Len(a) - Len(s) + i \in 1..Len(a)
        /\ Len(a) \in 1..Len(a)
    BY <2>1, <2>7 DEF Ends
  <2>9. a # <<>> /\ LastStamp(a) = a[Len(a)] /\ a[Len(a)] \in Nat
    BY <2>6, <2>8, RelayAssumption DEF LastStamp, Stamp
  <2>10. s[i] <= LastStamp(a)
    <3>1. Len(a) - Len(s) + i <= Len(a)
      BY <2>7
    <3> QED
      BY <2>6, <2>8, <2>9, <3>1
  <2>11. LastStamp(a) > now - Window(CONTACT_HOURLY)
    BY <2>3, <2>5, <2>6, <2>7, <2>9, <2>10
  <2> QED
    BY <2>11 DEF a, k
<1>2. IInv /\ [Next]_vars
        => [\A r \in Request :
               phase[r] # "limited" /\ phase'[r] = "limited"
                  => LastStamp(accepted[ContactKey(client'[r])])
                        > now - Window(CONTACT_HOURLY)]_vars
  BY <1>1
<1> QED
  BY Invariance, <1>2, PTL DEF Spec, RefusedOnlyAfterAccepted

\* A set of numbers with an element has a least one.
LEMMA LeastNumber ==
  ASSUME NEW T, T \subseteq Nat, T # {}
  PROVE  \E m \in T : \A n \in T : m <= n
<1> DEFINE R == {ss \in Nat \X Nat : ss[1] < ss[2]}
<1>1. IsWellFoundedOn(R, Nat)
  BY NatLessThanWellFounded DEF OpToRel
<1>2. PICK m \in T : \A n \in T : ~(<<n, m>> \in R)
  <2> HIDE DEF R
  <2> QED
    BY <1>1, WFMin
<1>3. \A n \in T : m <= n
  <2>1. ASSUME NEW n \in T PROVE ~(n < m)
    BY <1>2
  <2> QED
    BY <2>1
<1> QED
  BY <1>2, <1>3

\* A quotient and its divisor bracket the dividend.
LEMMA Quotient ==
  ASSUME NEW a \in Nat, NEW b \in Nat \ {0}
  PROVE  /\ a \div b \in Nat
         /\ (a \div b) * b <= a
         /\ a < (a \div b + 1) * b
  OBVIOUS

\* The event that the wait is told from is the first that the limit counts,
\* and the wait misses the ticks until it leaves the window by less than one
\* second, and never passes them unless it was raised to one second.
LEMMA WaitIsCut ==
  ASSUME NEW s \in Seq(Stamp), NEW l \in RateLimit, now \in Stamp,
         Recent(s, l, now) # {}
  PROVE  \E i \in Recent(s, l, now) :
            /\ \A j \in Recent(s, l, now) : i <= j
            /\ RetryAfter(s, l) \in Nat
            /\ s[i] + Window(l) < now + (RetryAfter(s, l) + 1) * TicksPerSecond
            /\ RetryAfter(s, l) > 1
                  => now + RetryAfter(s, l) * TicksPerSecond <= s[i] + Window(l)
<1> DEFINE R == Recent(s, l, now)
           i == CHOOSE m \in R : \A j \in R : m <= j
           ticks == Window(l) - (now - s[i])
           seconds == ticks \div TicksPerSecond
           told == RetryAfter(s, l)
<1>1. /\ Window(l) \in Nat /\ l.max_events \in Nat \ {0} /\ now \in Nat
      /\ DOMAIN s = 1..Len(s) /\ Len(s) \in Nat /\ \A j \in DOMAIN s : s[j] \in Nat
      /\ TicksPerSecond \in Nat \ {0}
  BY RelayAssumption, ClockAssumption, WindowType DEF Stamp
<1>2. R \subseteq Nat
  BY <1>1 DEF Recent
<1>3. i \in R /\ \A j \in R : i <= j
  <2>0. R # {}
    OBVIOUS
  <2> HIDE DEF R
  <2>1. \E m \in R : \A j \in R : m <= j
    BY <1>2, <2>0, LeastNumber
  <2> QED
    BY <2>1
<1>4. told = IF seconds > 1 THEN seconds ELSE 1
  BY DEF RetryAfter
<1> HIDE DEF i
<1>5. i \in DOMAIN s /\ s[i] \in Nat /\ s[i] > now - Window(l)
  BY <1>1, <1>3 DEF Recent
<1>6. ticks \in Nat
  BY <1>1, <1>5
<1> HIDE DEF ticks
<1>7. /\ seconds \in Nat /\ seconds * TicksPerSecond <= ticks
      /\ ticks < (seconds + 1) * TicksPerSecond
  BY <1>1, <1>6, Quotient
<1> HIDE DEF seconds, told
<1>8. told \in Nat /\ seconds + 1 <= told + 1 /\ (told > 1 => told = seconds)
  BY <1>4, <1>7
<1>9. (seconds + 1) * TicksPerSecond <= (told + 1) * TicksPerSecond
  BY <1>1, <1>7, <1>8, ProductGrows
<1>10. /\ seconds * TicksPerSecond \in Nat
       /\ (seconds + 1) * TicksPerSecond \in Nat
       /\ (told + 1) * TicksPerSecond \in Nat
  BY <1>1, <1>7, <1>8, ProductGrows
<1>11. /\ s[i] + Window(l) < now + (told + 1) * TicksPerSecond
       /\ told > 1 => now + told * TicksPerSecond <= s[i] + Window(l)
  <2>1. ticks + now = s[i] + Window(l)
    BY <1>1, <1>5 DEF ticks
  <2>2. s[i] + Window(l) < now + (told + 1) * TicksPerSecond
    BY <1>1, <1>6, <1>7, <1>9, <1>10, <2>1
  <2>3. ASSUME told > 1 PROVE now + told * TicksPerSecond <= s[i] + Window(l)
    <3>1. told * TicksPerSecond = seconds * TicksPerSecond
      BY <1>8, <2>3
    <3> QED
      BY <1>1, <1>6, <1>7, <1>10, <2>1, <3>1
  <2> QED
    BY <2>2, <2>3
<1> QED
  BY <1>3, <1>8, <1>11 DEF told

\* When as many events as the limit permits are recent, one of them is not
\* once a moment has come by which it has left the window.
LEMMA WaitFreesRoom ==
  ASSUME NEW s \in Seq(Stamp), NEW l \in RateLimit, now \in Stamp,
         Cardinality(Recent(s, l, now)) = l.max_events,
         NEW i \in Recent(s, l, now), NEW later \in Nat,
         now <= later, s[i] + Window(l) <= later
  PROVE  ~Exceeded(s, l, later)
<1> DEFINE R == Recent(s, l, now)
           Q == Recent(s, l, later)
<1>1. /\ Window(l) \in Nat /\ l.max_events \in Nat \ {0} /\ now \in Nat
      /\ DOMAIN s = 1..Len(s) /\ Len(s) \in Nat /\ \A j \in DOMAIN s : s[j] \in Nat
  BY RelayAssumption, WindowType DEF Stamp
<1>2. R \subseteq 1..Len(s) /\ IsFiniteSet(R)
  <2>1. R \subseteq 1..Len(s)
    BY <1>1 DEF Recent
  <2> QED
    BY <1>1, <2>1, CountTo, FS_Subset
<1>3. s[i] \in Nat /\ i \in DOMAIN s
  BY <1>1 DEF Recent
<1>4. Q \subseteq R \ {i}
  <2>1. ASSUME NEW j \in Q PROVE j \in R /\ j # i
    <3>1. j \in DOMAIN s /\ s[j] > later - Window(l) /\ s[j] \in Nat
      BY <1>1 DEF Recent
    <3>2. s[j] > now - Window(l)
      BY <1>1, <3>1
    <3>3. s[j] > s[i]
      BY <1>1, <1>3, <3>1
    <3> QED
      BY <1>3, <3>1, <3>2, <3>3 DEF Recent
  <2> QED
    BY <2>1
<1>5. Cardinality(Q) <= Cardinality(R) - 1 /\ Cardinality(Q) \in Nat
  <2> HIDE DEF R, Q
  <2>1. i \in R
    BY DEF R
  <2>2. IsFiniteSet(R \ {i}) /\ Cardinality(R \ {i}) = Cardinality(R) - 1
    BY <1>2, <2>1, FS_RemoveElement
  <2> QED
    BY <1>4, <2>2, FS_Subset, FS_CardinalityType
<1>6. ~(Cardinality(Q) >= l.max_events)
  BY <1>1, <1>5
<1> QED
  BY <1>6 DEF Exceeded

\* While the first event that a full limit counts stays in its window, so do
\* the later ones, and the limit stays full.
LEMMA FullUntilFirstLeaves ==
  ASSUME NEW s \in Seq(Stamp), NEW l \in RateLimit, now \in Stamp,
         \A m, n \in 1..Len(s) : m <= n => s[m] <= s[n],
         Exceeded(s, l, now),
         NEW i \in Recent(s, l, now), \A j \in Recent(s, l, now) : i <= j,
         NEW later \in Nat, later < s[i] + Window(l)
  PROVE  Exceeded(s, l, later)
<1> DEFINE R == Recent(s, l, now)
           Q == Recent(s, l, later)
<1>1. /\ Window(l) \in Nat /\ l.max_events \in Nat \ {0} /\ now \in Nat
      /\ DOMAIN s = 1..Len(s) /\ Len(s) \in Nat /\ \A j \in DOMAIN s : s[j] \in Nat
  BY RelayAssumption, WindowType DEF Stamp
<1>2. i \in 1..Len(s) /\ s[i] \in Nat
  BY <1>1 DEF Recent
<1>3. R \subseteq Q
  <2>1. ASSUME NEW j \in R PROVE j \in Q
    <3>1. j \in 1..Len(s) /\ i <= j /\ s[j] \in Nat
      BY <1>1 DEF Recent
    <3>2. s[i] <= s[j]
      BY <1>2, <3>1
    <3>3. s[j] > later - Window(l)
      BY <1>1, <1>2, <3>1, <3>2
    <3> QED
      BY <1>1, <3>1, <3>3 DEF Recent
  <2> QED
    BY <2>1
<1>4. IsFiniteSet(Q)
  <2>1. Q \subseteq 1..Len(s)
    BY <1>1 DEF Recent
  <2> QED
    BY <1>1, <2>1, CountTo, FS_Subset
<1>5. /\ Cardinality(R) <= Cardinality(Q)
      /\ Cardinality(R) \in Nat /\ Cardinality(Q) \in Nat
  <2> HIDE DEF R, Q
  <2> QED
    BY <1>3, <1>4, FS_Subset, FS_CardinalityType
<1> QED
  BY <1>1, <1>5 DEF Exceeded

\* The wait that a refused caller is told is right to within the second that
\* its truncation costs: less than a second after it the limit that refused
\* the caller has cleared, if nothing was recorded in the meantime and the
\* limit was not overrun, and before it, if it is more than the least, not.
THEOREM WaitWithinSecond == Spec => WaitClearsLimit
<1>1. ASSUME IInv, [Next]_vars, NEW r \in Request,
             phase[r] # "limited", phase'[r] = "limited"
      PROVE  LET s == hits'[ContactKey(client'[r])]
                 first == Refusing(s)
                 told == RetryAfter(s, first)
             IN  /\ Cardinality(Recent(s, first, now)) = first.max_events
                       => ~Exceeded(s, first,
                                    now + (told + 1) * TicksPerSecond - 1)
                 /\ told > 1
                       => Exceeded(s, first, now + told * TicksPerSecond - 1)
  <2> DEFINE k == ContactKey(client'[r])
             s == hits'[k]
             first == Refusing(s)
             told == RetryAfter(s, first)
             a == accepted[k]
  <2>1. /\ k \in Key /\ Refused(hits, k, ContactLimits)
        /\ s = Pruned(Stamps(hits, k), ContactLimits)
        /\ s \in Seq(Stamp) /\ Ends(s, a)
    BY <1>1, LimitedByCheck
  <2>2. now \in Stamp /\ now \in Nat /\ first \in RateLimit
        /\ TicksPerSecond \in Nat \ {0}
    BY <1>1, RelayAssumption, ClockAssumption
       DEF IInv, TypeOK, Stamp, Refusing
  <2>3. Exceeded(s, first, now)
    BY <2>1 DEF Refused, Refusing, ContactLimits
  <2>4. a \in Seq(Stamp) /\ \A m, n \in 1..Len(a) : m <= n => a[m] <= a[n]
    <3> HIDE DEF k
    <3> QED
      BY <1>1, <2>1 DEF IInv, TypeOK, OrderInv, Stamp
  <2> HIDE DEF s, first, a
  <2>5. \A m, n \in 1..Len(s) : m <= n => s[m] <= s[n]
    <3>1. ASSUME NEW m \in 1..Len(s), NEW n \in 1..Len(s), m <= n
          PROVE  s[m] <= s[n]
      <4>1. /\ s[m] = a[Len(a) - Len(s) + m] /\ s[n] = a[Len(a) - Len(s) + n]
            /\ Len(s) \in Nat /\ Len(a) \in Nat /\ Len(s) <= Len(a)
        BY <2>1, <2>4 DEF Ends
      <4>2. /\ Len(a) - Len(s) + m \in 1..Len(a)
            /\ Len(a) - Len(s) + n \in 1..Len(a)
            /\ Len(a) - Len(s) + m <= Len(a) - Len(s) + n
        BY <3>1, <4>1
      <4> QED
        BY <2>4, <4>1, <4>2
    <3> QED
      BY <3>1
  <2>6. Recent(s, first, now) # {}
    <3>1. Recent(s, first, now) = {} => Cardinality(Recent(s, first, now)) = 0
      BY FS_EmptySet
    <3>2. first.max_events \in Nat \ {0}
      BY <2>2, WindowType
    <3> QED
      BY <2>3, <3>1, <3>2 DEF Exceeded
  <2>7. PICK i \in Recent(s, first, now) :
           /\ \A j \in Recent(s, first, now) : i <= j
           /\ told \in Nat
           /\ s[i] + Window(first) < now + (told + 1) * TicksPerSecond
           /\ told > 1 => now + told * TicksPerSecond <= s[i] + Window(first)
    BY <2>1, <2>2, <2>6, WaitIsCut
  <2> HIDE DEF told
  <2>8. /\ s[i] \in Nat /\ Window(first) \in Nat
        /\ s[i] > now - Window(first)
    <3>1. i \in DOMAIN s /\ s[i] > now - Window(first)
      BY DEF Recent
    <3> QED
      BY <2>1, <2>2, <3>1, RelayAssumption, WindowType DEF Stamp
  <2>9. ASSUME Cardinality(Recent(s, first, now)) = first.max_events
        PROVE  ~Exceeded(s, first, now + (told + 1) * TicksPerSecond - 1)
    <3> DEFINE ticks == (told + 1) * TicksPerSecond
               later == now + ticks - 1
    <3>1. ticks \in Nat
      BY <2>2, <2>7, ProductGrows
    <3>2. s[i] + Window(first) < now + ticks
      BY <2>7
    <3> HIDE DEF ticks
    <3>3. later \in Nat /\ now <= later /\ s[i] + Window(first) <= later
      BY <2>2, <2>8, <3>1, <3>2
    <3>4. ~Exceeded(s, first, later)
      <4> HIDE DEF later
      <4> QED
        BY <2>1, <2>2, <2>9, <3>3, WaitFreesRoom
    <3> QED
      BY <3>4 DEF ticks
  <2>10. ASSUME told > 1
         PROVE  Exceeded(s, first, now + told * TicksPerSecond - 1)
    <3> DEFINE ticks == told * TicksPerSecond
               later == now + ticks - 1
    <3>1. ticks \in Nat /\ ticks >= 1
      <4>1. ticks \in Nat
        BY <2>2, <2>7, ProductGrows
      <4>2. 1 * TicksPerSecond <= ticks
        BY <2>2, <2>7, <2>10, ProductGrows
      <4> QED
        BY <2>2, <4>1, <4>2
    <3>2. now + ticks <= s[i] + Window(first)
      BY <2>7, <2>10
    <3> HIDE DEF ticks
    <3>3. later \in Nat /\ later < s[i] + Window(first)
      BY <2>2, <2>8, <3>1, <3>2
    <3>4. Exceeded(s, first, later)
      <4> HIDE DEF later
      <4> QED
        BY <2>1, <2>2, <2>3, <2>5, <2>7, <3>3, FullUntilFirstLeaves
    <3> QED
      BY <3>4 DEF ticks
  <2> QED
    BY <2>9, <2>10 DEF s, first, told
<1>2. IInv /\ [Next]_vars
        => [\A r \in Request :
               phase[r] # "limited" /\ phase'[r] = "limited" =>
                 LET s == hits'[ContactKey(client'[r])]
                     first == Refusing(s)
                     told == RetryAfter(s, first) IN
                 /\ Cardinality(Recent(s, first, now)) = first.max_events
                       => ~Exceeded(s, first,
                                    now + (told + 1) * TicksPerSecond - 1)
                 /\ told > 1
                       => Exceeded(s, first,
                                   now + told * TicksPerSecond - 1)]_vars
  BY <1>1
<1> QED
  BY Invariance, <1>2, PTL DEF Spec, WaitClearsLimit

=============================================================================
