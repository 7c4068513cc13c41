------------------------ MODULE LoginLimiterProofs ------------------------
(***************************************************************************)
(* Proofs about the login limiter, for any number of concurrent logins,    *)
(* any windows and any cap: what is refused, what may slip through, and    *)
(* that the purge decides nothing.                                         *)
(***************************************************************************)
EXTENDS LoginLimiter, TLAPS, FiniteSetTheorems, WellFoundedInduction

-----------------------------------------------------------------------------
(* The inductive invariant.                                                *)

\* The attempts that were admitted have room in the log.
Busy == {q \in Request : InFlight(q)}
RoomInv == Len(log) + Cardinality(Busy) <= MaxRows

\* A login lasts no longer than its latency, and no row is of the future.
TimeInv ==
    /\ \A r \in Request :
          InFlight(r) => began[r] <= now /\ now <= began[r] + MaxLatency
    /\ \A i \in Rows : log[i].at <= now

\* The purge takes only what is past the retention.
KeptInv == \A i \in Rows : log[i].at >= now - LOGIN_ATTEMPT_RETENTION => i \in kept

\* The logins that may still become failures of the window that begins at t.
Pending(t) ==
    {r \in Request : /\ phase[r] \in {"last", "test", "wrong"}
                     /\ t <= began[r]
                     /\ began[r] <= t + RATE_LIMIT_WINDOW}
CapInv ==
    \A t \in 0..MaxTime :
        Cardinality(FailuresWithin(t)) + Cardinality(Pending(t))
           <= RATE_LIMIT_MAX_ATTEMPTS + Cardinality(Request) - 1

\* The failures that the check of r has counted.
SeenBy(r) == InWindow(Failures(1..before[r]), began[r])
CountInv ==
    \A r \in Request :
        /\ before[r] <= Len(log)
        /\ phase[r] = "last" => /\ counted[r] = Cardinality(SeenBy(r))
                                /\ counted[r] > 0

\* A failure is recorded only after a wrong password was tested.
WrongInv ==
    /\ lastWrong <= now
    /\ \A r \in Request : phase[r] = "wrong" => lastWrong >= began[r]
    /\ \A i \in Failures(Rows) : lastWrong >= log[i].at

IInv ==
    /\ TypeOK
    /\ RoomInv
    /\ TimeInv
    /\ KeptInv
    /\ CapInv
    /\ CountInv
    /\ WrongInv
    /\ BackoffSpacing

-----------------------------------------------------------------------------
(* Arithmetic.                                                             *)

\* A bounded set of numbers has a largest one.
LEMMA Maximum ==
  ASSUME NEW S, S \subseteq Nat, S # {}, NEW b \in Nat, \A x \in S : x <= b
  PROVE  \E m \in S : \A x \in S : x <= m
<1> DEFINE T == {b - x : x \in S}
           Less == {p \in Nat \X Nat : p[1] < p[2]}
<1>1. T \subseteq Nat /\ T # {}
  <2>1. ASSUME NEW y \in T PROVE y \in Nat
    <3>1. PICK x \in S : y = b - x
      OBVIOUS
    <3> QED
      BY <3>1
  <2> QED
    BY <2>1
<1>2. IsWellFoundedOn(Less, Nat)
  <2>1. IsWellFoundedOn(OpToRel(<, Nat), Nat)
    BY NatLessThanWellFounded
  <2>2. Less = OpToRel(<, Nat)
    BY DEF OpToRel
  <2> QED
    BY <2>1, <2>2
<1> HIDE DEF Less
<1>3. PICK m \in T : \A y \in T : <<y, m>> \notin Less
  BY <1>1, <1>2, WFMin
<1>4. PICK x \in S : m = b - x
  BY <1>3
<1>5. ASSUME NEW y \in S PROVE y <= x
  <2>1. <<b - y, m>> \notin Less /\ b - y \in Nat /\ m \in Nat
    BY <1>1, <1>3
  <2>2. ~ (b - y < m)
    BY <2>1 DEF Less
  <2> QED
    BY <1>4, <2>2
<1> QED
  BY <1>5

LEMMA BackoffIsNat == ASSUME NEW n \in Nat PROVE Backoff(n) \in Nat
<1>1. IsFiniteSet(1..n) /\ Cardinality(1..n) = n
  BY FS_Interval
<1>2. IsFiniteSet(SUBSET (1..n)) /\ Cardinality(SUBSET (1..n)) = 2^Cardinality(1..n)
  BY <1>1, FS_SUBSET
<1>3. 2^n \in Nat
  BY <1>1, <1>2, FS_CardinalityType
<1> QED
  BY <1>3, LimiterAssumption DEF Backoff

-----------------------------------------------------------------------------
(* The sets that are counted.                                              *)

\* Every set of rows and every set of requests can be counted.
LEMMA Counting ==
  ASSUME TypeOK
  PROVE  /\ Rows = 1..Len(log) /\ Len(log) \in Nat
         /\ \A i \in Rows : log[i].at \in Nat /\ log[i].success \in BOOLEAN
         /\ \A S : S \subseteq Rows => IsFiniteSet(S) /\ Cardinality(S) \in Nat
         /\ \A S : S \subseteq Request => IsFiniteSet(S) /\ Cardinality(S) \in Nat
<1>1. Rows = 1..Len(log) /\ Len(log) \in Nat
  BY DEF TypeOK, Rows
<1>2. \A i \in Rows : log[i].at \in Nat /\ log[i].success \in BOOLEAN
  <2> DEFINE Row == [at : 0..MaxTime, success : BOOLEAN]
  <2>1. log \in Seq(Row)
    BY DEF TypeOK
  <2> HIDE DEF Row
  <2>2. \A i \in 1..Len(log) : log[i] \in Row
    BY <2>1
  <2> QED
    BY <1>1, <2>2, LimiterAssumption DEF Row
<1>3. IsFiniteSet(Rows)
  BY <1>1, FS_Interval
<1>4. \A S : S \subseteq Rows => IsFiniteSet(S) /\ Cardinality(S) \in Nat
  BY <1>3, FS_Subset, FS_CardinalityType
<1>5. \A S : S \subseteq Request => IsFiniteSet(S) /\ Cardinality(S) \in Nat
  BY LimiterAssumption, FS_Subset, FS_CardinalityType
<1> QED
  BY <1>1, <1>2, <1>4, <1>5

\* What the first query counts: all the failures of its window, purged or not.
LEMMA CountsAll ==
  ASSUME IInv, NEW t \in 0..MaxTime, t <= now, now <= t + MaxLatency
  PROVE  InWindow(Failures(kept), t) = InWindow(Failures(Rows), t)
<1>1. kept \subseteq Rows /\ now \in Nat
  BY LimiterAssumption DEF IInv, TypeOK, Rows
<1>2. ASSUME NEW i \in Rows, log[i].at >= t - RATE_LIMIT_WINDOW
      PROVE  i \in kept
  <2>1. log[i].at \in Nat
    BY Counting DEF IInv
  <2>2. log[i].at >= now - LOGIN_ATTEMPT_RETENTION
    BY <1>1, <1>2, <2>1, LimiterAssumption
  <2> QED
    BY <2>2 DEF IInv, KeptInv
<1> QED
  BY <1>1, <1>2 DEF InWindow, Failures

LEMMA RecentIsNat ==
  ASSUME IInv
  PROVE  /\ RecentFailures \in Nat
         /\ RecentFailures = Cardinality(InWindow(Failures(Rows), now))
         /\ RecentFailures = 0 <=> InWindow(Failures(Rows), now) = {}
<1>1. now \in 0..MaxTime /\ now <= now /\ now <= now + MaxLatency
  BY LimiterAssumption DEF IInv, TypeOK
<1>2. InWindow(Failures(kept), now) = InWindow(Failures(Rows), now)
  BY <1>1, CountsAll
<1>3. InWindow(Failures(Rows), now) \subseteq Rows
  BY DEF InWindow, Failures
<1>4. /\ IsFiniteSet(InWindow(Failures(Rows), now))
      /\ Cardinality(InWindow(Failures(Rows), now)) \in Nat
  BY <1>3, Counting DEF IInv
<1> QED
  BY <1>2, <1>4, FS_EmptySet DEF RecentFailures

-----------------------------------------------------------------------------
(* The steps.                                                              *)

LEMMA InitIInv == Init => IInv
<1> SUFFICES ASSUME Init PROVE IInv
  OBVIOUS
<1> USE LimiterAssumption DEF Init
<1>1. Rows = {} /\ Len(log) = 0
  BY DEF Rows
<1>2. TypeOK
  BY DEF TypeOK, Never, Phase, Answered
<1>3. \A r \in Request : ~InFlight(r)
  BY DEF InFlight, Answered
<1>4. Busy = {}
  BY <1>3 DEF Busy
<1>5. RoomInv
  BY <1>1, <1>4, FS_EmptySet DEF RoomInv
<1>6. TimeInv /\ KeptInv
  BY <1>1, <1>3 DEF TimeInv, KeptInv
<1>7. ASSUME NEW t \in 0..MaxTime
      PROVE  Cardinality(FailuresWithin(t)) = 0 /\ Cardinality(Pending(t)) = 0
  <2>1. FailuresWithin(t) = {} /\ Pending(t) = {}
    BY <1>1 DEF FailuresWithin, Failures, Pending
  <2> QED
    BY <2>1, FS_EmptySet
<1>8. CapInv
  BY <1>2, <1>7, Counting DEF CapInv
<1>9. CountInv /\ WrongInv /\ BackoffSpacing
  BY <1>1 DEF CountInv, WrongInv, BackoffSpacing, Failures, Never
<1> QED
  BY <1>2, <1>5, <1>6, <1>8, <1>9 DEF IInv

\* What the parts of the invariant see of the requests: a request that ends
\* is pending nowhere, and leaves the others as they were.
LEMMA FinishKeeps ==
  ASSUME IInv, NEW r \in Request, NEW answer \in Answered, Finish(r, answer),
         UNCHANGED <<now, limiterVars, lastWrong>>
  PROVE  IInv'
<1> USE LimiterAssumption DEF limiterVars
<1>1. \A q \in Request : q # r => /\ phase'[q] = phase[q] /\ began'[q] = began[q]
                                  /\ counted'[q] = counted[q] /\ before'[q] = before[q]
  BY DEF Finish, IInv, TypeOK
<1>2. phase'[r] = answer /\ before'[r] = 0
  BY DEF Finish, IInv, TypeOK
<1>3. TypeOK'
  BY DEF Finish, IInv, TypeOK, Phase
<1>4. Rows' = Rows
  BY DEF Rows
<1>5. Busy' \subseteq Busy
  BY <1>1, <1>2 DEF Busy, InFlight
<1>6. RoomInv'
  <2>1. Cardinality(Busy') <= Cardinality(Busy)
    BY <1>5, Counting, FS_Subset DEF IInv, Busy
  <2>2. Cardinality(Busy') \in Nat /\ Cardinality(Busy) \in Nat /\ Len(log) \in Nat
    BY <1>3, Counting DEF IInv, Busy
  <2> QED
    BY <2>1, <2>2 DEF IInv, RoomInv
<1>7. TimeInv' /\ KeptInv' /\ WrongInv'
  BY <1>1, <1>2, <1>4 DEF IInv, TimeInv, KeptInv, WrongInv, InFlight, Answered, Failures
<1>8. CapInv'
  <2>1. ASSUME NEW t \in 0..MaxTime
        PROVE  Cardinality(Pending(t)') <= Cardinality(Pending(t))
    <3>1. Pending(t)' \subseteq Pending(t)
      BY <1>1, <1>2 DEF Pending, Answered
    <3> QED
      BY <3>1, Counting, FS_Subset DEF IInv, Pending
  <2>2. \A t \in 0..MaxTime : FailuresWithin(t)' = FailuresWithin(t)
    BY <1>4 DEF FailuresWithin, Failures
  <2>3. \A t \in 0..MaxTime : /\ Cardinality(Pending(t)') \in Nat
                              /\ Cardinality(Pending(t)) \in Nat
                              /\ Cardinality(FailuresWithin(t)) \in Nat
    BY <1>3, Counting DEF IInv, Pending, FailuresWithin, Failures
  <2>4. Cardinality(Request) \in Nat
    BY Counting DEF IInv
  <2> QED
    BY <2>1, <2>2, <2>3, <2>4 DEF IInv, CapInv
<1>9. \A q \in Request : q # r => SeenBy(q)' = SeenBy(q)
  BY <1>1 DEF SeenBy, InWindow, Failures
<1>10. CountInv'
  BY <1>1, <1>2, <1>3, <1>9, Counting DEF IInv, CountInv, Answered
<1>11. BackoffSpacing'
  BY <1>1, <1>2, <1>9 DEF IInv, BackoffSpacing, SeenBy, Answered
<1> QED
  BY <1>3, <1>6, <1>7, <1>8, <1>10, <1>11 DEF IInv

\* A login is admitted by the first query: it may become a failure, but the
\* window that ends now held fewer than the cap.
LEMMA AdmitKeeps ==
  ASSUME IInv, NEW r \in Request, CountFailures(r), ~AtCap(RecentFailures)
  PROVE  IInv'
<1> USE LimiterAssumption DEF limiterVars
<1>1. /\ ~InFlight(r) /\ Len(log) + Cardinality(Busy) < MaxRows
      /\ phase' = [phase EXCEPT ![r] = IF RecentFailures = 0 THEN "test" ELSE "last"]
      /\ began' = [began EXCEPT ![r] = now]
      /\ counted' = [counted EXCEPT ![r] = RecentFailures]
      /\ before' = [before EXCEPT ![r] = Len(log)]
      /\ log' = log /\ kept' = kept /\ now' = now /\ lastWrong' = lastWrong
  BY DEF CountFailures, Busy
<1>2. /\ RecentFailures \in Nat /\ RecentFailures < RATE_LIMIT_MAX_ATTEMPTS
      /\ RecentFailures = Cardinality(InWindow(Failures(Rows), now))
      /\ RecentFailures = 0 <=> InWindow(Failures(Rows), now) = {}
  BY RecentIsNat DEF AtCap
<1>3. \A q \in Request : q # r => /\ phase'[q] = phase[q] /\ began'[q] = began[q]
                                  /\ counted'[q] = counted[q] /\ before'[q] = before[q]
  BY <1>1 DEF IInv, TypeOK
<1>4. /\ phase'[r] = IF RecentFailures = 0 THEN "test" ELSE "last"
      /\ began'[r] = now /\ counted'[r] = RecentFailures /\ before'[r] = Len(log)
  BY <1>1 DEF IInv, TypeOK
<1>5. TypeOK'
  BY <1>1, <1>2 DEF IInv, TypeOK, Phase
<1>6. Rows' = Rows /\ Rows = 1..Len(log) /\ Len(log) \in Nat
  BY <1>1, Counting DEF Rows, IInv
<1>7. RoomInv'
  <2>1. r \notin Busy /\ Busy' = Busy \cup {r}
    BY <1>1, <1>3, <1>4 DEF Busy, InFlight, Answered
  <2>2. Cardinality(Busy') = Cardinality(Busy) + 1 /\ Cardinality(Busy) \in Nat
    BY <2>1, Counting, FS_AddElement DEF IInv, Busy
  <2> QED
    BY <1>1, <1>6, <2>2 DEF RoomInv
<1>8. TimeInv' /\ KeptInv'
  BY <1>1, <1>3, <1>4, <1>5, <1>6 DEF IInv, TimeInv, KeptInv, InFlight, TypeOK
<1>9. WrongInv'
  BY <1>1, <1>3, <1>4, <1>6 DEF IInv, WrongInv, Failures
<1>10. SeenBy(r)' = InWindow(Failures(Rows), now)
  BY <1>1, <1>4, <1>6 DEF SeenBy, InWindow, Failures
<1>11. \A q \in Request : q # r => SeenBy(q)' = SeenBy(q)
  BY <1>1, <1>3 DEF SeenBy, InWindow, Failures
<1>12. CountInv'
  BY <1>1, <1>2, <1>3, <1>4, <1>6, <1>10, <1>11 DEF IInv, CountInv
<1>13. BackoffSpacing'
  <2>1. phase'[r] = "test" => SeenBy(r)' = {}
    BY <1>2, <1>4, <1>10
  <2>2. ASSUME NEW q \in Request, phase'[q] \in {"test", "wrong", "right"},
               NEW i \in SeenBy(q)'
        PROVE  began'[q] + MaxLatency >= log'[i].at + Backoff(Cardinality(SeenBy(q)'))
    <3>1. q # r
      BY <1>4, <2>1, <2>2
    <3> QED
      BY <1>1, <1>3, <1>11, <2>2, <3>1 DEF IInv, BackoffSpacing, SeenBy
  <2> QED
    BY <2>2 DEF BackoffSpacing, SeenBy
<1>14. ASSUME NEW t \in 0..MaxTime
       PROVE  Cardinality(FailuresWithin(t)') + Cardinality(Pending(t)')
                <= RATE_LIMIT_MAX_ATTEMPTS + Cardinality(Request) - 1
  <2>1. FailuresWithin(t)' = FailuresWithin(t)
    BY <1>1, <1>6 DEF FailuresWithin, Failures
  <2>2. /\ Cardinality(FailuresWithin(t)) \in Nat /\ Cardinality(Pending(t)) \in Nat
        /\ Cardinality(Pending(t)') \in Nat /\ Cardinality(Request) \in Nat
    BY <1>5, Counting DEF IInv, FailuresWithin, Failures, Pending
  <2>3. CASE t <= now /\ now <= t + RATE_LIMIT_WINDOW
    <3>1. FailuresWithin(t) \subseteq InWindow(Failures(Rows), now)
      BY <2>3, <1>6, Counting DEF FailuresWithin, InWindow, Failures, IInv, TypeOK
    <3>2. InWindow(Failures(Rows), now) \subseteq Rows
      BY DEF InWindow, Failures
    <3>3. Cardinality(FailuresWithin(t)) <= RecentFailures
      BY <1>2, <3>1, <3>2, Counting, FS_Subset DEF IInv
    <3>4. Cardinality(Pending(t)') <= Cardinality(Request)
      BY <1>5, Counting, FS_Subset DEF Pending, IInv
    <3> QED
      BY <1>2, <2>1, <2>2, <3>3, <3>4
  <2>4. CASE ~(t <= now /\ now <= t + RATE_LIMIT_WINDOW)
    <3>1. Pending(t)' = Pending(t)
      BY <2>4, <1>1, <1>3, <1>4 DEF Pending, InFlight, Answered
    <3> QED
      BY <2>1, <3>1 DEF IInv, CapInv
  <2> QED
    BY <2>3, <2>4
<1>15. CapInv'
  BY <1>14 DEF CapInv
<1> QED
  BY <1>5, <1>7, <1>8, <1>9, <1>12, <1>13, <1>15 DEF IInv

\* A login that passes the second query began a backoff after the failures
\* that its first one counted.
LEMMA PassKeeps ==
  ASSUME IInv, NEW r \in Request, CheckBackoff(r),
         ~(Failures(kept) # {} /\ Remaining(r) > 0)
  PROVE  IInv'
<1> USE LimiterAssumption DEF limiterVars
<1>1. /\ phase[r] = "last" /\ phase' = [phase EXCEPT ![r] = "test"]
      /\ counted' = [counted EXCEPT ![r] = 0]
      /\ log' = log /\ kept' = kept /\ began' = began /\ before' = before
      /\ now' = now /\ lastWrong' = lastWrong
  BY DEF CheckBackoff
<1>2. \A q \in Request : q # r => phase'[q] = phase[q] /\ counted'[q] = counted[q]
  BY <1>1 DEF IInv, TypeOK
<1>3. phase'[r] = "test"
  BY <1>1 DEF IInv, TypeOK
<1>4. TypeOK' /\ Rows' = Rows
  BY <1>1 DEF IInv, TypeOK, Phase, Rows
<1>5. Busy' = Busy /\ \A t \in 0..MaxTime : /\ Pending(t)' = Pending(t)
                                           /\ FailuresWithin(t)' = FailuresWithin(t)
  BY <1>1, <1>2, <1>3, <1>4
     DEF Busy, InFlight, Answered, Pending, FailuresWithin, Failures
<1>6. RoomInv' /\ CapInv'
  BY <1>1, <1>5 DEF IInv, RoomInv, CapInv
<1>7. TimeInv' /\ KeptInv' /\ WrongInv'
  BY <1>1, <1>2, <1>3, <1>4
     DEF IInv, TimeInv, KeptInv, WrongInv, InFlight, Answered, Failures
<1>8. \A q \in Request : SeenBy(q)' = SeenBy(q)
  BY <1>1 DEF SeenBy, InWindow, Failures
<1>9. CountInv'
  BY <1>1, <1>2, <1>3, <1>8 DEF IInv, CountInv
<1>10. ASSUME NEW i \in SeenBy(r)
       PROVE  began[r] + MaxLatency >= log[i].at + Backoff(Cardinality(SeenBy(r)))
  <2>1. /\ i \in Rows /\ ~log[i].success /\ log[i].at >= began[r] - RATE_LIMIT_WINDOW
        /\ log[i].at \in Nat
    <3>1. i \in 1..before[r] /\ ~log[i].success /\ log[i].at >= began[r] - RATE_LIMIT_WINDOW
      BY DEF SeenBy, InWindow, Failures
    <3>2. before[r] <= Len(log) /\ before[r] \in Nat
      BY DEF IInv, CountInv, TypeOK
    <3>3. Rows = 1..Len(log) /\ Len(log) \in Nat
      BY Counting DEF IInv
    <3>4. i \in Rows
      BY <3>1, <3>2, <3>3
    <3> QED
      BY <3>1, <3>4, Counting DEF IInv
  <2>2. /\ began[r] \in Nat /\ now \in Nat /\ began[r] <= now
        /\ now <= began[r] + MaxLatency
    <3>1. InFlight(r)
      BY <1>1 DEF InFlight, Answered
    <3>2. began[r] \in Nat /\ now \in Nat
      BY DEF IInv, TypeOK
    <3> QED
      BY <3>1, <3>2 DEF IInv, TimeInv
  <2>3. i \in Failures(kept)
    BY <2>1, <2>2 DEF IInv, KeptInv, Failures
  <2> DEFINE times == {log[j].at : j \in Failures(kept)}
  <2>4. times \subseteq Nat /\ (\A x \in times : x <= now) /\ log[i].at \in times
    BY <2>3, Counting DEF IInv, TypeOK, TimeInv, Failures, Rows
  <2> HIDE DEF times
  <2>5. \E m \in times : \A x \in times : x <= m
    BY <2>2, <2>4, Maximum
  <2>6. PICK m \in times : \A j \in Failures(kept) : log[j].at <= m
    BY <2>5 DEF times
  <2>7. LastFailure \in times /\ \A j \in Failures(kept) : log[j].at <= LastFailure
    BY <2>6 DEF LastFailure, times
  <2>8. LastFailure \in Nat /\ LastFailure >= log[i].at
    BY <2>3, <2>4, <2>7
  <2>9. counted[r] = Cardinality(SeenBy(r)) /\ counted[r] \in Nat
    BY <1>1 DEF IInv, CountInv, TypeOK
  <2>10. Backoff(counted[r]) \in Nat
    BY <2>9, BackoffIsNat
  <2>11. ~(Backoff(counted[r]) - (now - LastFailure) > 0)
    BY <2>3 DEF Remaining
  <2> QED
    BY <2>1, <2>2, <2>8, <2>9, <2>10, <2>11
<1>11. BackoffSpacing'
  <2>1. ASSUME NEW q \in Request, phase'[q] \in {"test", "wrong", "right"},
               NEW i \in SeenBy(q)'
        PROVE  began'[q] + MaxLatency >= log'[i].at + Backoff(Cardinality(SeenBy(q)'))
    BY <1>1, <1>2, <1>8, <1>10, <2>1 DEF IInv, BackoffSpacing, SeenBy
  <2> QED
    BY <2>1 DEF BackoffSpacing, SeenBy
<1> QED
  BY <1>4, <1>6, <1>7, <1>9, <1>11 DEF IInv

LEMMA TestKeeps ==
  ASSUME IInv, NEW r \in Request, TestPassword(r)
  PROVE  IInv'
<1> USE LimiterAssumption DEF limiterVars
<1>1. PICK outcome \in {"wrong", "right"} :
        /\ phase[r] = "test" /\ phase' = [phase EXCEPT ![r] = outcome]
        /\ lastWrong' = IF outcome = "wrong" THEN now ELSE lastWrong
        /\ log' = log /\ kept' = kept /\ began' = began /\ before' = before
        /\ now' = now /\ counted' = counted
  BY DEF TestPassword
<1>2. phase'[r] = outcome /\ \A q \in Request : q # r => phase'[q] = phase[q]
  BY <1>1 DEF IInv, TypeOK
<1>3. TypeOK' /\ Rows' = Rows
  BY <1>1 DEF IInv, TypeOK, Phase, Rows
<1>4. Busy' = Busy /\ \A t \in 0..MaxTime : /\ Pending(t)' \subseteq Pending(t)
                                           /\ FailuresWithin(t)' = FailuresWithin(t)
  BY <1>1, <1>2, <1>3 DEF Busy, InFlight, Answered, Pending, FailuresWithin, Failures
<1>5. RoomInv'
  BY <1>1, <1>4 DEF IInv, RoomInv
<1>6. ASSUME NEW t \in 0..MaxTime
      PROVE  Cardinality(FailuresWithin(t)') + Cardinality(Pending(t)')
               <= RATE_LIMIT_MAX_ATTEMPTS + Cardinality(Request) - 1
  <2>1. Cardinality(Pending(t)') <= Cardinality(Pending(t))
    BY <1>4, Counting, FS_Subset DEF IInv, Pending
  <2>2. /\ Cardinality(FailuresWithin(t)) \in Nat /\ Cardinality(Pending(t)) \in Nat
        /\ Cardinality(Pending(t)') \in Nat /\ Cardinality(Request) \in Nat
    BY <1>3, Counting DEF IInv, FailuresWithin, Failures, Pending
  <2> QED
    BY <1>4, <2>1, <2>2 DEF IInv, CapInv
<1>7. CapInv'
  BY <1>6 DEF CapInv
<1>8. TimeInv' /\ KeptInv'
  BY <1>1, <1>2, <1>3 DEF IInv, TimeInv, KeptInv, InFlight, Answered
<1>9. WrongInv'
  <2>1. InFlight(r) /\ began[r] <= now
    BY <1>1 DEF IInv, TimeInv, InFlight, Answered
  <2>2. \A q \in Request : phase[q] = "wrong" => began[q] <= now
    BY DEF IInv, TimeInv, InFlight, Answered
  <2>3. lastWrong <= now /\ \A i \in Failures(Rows) : lastWrong >= log[i].at /\ log[i].at <= now
    BY DEF IInv, WrongInv, TimeInv, Failures
  <2>4. now \in Nat
    BY DEF IInv, TypeOK
  <2> QED
    BY <1>1, <1>2, <1>3, <2>1, <2>2, <2>3, <2>4 DEF IInv, WrongInv, Failures
<1>10. \A q \in Request : SeenBy(q)' = SeenBy(q)
  BY <1>1 DEF SeenBy, InWindow, Failures
<1>11. CountInv'
  BY <1>1, <1>2, <1>10 DEF IInv, CountInv
<1>12. BackoffSpacing'
  BY <1>1, <1>2, <1>10 DEF IInv, BackoffSpacing, SeenBy
<1> QED
  BY <1>3, <1>5, <1>7, <1>8, <1>9, <1>11, <1>12 DEF IInv

\* The row takes the place of the request that was pending.
LEMMA RecordKeeps ==
  ASSUME IInv, NEW r \in Request, RecordAttempt(r)
  PROVE  IInv'
<1> USE LimiterAssumption
<1> DEFINE row == [at |-> began[r], success |-> phase[r] = "right"]
           id == Len(log) + 1
<1>1. /\ phase[r] \in {"wrong", "right"} /\ log' = Append(log, row)
      /\ kept' = kept \cup {id} /\ Finish(r, "idle")
      /\ now' = now /\ lastWrong' = lastWrong
  BY DEF RecordAttempt
<1>2. \A q \in Request : q # r => /\ phase'[q] = phase[q] /\ began'[q] = began[q]
                                  /\ counted'[q] = counted[q] /\ before'[q] = before[q]
  BY <1>1 DEF Finish, IInv, TypeOK
<1>3. phase'[r] = "idle" /\ before'[r] = 0
  BY <1>1 DEF Finish, IInv, TypeOK
<1>4. Rows = 1..Len(log) /\ Len(log) \in Nat
  BY Counting DEF IInv
<1>5. InFlight(r) /\ began[r] \in Nat /\ began[r] \in 0..MaxTime /\ began[r] <= now
  BY <1>1 DEF IInv, TypeOK, TimeInv, InFlight, Answered
<1>6. r \in Busy /\ Busy' = Busy \ {r}
  BY <1>2, <1>3, <1>5 DEF Busy, InFlight, Answered
<1>7. /\ Cardinality(Busy') = Cardinality(Busy) - 1 /\ Cardinality(Busy) \in Nat
      /\ Cardinality(Busy') \in Nat
  <2>1. Busy \subseteq Request /\ Busy \ {r} \subseteq Request
    BY DEF Busy
  <2>2. IsFiniteSet(Busy) /\ Cardinality(Busy) \in Nat /\ Cardinality(Busy \ {r}) \in Nat
    BY <2>1, Counting DEF IInv
  <2>3. Cardinality(Busy \ {r}) = Cardinality(Busy) - 1
    BY <1>6, <2>2, FS_RemoveElement
  <2> QED
    BY <1>6, <2>2, <2>3
<1>8. Len(log') = id /\ id <= MaxRows
  BY <1>1, <1>4, <1>7 DEF IInv, RoomInv, TypeOK
<1>9. log' \in Seq([at : 0..MaxTime, success : BOOLEAN])
  <2>1. row \in [at : 0..MaxTime, success : BOOLEAN]
    BY <1>5
  <2> HIDE DEF row
  <2> QED
    BY <1>1, <2>1 DEF IInv, TypeOK
<1>10. Rows' = Rows \cup {id} /\ id \notin Rows
  BY <1>4, <1>8, <1>9 DEF Rows
<1>11. (\A i \in Rows : log'[i] = log[i]) /\ log'[id] = row
  BY <1>1, <1>4 DEF IInv, TypeOK
<1>22. log'[id].at = began[r] /\ log'[id].success = (phase[r] = "right")
  <2>1. row.at = began[r]
    BY DEF row
  <2>2. row.success = (phase[r] = "right")
    BY Zenon DEF row
  <2> HIDE DEF row
  <2> QED
    BY <1>11, <2>1, <2>2, Zenon
<1>23. /\ id = Len(log) + 1
       /\ \A i \in Rows : log[i].at \in Nat /\ log[i].success \in BOOLEAN
  BY Counting DEF IInv
<1>12. TypeOK'
  <2>1. kept' \subseteq DOMAIN log'
    BY <1>1, <1>10 DEF Rows, IInv, TypeOK
  <2>2. /\ phase' \in [Request -> Phase] /\ began' \in [Request -> 0..MaxTime]
        /\ counted' \in [Request -> 0..(RATE_LIMIT_MAX_ATTEMPTS - 1)]
        /\ before' \in [Request -> 0..MaxRows]
    BY <1>1 DEF Finish, IInv, TypeOK, Phase, Answered
  <2> QED
    BY <1>1, <1>8, <1>9, <2>1, <2>2 DEF IInv, TypeOK
<1> HIDE DEF row, id
<1>13. RoomInv'
  BY <1>4, <1>7, <1>8, <1>23 DEF IInv, RoomInv
<1>14. TimeInv'
  <2>1. \A q \in Request : InFlight(q)' => q # r /\ InFlight(q)
    BY <1>2, <1>3 DEF InFlight, Answered
  <2>2. \A i \in Rows' : log'[i].at <= now
    BY <1>5, <1>10, <1>11, <1>22 DEF IInv, TimeInv
  <2> QED
    BY <1>1, <1>2, <2>1, <2>2 DEF IInv, TimeInv
<1>15. KeptInv'
  BY <1>1, <1>10, <1>11 DEF IInv, KeptInv
<1>16. WrongInv'
  <2>1. phase[r] = "wrong" => lastWrong >= began[r]
    BY DEF IInv, WrongInv
  <2>2. \A i \in (Failures(Rows))' : i \in Failures(Rows) \/ (i = id /\ phase[r] = "wrong")
    BY <1>1, <1>10, <1>11, <1>22 DEF Failures
  <2>3. \A i \in Failures(Rows) : log'[i].at = log[i].at
    BY <1>11 DEF Failures
  <2>5. \A i \in (Failures(Rows))' : lastWrong' >= log'[i].at
    BY <1>1, <1>22, <2>1, <2>2, <2>3 DEF IInv, WrongInv
  <2> QED
    BY <1>1, <1>2, <1>3, <2>5 DEF IInv, WrongInv
<1>17. \A q \in Request : q # r => SeenBy(q)' = SeenBy(q)
  <2>1. \A q \in Request : 1..before[q] \subseteq Rows
    BY <1>4 DEF IInv, CountInv, TypeOK
  <2> QED
    BY <1>2, <1>11, <2>1 DEF SeenBy, InWindow, Failures
<1>18. CountInv'
  <2>1. \A q \in Request : before[q] <= Len(log) /\ before[q] \in Nat
    BY DEF IInv, CountInv, TypeOK
  <2>2. Len(log') = Len(log) + 1
    BY <1>8, <1>23
  <2>3. before'[r] <= Len(log') /\ phase'[r] # "last"
    BY <1>3, <1>4, <2>2
  <2>4. ASSUME NEW q \in Request, q # r
        PROVE  before'[q] <= Len(log') /\ counted'[q] = counted[q] /\ phase'[q] = phase[q]
                 /\ SeenBy(q)' = SeenBy(q)
    BY <1>2, <1>4, <1>17, <2>1, <2>2, <2>4
  <2> QED
    BY <2>3, <2>4 DEF IInv, CountInv
<1>19. BackoffSpacing'
  <2>1. \A q \in Request : SeenBy(q) \subseteq Rows
    <3>1. \A q \in Request : 1..before[q] \subseteq Rows
      BY <1>4 DEF IInv, CountInv, TypeOK
    <3> QED
      BY <3>1 DEF SeenBy, InWindow, Failures
  <2> QED
    BY <1>2, <1>3, <1>11, <1>17, <2>1 DEF IInv, BackoffSpacing, SeenBy
<1>20. ASSUME NEW t \in 0..MaxTime
       PROVE  Cardinality(FailuresWithin(t)') + Cardinality(Pending(t)')
                <= RATE_LIMIT_MAX_ATTEMPTS + Cardinality(Request) - 1
  <2>1. Pending(t)' = Pending(t) \ {r}
    BY <1>2, <1>3 DEF Pending
  <2>2. FailuresWithin(t)' =
          IF phase[r] = "wrong" /\ t <= began[r] /\ began[r] <= t + RATE_LIMIT_WINDOW
            THEN FailuresWithin(t) \cup {id} ELSE FailuresWithin(t)
    <3>1. (Failures(Rows))' =
            IF phase[r] = "wrong" THEN Failures(Rows) \cup {id} ELSE Failures(Rows)
      BY <1>1, <1>10, <1>11, <1>22 DEF Failures
    <3>2. \A i \in Failures(Rows) : log'[i].at = log[i].at
      BY <1>11 DEF Failures
    <3> HIDE DEF Failures
    <3> QED
      BY <1>22, <3>1, <3>2 DEF FailuresWithin
  <2>3. /\ FailuresWithin(t) \subseteq Rows /\ Pending(t) \subseteq Request
        /\ id \notin FailuresWithin(t)
    BY <1>10 DEF FailuresWithin, Failures, Pending
  <2>4. /\ IsFiniteSet(FailuresWithin(t)) /\ IsFiniteSet(Pending(t))
        /\ Cardinality(FailuresWithin(t)) \in Nat /\ Cardinality(Pending(t)) \in Nat
        /\ Cardinality(Request) \in Nat
    BY <2>3, Counting DEF IInv
  <2>5. Cardinality(FailuresWithin(t) \cup {id}) = Cardinality(FailuresWithin(t)) + 1
    BY <2>3, <2>4, FS_AddElement
  <2>6. Cardinality(Pending(t) \ {r}) = IF r \in Pending(t) THEN Cardinality(Pending(t)) - 1
                                        ELSE Cardinality(Pending(t))
    BY <2>4, FS_RemoveElement
  <2>7. Cardinality(FailuresWithin(t)) + Cardinality(Pending(t))
          <= RATE_LIMIT_MAX_ATTEMPTS + Cardinality(Request) - 1
    BY DEF IInv, CapInv
  <2>8. phase[r] = "wrong" /\ t <= began[r] /\ began[r] <= t + RATE_LIMIT_WINDOW
          => r \in Pending(t)
    BY DEF Pending
  <2> QED
    BY <2>1, <2>2, <2>4, <2>5, <2>6, <2>7, <2>8
<1>21. CapInv'
  BY <1>20 DEF CapInv
<1> QED
  BY <1>12, <1>13, <1>14, <1>15, <1>16, <1>18, <1>19, <1>21 DEF IInv

LEMMA PurgeKeeps ==
  ASSUME IInv, PurgeLoginAttempts
  PROVE  IInv'
<1> USE LimiterAssumption DEF requestVars, PurgeLoginAttempts
<1>1. /\ now' = now /\ log' = log /\ phase' = phase /\ began' = began
      /\ counted' = counted /\ before' = before /\ lastWrong' = lastWrong
      /\ kept' = {i \in kept : ~Purged(i)}
  OBVIOUS
<1>2. TypeOK' /\ Rows' = Rows
  BY <1>1 DEF IInv, TypeOK, Rows
<1>3. KeptInv'
  BY <1>1, <1>2, Counting DEF IInv, KeptInv, Purged, TypeOK
<1>4. RoomInv' /\ TimeInv' /\ CapInv' /\ CountInv' /\ WrongInv' /\ BackoffSpacing'
  BY <1>1, <1>2
     DEF IInv, RoomInv, TimeInv, CapInv, CountInv, WrongInv, BackoffSpacing, Busy, InFlight,
         FailuresWithin, Pending, SeenBy, InWindow, Failures
<1> QED
  BY <1>2, <1>3, <1>4 DEF IInv

LEMMA TickKeeps ==
  ASSUME IInv, Tick
  PROVE  IInv'
<1> USE LimiterAssumption DEF limiterVars, requestVars, Tick
<1>1. /\ now < MaxTime /\ now' = now + 1 /\ log' = log /\ kept' = kept /\ phase' = phase
      /\ began' = began /\ counted' = counted /\ before' = before /\ lastWrong' = lastWrong
      /\ \A r \in Request : InFlight(r) => now < began[r] + MaxLatency
  OBVIOUS
<1>2. TypeOK' /\ Rows' = Rows
  BY <1>1 DEF IInv, TypeOK, Rows
<1>3. RoomInv' /\ CapInv' /\ CountInv' /\ BackoffSpacing'
  BY <1>1, <1>2
     DEF IInv, RoomInv, CapInv, CountInv, BackoffSpacing, Busy, InFlight,
         FailuresWithin, Pending, SeenBy, InWindow, Failures
<1>4. TimeInv' /\ KeptInv'
  <2>1. /\ now \in Nat /\ now' = now + 1 /\ MaxLatency \in Nat
        /\ LOGIN_ATTEMPT_RETENTION \in Nat
    BY <1>1 DEF IInv, TypeOK
  <2>2. \A i \in Rows : log[i].at \in Nat
    BY Counting DEF IInv
  <2>3. \A i \in Rows : log'[i].at <= now'
    BY <1>1, <2>1, <2>2 DEF IInv, TimeInv
  <2>4. \A r \in Request : InFlight(r)' => began'[r] <= now' /\ now' <= began'[r] + MaxLatency
    <3>1. \A r \in Request : began[r] \in Nat
      BY DEF IInv, TypeOK
    <3> QED
      BY <1>1, <2>1, <3>1 DEF IInv, TimeInv, InFlight
  <2>5. \A i \in Rows : log'[i].at >= now' - LOGIN_ATTEMPT_RETENTION => i \in kept'
    BY <1>1, <2>1, <2>2 DEF IInv, KeptInv
  <2> QED
    BY <1>2, <2>3, <2>4, <2>5 DEF TimeInv, KeptInv
<1>5. WrongInv'
  BY <1>1, <1>2 DEF IInv, WrongInv, TypeOK, Failures, Never
<1> QED
  BY <1>2, <1>3, <1>4, <1>5 DEF IInv

LEMMA StepIInv == IInv /\ [Next]_vars => IInv'
<1> SUFFICES ASSUME IInv, [Next]_vars PROVE IInv'
  OBVIOUS
<1>1. ASSUME NEW r \in Request, CountFailures(r) PROVE IInv'
  <2>1. CASE AtCap(RecentFailures)
    BY <1>1, <2>1, FinishKeeps DEF CountFailures, Refuse, Answered
  <2>2. CASE ~AtCap(RecentFailures)
    BY <1>1, <2>2, AdmitKeeps
  <2> QED
    BY <2>1, <2>2
<1>2. ASSUME NEW r \in Request, CheckBackoff(r) PROVE IInv'
  <2>1. CASE Failures(kept) # {} /\ Remaining(r) > 0
    BY <1>2, <2>1, FinishKeeps DEF CheckBackoff, Refuse, Answered
  <2>2. CASE ~(Failures(kept) # {} /\ Remaining(r) > 0)
    BY <1>2, <2>2, PassKeeps
  <2> QED
    BY <2>1, <2>2
<1>3. ASSUME NEW r \in Request, TestPassword(r) PROVE IInv'
  BY <1>3, TestKeeps
<1>4. ASSUME NEW r \in Request, RecordAttempt(r) PROVE IInv'
  BY <1>4, RecordKeeps
<1>5. ASSUME NEW r \in Request, Abort(r) PROVE IInv'
  BY <1>5, FinishKeeps DEF Abort, Answered
<1>6. CASE PurgeLoginAttempts
  BY <1>6, PurgeKeeps
<1>7. CASE Tick
  BY <1>7, TickKeeps
<1>8. CASE UNCHANGED vars
  BY <1>8 DEF vars, limiterVars, requestVars, IInv, TypeOK, RoomInv, TimeInv, KeptInv, CapInv,
              CountInv, WrongInv, BackoffSpacing, Busy, InFlight, FailuresWithin, Pending,
              SeenBy, InWindow, Failures, Rows
<1> QED
  BY <1>1, <1>2, <1>3, <1>4, <1>5, <1>6, <1>7, <1>8 DEF Next

-----------------------------------------------------------------------------
(* The theorems.                                                           *)

\* The inductive invariant of check_rate_limit and record_login_attempt.
THEOREM Invariance == Spec => []IInv
<1>1. Init => IInv
  BY InitIInv
<1>2. IInv /\ [Next]_vars => IInv'
  BY StepIInv
<1> QED
  BY <1>1, <1>2, PTL DEF Spec

\* Every variable of the limiter keeps its type, its bounds included.
THEOREM TypeCorrect == Spec => []TypeOK
<1>1. IInv => TypeOK
  BY DEF IInv
<1> QED
  BY <1>1, Invariance, PTL

\* Concurrent logins overrun the cap by their number less one, and no more.
THEOREM CapHolds == Spec => []CapWithConcurrency
<1>1. IInv => CapWithConcurrency
  <2> SUFFICES ASSUME IInv, NEW t \in 0..MaxTime
               PROVE  Cardinality(FailuresWithin(t))
                        <= RATE_LIMIT_MAX_ATTEMPTS + Cardinality(Request) - 1
    BY DEF CapWithConcurrency
  <2>1. FailuresWithin(t) \subseteq Rows /\ Pending(t) \subseteq Request
    BY DEF FailuresWithin, Failures, Pending
  <2>2. /\ Cardinality(FailuresWithin(t)) \in Nat /\ Cardinality(Pending(t)) \in Nat
        /\ Cardinality(Request) \in Nat
    BY <2>1, Counting DEF IInv
  <2> QED
    BY <2>2, LimiterAssumption DEF IInv, CapInv
<1> QED
  BY <1>1, Invariance, PTL

\* An admitted attempt began a full backoff after the failures it counted.
THEOREM BackoffHolds == Spec => []BackoffSpacing
<1>1. IInv => BackoffSpacing
  BY DEF IInv
<1> QED
  BY <1>1, Invariance, PTL

\* The retention sweep over login_attempts changes no decision.
THEOREM PurgeDecidesNothing == Spec => []PurgeInvisible
<1>1. IInv => PurgeInvisible
  <2> SUFFICES ASSUME IInv PROVE PurgeInvisible
    OBVIOUS
  <2>1. now \in 0..MaxTime /\ now <= now /\ now <= now + MaxLatency
    BY LimiterAssumption DEF IInv, TypeOK
  <2>2. ASSUME NEW r \in Request, phase[r] = "last"
        PROVE  InWindow(Failures(kept), began[r]) = InWindow(Failures(Rows), began[r])
    <3>1. /\ began[r] \in 0..MaxTime /\ began[r] <= now /\ now <= began[r] + MaxLatency
      BY <2>2 DEF IInv, TypeOK, TimeInv, InFlight, Answered
    <3> QED
      BY <3>1, CountsAll
  <2> QED
    BY <2>1, <2>2, CountsAll DEF PurgeInvisible
<1> QED
  BY <1>1, Invariance, PTL

\* A refused login does not prolong the refusal.
THEOREM RefusalsEnd == Spec => RefusedOnlyAfterWrong
<1> DEFINE A == \A r \in Request :
                  phase[r] # "refused" /\ phase'[r] = "refused"
                    => lastWrong >= now - RATE_LIMIT_WINDOW - MaxLatency
<1>1. IInv /\ [Next]_vars => [A]_vars
  <2> SUFFICES ASSUME IInv, Next, NEW r \in Request,
                      phase[r] # "refused", phase'[r] = "refused"
               PROVE  lastWrong >= now - RATE_LIMIT_WINDOW - MaxLatency
    BY DEF A
  <2> USE LimiterAssumption
  <2>1. now \in Nat /\ (lastWrong \in Int)
    BY DEF IInv, TypeOK, Never
  <2>2. CASE CountFailures(r) /\ AtCap(RecentFailures)
    <3>1. InWindow(Failures(Rows), now) # {}
      BY <2>2, RecentIsNat DEF AtCap
    <3>2. PICK i \in Failures(Rows) : log[i].at >= now - RATE_LIMIT_WINDOW
      BY <3>1 DEF InWindow
    <3>3. lastWrong >= log[i].at /\ log[i].at \in Nat
      BY Counting DEF IInv, WrongInv, Failures
    <3> QED
      BY <2>1, <3>2, <3>3
  <2>3. CASE CheckBackoff(r)
    <3>1. phase[r] = "last" /\ InFlight(r)
      BY <2>3 DEF CheckBackoff, InFlight, Answered
    <3>2. /\ began[r] \in Nat /\ began[r] <= now /\ now <= began[r] + MaxLatency
      BY <3>1 DEF IInv, TypeOK, TimeInv
    <3>3. SeenBy(r) # {}
      <4>1. Cardinality(SeenBy(r)) # 0
        BY <3>1 DEF IInv, CountInv, TypeOK
      <4> QED
        BY <4>1, FS_EmptySet
    <3>4. PICK i \in 1..before[r] : ~log[i].success /\ log[i].at >= began[r] - RATE_LIMIT_WINDOW
      BY <3>3 DEF SeenBy, InWindow, Failures
    <3>5. i \in Failures(Rows)
      <4>1. before[r] \in Nat /\ before[r] <= Len(log) /\ Len(log) \in Nat
            /\ Rows = 1..Len(log)
        BY <3>1, Counting DEF IInv, CountInv, TypeOK
      <4>2. 1..before[r] \subseteq Rows
        BY <4>1
      <4> QED
        BY <3>4, <4>2 DEF Failures
    <3>6. lastWrong >= log[i].at /\ log[i].at \in Nat
      BY <3>5, Counting DEF IInv, WrongInv, Failures
    <3> QED
      BY <2>1, <3>2, <3>4, <3>6
  <2>4. ASSUME NEW q \in Request,
               q # r \/ ~((CountFailures(r) /\ AtCap(RecentFailures)) \/ CheckBackoff(r)),
               CountFailures(q) \/ CheckBackoff(q) \/ TestPassword(q) \/ RecordAttempt(q)
                 \/ Abort(q)
        PROVE  FALSE
    BY <2>4 DEF CountFailures, CheckBackoff, TestPassword, RecordAttempt, Abort, Refuse, Finish,
                IInv, TypeOK
  <2>5. CASE PurgeLoginAttempts \/ Tick
    BY <2>5 DEF PurgeLoginAttempts, Tick, requestVars
  <2> QED
    BY <2>2, <2>3, <2>4, <2>5 DEF Next
<1> QED
  BY <1>1, Invariance, PTL DEF Spec, RefusedOnlyAfterWrong

=============================================================================
