--------------------------- MODULE SessionsProofs ---------------------------
(***************************************************************************)
(* Proofs about Sessions, for every number of requests and sessions and    *)
(* every duration, grace period and latency that TimingAssumption allows.  *)
(***************************************************************************)
EXTENDS Sessions, TLAPS

USE TimingAssumption, ActorAssumption

-----------------------------------------------------------------------------
(* Type correctness.                                                       *)

\* What the building blocks of the actions do to the variables they set.
LEMMA UnlockType ==
    ASSUME TypeOK, NEW S, Unlock(S)
    PROVE  holder' \in [Session -> Request \cup {Sweeper, NoOne}]
BY DEF Unlock, TypeOK

\* Removing rows resets them.
LEMMA RemoveType ==
    ASSUME TypeOK, NEW S, NEW cause \in Causes, Remove(S, cause)
    PROVE  /\ live' \in SUBSET Session
           /\ removedBy' \in [Session -> Causes]
           /\ expires' \in [Session -> Expiry]
           /\ lastUse' \in [Session -> 0..MaxTime]
BY DEF Remove, TypeOK, Expiry

\* An answered request keeps its types.
LEMMA AnswerType ==
    ASSUME TypeOK, NEW r \in Request, NEW a \in Answered, Answer(r, a)
    PROVE  /\ phase' \in [Request -> Phase]
           /\ cookie' \in [Request -> Session]
           /\ expiry' \in [Request -> Expiry]
           /\ since' \in [Request -> 0..MaxTime]
BY DEF Answer, TypeOK, Phase, Expiry

\* A request that moves on keeps its types.
LEMMA GotoType ==
    ASSUME TypeOK, NEW r \in Request, NEW p \in Phase, Goto(r, p)
    PROVE  /\ phase' \in [Request -> Phase]
           /\ cookie' \in [Request -> Session]
           /\ expiry' \in [Request -> Expiry]
           /\ since' \in [Request -> 0..MaxTime]
BY DEF Goto, TypeOK, Phase, Expiry

\* A sweep that has ended keeps its types.
LEMMA SweepEndType ==
    ASSUME SweepEnd
    PROVE  /\ sweeping' \in BOOLEAN /\ cutoff' \in Int
           /\ doomed' \in SUBSET Session
<1>1. sweeping' \in BOOLEAN
  BY Zenon DEF SweepEnd
<1>2. cutoff' \in Int /\ doomed' \in SUBSET Session
  BY DEF SweepEnd
<1> QED
  BY <1>1, <1>2

\* Each action preserves the types; expiries stay within a session's
\* duration of the bounded clock.
LEMMA TypeStep == TypeOK /\ [Next]_vars => TypeOK'
<1> SUFFICES ASSUME TypeOK, [Next]_vars PROVE TypeOK'
  OBVIOUS
<1> USE AnswerType, GotoType
    DEF TypeOK, Expiry, Phase, Answered, Working, Holding, Causes, rowVars,
        requestVars, sweepVars
<1>1. ASSUME NEW r \in Request, NEW s \in Session, CreateSession(r, s)
      PROVE  TypeOK'
  BY <1>1 DEF CreateSession
<1>2. ASSUME NEW r \in Request, CommitSession(r)
      PROVE  TypeOK'
  BY <1>2 DEF CommitSession
<1>3. ASSUME NEW r \in Request, NEW s \in Session,
             AdminRequest(r, s) \/ LogoutRequest(r, s)
      PROVE  TypeOK'
  BY <1>3 DEF AdminRequest, LogoutRequest, Arrive
<1>4. ASSUME NEW r \in Request, SelectSession(r)
      PROVE  TypeOK'
  BY <1>4 DEF SelectSession
<1>5. ASSUME NEW r \in Request, JudgeSession(r)
      PROVE  TypeOK'
  BY <1>5 DEF JudgeSession, Renewed
<1>6. ASSUME NEW r \in Request, FindSession(r)
      PROVE  TypeOK'
  BY <1>6 DEF FindSession
<1>7. ASSUME NEW r \in Request,
             FlushRenewal(r) \/ FlushExpiry(r) \/ FlushLogout(r)
      PROVE  TypeOK'
  BY <1>7 DEF FlushRenewal, FlushExpiry, FlushLogout, Flush
<1>8. ASSUME NEW r \in Request, CommitRenewal(r)
      PROVE  TypeOK'
  BY <1>8, UnlockType, AnswerType DEF CommitRenewal
<1>9. ASSUME NEW r \in Request, CommitExpiry(r) \/ CommitLogout(r)
      PROVE  TypeOK'
  BY <1>9, UnlockType, AnswerType, RemoveType
  DEF CommitExpiry, CommitLogout, CommitDelete
<1>10. ASSUME SweepBegin
       PROVE  TypeOK'
  BY <1>10 DEF SweepBegin, SweepBound
<1>11. ASSUME NEW s \in Session, SweepRow(s)
       PROVE  TypeOK'
  BY <1>11 DEF SweepRow
<1>12. ASSUME SweepCommit \/ SweepFail
       PROVE  TypeOK'
  <2>1. CASE SweepCommit
    BY <2>1, UnlockType, RemoveType, SweepEndType DEF SweepCommit
  <2>2. CASE SweepFail
    BY <2>2, UnlockType, SweepEndType DEF SweepFail
  <2> QED
    BY <1>12, <2>1, <2>2
<1>13. ASSUME Restart
       PROVE  TypeOK'
  <2>1. phase' \in [Request -> Phase]
    BY <1>13 DEF Restart
  <2>2. expiry' \in [Request -> Expiry] /\ since' \in [Request -> 0..MaxTime]
    BY <1>13 DEF Restart
  <2> QED
    BY <1>13, <2>1, <2>2, UnlockType, SweepEndType DEF Restart
<1>14. ASSUME Tick
       PROVE  TypeOK'
  BY <1>14 DEF Tick
<1>15. ASSUME UNCHANGED vars
       PROVE  TypeOK'
  BY <1>15 DEF vars
<1> QED
  BY <1>1, <1>2, <1>3, <1>4, <1>5, <1>6, <1>7, <1>8, <1>9, <1>10, <1>11,
     <1>12, <1>13, <1>14, <1>15
  DEF Next, Begin, Continue, Sweep

\* The initial state is well typed.
LEMMA InitType == Init => TypeOK
<1> SUFFICES ASSUME Init PROVE TypeOK
  OBVIOUS
<1>1. /\ expires \in [Session -> Expiry]
      /\ lastUse \in [Session -> 0..MaxTime]
      /\ expiry \in [Request -> Expiry]
      /\ since \in [Request -> 0..MaxTime]
  BY DEF Init, Expiry
<1>2. /\ phase \in [Request -> Phase]
      /\ removedBy \in [Session -> Causes]
      /\ holder \in [Session -> Request \cup {Sweeper, NoOne}]
  BY DEF Init, Phase, Answered, Causes
<1>3. cookie \in [Request -> Session]
  BY DEF Init
<1>4. sweeping \in BOOLEAN
  BY Zenon DEF Init
<1>5. now \in 0..MaxTime /\ failures \in 0..MaxFailures
  BY DEF Init
<1>6. live \subseteq Session /\ doomed \subseteq Session /\ cutoff \in Int
  BY DEF Init
<1> QED
  BY <1>1, <1>2, <1>3, <1>4, <1>5, <1>6 DEF TypeOK

\* The types of rows, locks and requests hold in every behaviour.
THEOREM TypeCorrect == Spec => []TypeOK
BY InitType, TypeStep, PTL DEF Spec

-----------------------------------------------------------------------------
(* Facts about a state that satisfies the invariant.                       *)

\* A request in flight arrived at most MaxLatency ago.
LEMMA RequestAge ==
    ASSUME TypeOK, TimeInv, NEW r \in Request, InFlight(r)
    PROVE  /\ now \in Int /\ since[r] \in Int
           /\ since[r] <= now /\ now <= since[r] + MaxLatency
BY DEF TypeOK, TimeInv

\* An expiry about to be written was computed at most MaxLatency ago.
LEMMA WriteIsRecent ==
    ASSUME TypeOK, TimeInv, NEW r \in Request,
           phase[r] \in {"insert", "renew", "renewing"}
    PROVE  /\ now \in Int /\ expiry[r] \in Int
           /\ now <= expiry[r]
           /\ expiry[r] <= now + SESSION_DURATION
           /\ now + SESSION_DURATION <= expiry[r] + MaxLatency
<1>1. InFlight(r)
  BY DEF InFlight, Answered
<1>2. since[r] + SESSION_DURATION <= expiry[r]
      /\ expiry[r] <= now + SESSION_DURATION /\ expiry[r] \in Int
  BY DEF TimeInv, TypeOK, Expiry
<1> QED
  BY <1>1, <1>2, RequestAge

\* The sweep never holds the row of a request that failed ...
LEMMA FailedIsNotSwept ==
    ASSUME TypeOK, LockInv, TokenInv, GraceInv,
           NEW r \in Request, phase[r] = "failed"
    PROVE  holder[cookie[r]] # Sweeper
BY DEF TypeOK, LockInv, TokenInv, RemovedForGood, GraceInv

\* ... and a row it holds lapsed before any request in flight arrived:
\* this is what the grace period is for.
LEMMA SweptIsOld ==
    ASSUME TypeOK, SweepInv, TimeInv,
           NEW r \in Request, InFlight(r), holder[cookie[r]] = Sweeper
    PROVE  /\ expires[cookie[r]] \in Int /\ since[r] \in Int /\ now \in Int
           /\ expires[cookie[r]] < since[r]
           /\ expires[cookie[r]] < now
<1>1. cookie[r] \in Session
  BY DEF TypeOK
<1>2. expires[cookie[r]] \in Int /\ cutoff \in Int
  BY <1>1 DEF TypeOK, Expiry
<1>3. cutoff + EXPIRED_SESSION_GRACE <= now /\ expires[cookie[r]] < cutoff
  BY <1>1 DEF SweepInv
<1> QED
  BY <1>2, <1>3, RequestAge

-----------------------------------------------------------------------------
(* The steps that arithmetic decides.                                      *)

\* Time passes only while every request in flight is young enough.
LEMMA TickTime == ASSUME TypeOK, TimeInv, Tick PROVE TimeInv'
<1>1. now \in Int /\ now' = now + 1 /\ UNCHANGED <<phase, since, expiry>>
  BY DEF Tick, TypeOK, requestVars
<1>2. ASSUME NEW q \in Request, InFlight(q)
      PROVE  since[q] <= now' /\ now' <= since[q] + MaxLatency
  BY <1>1, <1>2 DEF TypeOK, TimeInv, Tick
<1>3. ASSUME NEW q \in Request, phase[q] \in {"insert", "renew", "renewing"}
      PROVE  expiry[q] <= now' + SESSION_DURATION
  BY <1>1, <1>3 DEF TypeOK, TimeInv, Expiry
<1> QED
  BY <1>1, <1>2, <1>3 DEF TimeInv, InFlight

\* A request that passes the expiry test has read an expiry that lies after
\* its arrival, and so has any renewal committed since.
LEMMA JudgeGrace ==
    ASSUME TypeOK, TimeInv, GraceInv, NEW r \in Request, JudgeSession(r)
    PROVE  GraceInv'
<1>1. ASSUME NEW q \in Request, q # r
      PROVE  UNCHANGED <<phase[q], expiry[q]>>
  BY <1>1 DEF JudgeSession, Goto, TypeOK
<1>2. UNCHANGED <<now, live, expires, removedBy, cookie, since>>
  BY DEF JudgeSession, Goto, rowVars
<1>3. CASE Expired(r)
  <2>1. phase'[r] = "expire"
    BY <1>3 DEF JudgeSession, Goto, TypeOK
  <2> QED
    BY <1>1, <1>2, <2>1 DEF GraceInv
<1>4. CASE ~Expired(r)
  <2>1. phase[r] = "judge" /\ phase'[r] = "renew" /\ InFlight(r)
    BY <1>4 DEF JudgeSession, TypeOK, InFlight, Answered
  <2>2. now <= expiry[r] /\ since[r] <= now
        /\ now \in Int /\ expiry[r] \in Int /\ since[r] \in Int
    BY <1>4, <2>1, RequestAge DEF Expired, TypeOK, Expiry
  <2>3. removedBy[cookie[r]] # "sweep"
    BY <2>1, <2>2 DEF GraceInv
  <2>4. cookie[r] \in live => since[r] <= expires[cookie[r]]
    BY <2>1, <2>2 DEF GraceInv
  <2> QED
    BY <1>1, <1>2, <2>1, <2>3, <2>4 DEF GraceInv
<1> QED
  BY <1>3, <1>4

\* A renewal moves the expiry past the arrival of every request in flight.
LEMMA RenewGrace ==
    ASSUME TypeOK, TimeInv, GraceInv, NEW r \in Request, CommitRenewal(r)
    PROVE  GraceInv'
<1>1. /\ UNCHANGED <<live, now, removedBy, cookie>>
      /\ phase'[r] = "served" /\ phase[r] = "renewing"
  BY DEF CommitRenewal, Answer, TypeOK
<1>2. ASSUME NEW q \in Request, q # r
      PROVE  UNCHANGED <<phase[q], expiry[q], since[q]>>
  BY <1>2 DEF CommitRenewal, Answer, TypeOK
<1>3. ASSUME NEW q \in Request, InFlight(q)
      PROVE  since[q] <= expiry[r]
  BY <1>1, <1>3, RequestAge, WriteIsRecent
<1>4. \A q \in Request : expires'[cookie[q]] = expires[cookie[q]]
                           \/ expires'[cookie[q]] = expiry[r]
  BY DEF CommitRenewal, TypeOK
<1>5. ASSUME NEW q \in Request, q # r,
             phase[q] \in {"judge", "renew", "renewing"}
      PROVE  /\ InFlight(q)
             /\ cookie[q] \in live =>
                  \/ expires'[cookie[q]] = expires[cookie[q]]
                  \/ since[q] <= expires'[cookie[q]]
  BY <1>3, <1>4, <1>5 DEF InFlight, Answered
<1> QED
  BY <1>1, <1>2, <1>5 DEF GraceInv

\* What the sweep removes, no request that is about to renew has read.
LEMMA SweepGrace ==
    ASSUME TypeOK, LockInv, SweepInv, TokenInv, TimeInv, GraceInv, SweepCommit
    PROVE  GraceInv'
<1>1. UNCHANGED <<now, phase, cookie, expiry, since>>
  BY DEF SweepCommit, requestVars
<1>2. ASSUME NEW q \in Request, holder[cookie[q]] # Sweeper
      PROVE  /\ UNCHANGED <<removedBy[cookie[q]], expires[cookie[q]]>>
             /\ cookie[q] \in live' => cookie[q] \in live
  <2>1. cookie[q] \in Session /\ cookie[q] \notin Swept
    BY <1>2 DEF Swept, TypeOK
  <2> QED
    BY <1>1, <2>1 DEF SweepCommit, Remove
<1>3. ASSUME NEW q \in Request, holder[cookie[q]] = Sweeper
      PROVE  /\ removedBy'[cookie[q]] = "sweep"
             /\ cookie[q] \notin live' /\ cookie[q] \in live
  BY <1>3 DEF SweepCommit, Remove, Swept, TypeOK, LockInv
<1>4. ASSUME NEW q \in Request, holder[cookie[q]] = Sweeper,
             phase[q] \in {"judge", "renew", "renewing"}
      PROVE  phase[q] = "judge" /\ expiry[q] < now
  <2>1. InFlight(q)
    BY <1>4 DEF InFlight, Answered
  <2> QED
    BY <1>3, <1>4, <2>1, SweptIsOld DEF GraceInv
<1> QED
  BY <1>1, <1>2, <1>3, <1>4, FailedIsNotSwept DEF GraceInv

\* Time passing takes nothing away from a request.
LEMMA TickGrace == ASSUME TypeOK, GraceInv, Tick PROVE GraceInv'
<1>1. UNCHANGED <<phase, live, expires, expiry, cookie, since, removedBy>>
  BY DEF Tick, rowVars, requestVars
<1>2. now \in Int /\ now' = now + 1 /\ \A r \in Request : expiry[r] \in Int
  BY DEF Tick, TypeOK, Expiry
<1> QED
  BY <1>1, <1>2 DEF GraceInv

\* A row that is written takes an expiry at most MaxLatency short of a full
\* duration from its latest use, which is now.
LEMMA WriteWindow ==
    ASSUME TypeOK, TimeInv, WindowInv,
           NEW r \in Request, phase[r] \in {"insert", "renew", "renewing"},
           expires' = [expires EXCEPT ![cookie[r]] = expiry[r]],
           lastUse' = [lastUse EXCEPT ![cookie[r]] = now],
           live' = live \cup {cookie[r]}, now' = now
    PROVE  (\A s \in live : lastUse[s] <= now)' /\ SlidingWindow'
<1>1. cookie[r] \in Session /\ now \in Int
  BY DEF TypeOK
<1>2. ASSUME NEW s \in live', s # cookie[r]
      PROVE  s \in live /\ UNCHANGED <<expires[s], lastUse[s]>>
  BY <1>2 DEF TypeOK
<1>3. expires'[cookie[r]] = expiry[r] /\ lastUse'[cookie[r]] = now
  BY <1>1 DEF TypeOK
<1> QED
  BY <1>1, <1>2, <1>3, WriteIsRecent DEF WindowInv, SlidingWindow

\* A new row is in no other request's hands.
LEMMA InsertWindow ==
    ASSUME TypeOK, TokenInv, TimeInv, WindowInv,
           NEW r \in Request, CommitSession(r)
    PROVE  WindowInv'
<1>1. phase[r] = "insert" /\ phase'[r] = "idle" /\ cookie[r] \notin issued
  BY DEF CommitSession, Answer, TypeOK, TokenInv
<1>2. (\A s \in live : lastUse[s] <= now)' /\ SlidingWindow'
  BY <1>1, WriteWindow DEF CommitSession
<1>3. ASSUME NEW q \in Request, phase'[q] \in {"judge", "renew", "renewing"}
      PROVE  /\ UNCHANGED <<phase[q], cookie[q], expiry[q]>>
             /\ lastUse'[cookie[q]] = lastUse[cookie[q]]
             /\ cookie[q] \in live' => cookie[q] \in live
  <2>1. q # r /\ UNCHANGED <<phase[q], cookie[q], expiry[q]>>
    BY <1>1, <1>3 DEF CommitSession, Answer, TypeOK
  <2>2. cookie[q] # cookie[r]
    BY <1>1, <1>3, <2>1 DEF TokenInv
  <2> QED
    BY <2>1, <2>2 DEF CommitSession, TypeOK
<1> QED
  BY <1>2, <1>3 DEF WindowInv, IdleSessionsLapse

\* A request that passes the expiry test came within the idle limit.
LEMMA JudgeWindow ==
    ASSUME TypeOK, WindowInv, NEW r \in Request, JudgeSession(r)
    PROVE  WindowInv'
<1>1. ASSUME NEW q \in Request, q # r
      PROVE  UNCHANGED <<phase[q], expiry[q]>>
  BY <1>1 DEF JudgeSession, Goto, TypeOK
<1>2. UNCHANGED <<now, live, expires, lastUse, cookie>>
  BY DEF JudgeSession, Goto, rowVars
<1>3. (\A s \in live : lastUse[s] <= now)' /\ SlidingWindow'
  BY <1>2 DEF WindowInv, SlidingWindow
<1>4. CASE Expired(r)
  <2>1. phase'[r] = "expire"
    BY <1>4 DEF JudgeSession, Goto, TypeOK
  <2> QED
    BY <1>1, <1>2, <1>3, <2>1 DEF WindowInv, IdleSessionsLapse
<1>5. CASE ~Expired(r)
  <2>1. /\ phase[r] = "judge" /\ phase'[r] = "renew"
        /\ expiry'[r] = now + SESSION_DURATION
    BY <1>5 DEF JudgeSession, TypeOK, Renewed
  <2>2. now <= expiry[r] /\ now \in Int /\ expiry[r] \in Int
        /\ lastUse[cookie[r]] \in Int
    BY <1>5 DEF Expired, TypeOK, Expiry
  <2>3. cookie[r] \in live => expiry[r] <= lastUse[cookie[r]] + SESSION_DURATION
    BY <2>1 DEF WindowInv
  <2>4. cookie[r] \in live =>
          expiry'[r] - SESSION_DURATION <= lastUse[cookie[r]] + SESSION_DURATION
    BY <2>1, <2>2, <2>3
  <2> QED
    BY <1>1, <1>2, <1>3, <2>1, <2>4 DEF WindowInv, IdleSessionsLapse
<1> QED
  BY <1>4, <1>5

\* A renewal moves the window of its own row only.
LEMMA RenewWindow ==
    ASSUME TypeOK, LockInv, TimeInv, WindowInv,
           NEW r \in Request, CommitRenewal(r)
    PROVE  WindowInv'
<1>1. /\ phase[r] = "renewing" /\ phase'[r] = "served"
      /\ cookie[r] \in live /\ UNCHANGED <<now, live, cookie>>
  BY DEF CommitRenewal, Answer, TypeOK, LockInv, Holding
<1>2. (\A s \in live : lastUse[s] <= now)' /\ SlidingWindow'
  <2>1. live' = live \cup {cookie[r]}
    BY <1>1
  <2> QED
    BY <1>1, <2>1, WriteWindow DEF CommitRenewal
<1>3. ASSUME NEW q \in Request, phase'[q] \in {"judge", "renew", "renewing"}
      PROVE  UNCHANGED <<phase[q], expiry[q]>>
  BY <1>1, <1>3 DEF CommitRenewal, Answer, TypeOK
<1>4. ASSUME NEW s \in live
      PROVE  /\ lastUse[s] <= lastUse'[s]
             /\ lastUse[s] \in Int /\ lastUse'[s] \in Int
  BY <1>4 DEF CommitRenewal, WindowInv, TypeOK
<1>5. \A q \in Request : expiry[q] \in Int
  BY DEF TypeOK, Expiry
<1> QED
  BY <1>1, <1>2, <1>3, <1>4, <1>5 DEF WindowInv, IdleSessionsLapse

-----------------------------------------------------------------------------
(* Each part of the invariant is preserved by every step.                  *)

\* Locks follow the flushed writes and go with their transactions.
LEMMA LockStep ==
    TypeOK /\ LockInv /\ [Next]_vars => LockInv'
<1> SUFFICES ASSUME TypeOK, LockInv, [Next]_vars PROVE LockInv'
  OBVIOUS
<1> USE DEF TypeOK, LockInv, InFlight, Answered, Holding, rowVars,
            requestVars, sweepVars
<1>1. ASSUME NEW r \in Request, NEW s \in Session, CreateSession(r, s)
      PROVE  LockInv'
  BY <1>1 DEF CreateSession
<1>2. ASSUME NEW r \in Request, CommitSession(r)
      PROVE  LockInv'
  BY <1>2 DEF CommitSession, Answer
<1>3. ASSUME NEW r \in Request, NEW s \in Session,
             AdminRequest(r, s) \/ LogoutRequest(r, s)
      PROVE  LockInv'
  BY <1>3 DEF AdminRequest, LogoutRequest, Arrive
<1>4. ASSUME NEW r \in Request, SelectSession(r)
      PROVE  LockInv'
  BY <1>4 DEF SelectSession, Answer
<1>5. ASSUME NEW r \in Request, JudgeSession(r)
      PROVE  LockInv'
  BY <1>5 DEF JudgeSession, Expired, Renewed, Goto
<1>6. ASSUME NEW r \in Request, FindSession(r)
      PROVE  LockInv'
  BY <1>6 DEF FindSession, Goto, Answer
<1>7. ASSUME NEW r \in Request, FlushRenewal(r)
      PROVE  LockInv'
  BY <1>7 DEF FlushRenewal, Flush, Goto, Answer
<1>8. ASSUME NEW r \in Request, FlushExpiry(r) \/ FlushLogout(r)
      PROVE  LockInv'
  BY <1>8 DEF FlushExpiry, FlushLogout, Flush, Goto, Answer
<1>9. ASSUME NEW r \in Request, CommitRenewal(r)
      PROVE  LockInv'
  BY <1>9 DEF CommitRenewal, Answer, Unlock
<1>10. ASSUME NEW r \in Request, CommitExpiry(r) \/ CommitLogout(r)
      PROVE  LockInv'
  BY <1>10 DEF CommitExpiry, CommitLogout, CommitDelete, Answer, Unlock, Remove
<1>11. ASSUME SweepBegin
      PROVE  LockInv'
  BY <1>11 DEF SweepBegin, SweepBound
<1>12. ASSUME NEW s \in Session, SweepRow(s)
      PROVE  LockInv'
  BY <1>12 DEF SweepRow
<1>13. ASSUME SweepCommit
      PROVE  LockInv'
  BY <1>13 DEF SweepCommit, Swept, SweepEnd, Unlock, Remove
<1>14. ASSUME SweepFail
      PROVE  LockInv'
  BY <1>14 DEF SweepFail, Swept, SweepEnd, Unlock
<1>15. ASSUME Restart
      PROVE  LockInv'
  BY <1>15 DEF Restart, SweepEnd, Unlock
<1>16. ASSUME Tick
      PROVE  LockInv'
  BY <1>16 DEF Tick
<1>17. ASSUME UNCHANGED vars
      PROVE  LockInv'
  BY <1>17 DEF vars
<1> QED
  BY <1>1, <1>2, <1>3, <1>4, <1>5, <1>6, <1>7, <1>8, <1>9, <1>10, <1>11,
     <1>12, <1>13, <1>14, <1>15, <1>16, <1>17
  DEF Next, Begin, Continue, Sweep

\* A token stays unissued until its one login commits.
LEMMA TokenStep ==
    TypeOK /\ LockInv /\ TokenInv /\ [Next]_vars => TokenInv'
<1> SUFFICES ASSUME TypeOK, LockInv, TokenInv, [Next]_vars PROVE TokenInv'
  OBVIOUS
<1> USE DEF TypeOK, TokenInv, InFlight, Answered, Holding, LockInv,
            RemovedForGood, issued, rowVars, requestVars, sweepVars
<1>1. ASSUME NEW r \in Request, NEW s \in Session, CreateSession(r, s)
      PROVE  TokenInv'
  BY <1>1 DEF CreateSession
<1>2. ASSUME NEW r \in Request, CommitSession(r)
      PROVE  TokenInv'
  BY <1>2 DEF CommitSession, Answer
<1>3. ASSUME NEW r \in Request, NEW s \in Session,
             AdminRequest(r, s) \/ LogoutRequest(r, s)
      PROVE  TokenInv'
  BY <1>3 DEF AdminRequest, LogoutRequest, Arrive
<1>4. ASSUME NEW r \in Request, SelectSession(r)
      PROVE  TokenInv'
  BY <1>4 DEF SelectSession, Answer
<1>5. ASSUME NEW r \in Request, JudgeSession(r)
      PROVE  TokenInv'
  BY <1>5 DEF JudgeSession, Expired, Renewed, Goto
<1>6. ASSUME NEW r \in Request, FindSession(r)
      PROVE  TokenInv'
  BY <1>6 DEF FindSession, Goto, Answer
<1>7. ASSUME NEW r \in Request, FlushRenewal(r)
      PROVE  TokenInv'
  BY <1>7 DEF FlushRenewal, Flush, Goto, Answer
<1>8. ASSUME NEW r \in Request, FlushExpiry(r) \/ FlushLogout(r)
      PROVE  TokenInv'
  BY <1>8 DEF FlushExpiry, FlushLogout, Flush, Goto, Answer
<1>9. ASSUME NEW r \in Request, CommitRenewal(r)
      PROVE  TokenInv'
  BY <1>9 DEF CommitRenewal, Answer, Unlock
<1>10. ASSUME NEW r \in Request, CommitExpiry(r) \/ CommitLogout(r)
      PROVE  TokenInv'
  BY <1>10 DEF CommitExpiry, CommitLogout, CommitDelete, Answer, Unlock, Remove
<1>11. ASSUME SweepBegin
      PROVE  TokenInv'
  BY <1>11 DEF SweepBegin, SweepBound
<1>12. ASSUME NEW s \in Session, SweepRow(s)
      PROVE  TokenInv'
  BY <1>12 DEF SweepRow
<1>13. ASSUME SweepCommit
      PROVE  TokenInv'
  BY <1>13 DEF SweepCommit, Swept, SweepEnd, Unlock, Remove
<1>14. ASSUME SweepFail
      PROVE  TokenInv'
  BY <1>14 DEF SweepFail, Swept, SweepEnd, Unlock
<1>15. ASSUME Restart
      PROVE  TokenInv'
  BY <1>15 DEF Restart, SweepEnd, Unlock
<1>16. ASSUME Tick
      PROVE  TokenInv'
  BY <1>16 DEF Tick
<1>17. ASSUME UNCHANGED vars
      PROVE  TokenInv'
  BY <1>17 DEF vars
<1> QED
  BY <1>1, <1>2, <1>3, <1>4, <1>5, <1>6, <1>7, <1>8, <1>9, <1>10, <1>11,
     <1>12, <1>13, <1>14, <1>15, <1>16, <1>17
  DEF Next, Begin, Continue, Sweep

\* What the sweep holds nobody else renews, and its cutoff only ages.
LEMMA SweepStep ==
    TypeOK /\ LockInv /\ TokenInv /\ SweepInv /\ [Next]_vars => SweepInv'
<1> SUFFICES ASSUME TypeOK, LockInv, TokenInv, SweepInv, [Next]_vars
             PROVE  SweepInv'
  OBVIOUS
<1> USE DEF TypeOK, SweepInv, InFlight, Answered, Holding, LockInv, rowVars,
            requestVars, sweepVars
<1>1. ASSUME NEW r \in Request, NEW s \in Session, CreateSession(r, s)
      PROVE  SweepInv'
  BY <1>1 DEF CreateSession
<1>2. ASSUME NEW r \in Request, CommitSession(r)
      PROVE  SweepInv'
  <2>1. cookie[r] \notin live /\ holder[cookie[r]] = NoOne
    BY <1>2 DEF CommitSession, TokenInv, issued
  <2> QED
    BY <1>2, <2>1 DEF CommitSession, Answer
<1>3. ASSUME NEW r \in Request, NEW s \in Session,
             AdminRequest(r, s) \/ LogoutRequest(r, s)
      PROVE  SweepInv'
  BY <1>3 DEF AdminRequest, LogoutRequest, Arrive
<1>4. ASSUME NEW r \in Request, SelectSession(r)
      PROVE  SweepInv'
  BY <1>4 DEF SelectSession, Answer
<1>5. ASSUME NEW r \in Request, JudgeSession(r)
      PROVE  SweepInv'
  BY <1>5 DEF JudgeSession, Expired, Renewed, Goto
<1>6. ASSUME NEW r \in Request, FindSession(r)
      PROVE  SweepInv'
  BY <1>6 DEF FindSession, Goto, Answer
<1>7. ASSUME NEW r \in Request, FlushRenewal(r)
      PROVE  SweepInv'
  BY <1>7 DEF FlushRenewal, Flush, Goto, Answer
<1>8. ASSUME NEW r \in Request, FlushExpiry(r) \/ FlushLogout(r)
      PROVE  SweepInv'
  BY <1>8 DEF FlushExpiry, FlushLogout, Flush, Goto, Answer
<1>9. ASSUME NEW r \in Request, CommitRenewal(r)
      PROVE  SweepInv'
  BY <1>9 DEF CommitRenewal, Answer, Unlock
<1>10. ASSUME NEW r \in Request, CommitExpiry(r) \/ CommitLogout(r)
      PROVE  SweepInv'
  BY <1>10 DEF CommitExpiry, CommitLogout, CommitDelete, Answer, Unlock, Remove
<1>11. ASSUME SweepBegin
      PROVE  SweepInv'
  BY <1>11 DEF SweepBegin, SweepBound
<1>12. ASSUME NEW s \in Session, SweepRow(s)
      PROVE  SweepInv'
  BY <1>12 DEF SweepRow
<1>13. ASSUME SweepCommit
      PROVE  SweepInv'
  BY <1>13 DEF SweepCommit, Swept, SweepEnd, Unlock, Remove
<1>14. ASSUME SweepFail
      PROVE  SweepInv'
  BY <1>14 DEF SweepFail, Swept, SweepEnd, Unlock
<1>15. ASSUME Restart
      PROVE  SweepInv'
  BY <1>15 DEF Restart, SweepEnd, Unlock
<1>16. ASSUME Tick
      PROVE  SweepInv'
  BY <1>16 DEF Tick
<1>17. ASSUME UNCHANGED vars
      PROVE  SweepInv'
  BY <1>17 DEF vars
<1> QED
  BY <1>1, <1>2, <1>3, <1>4, <1>5, <1>6, <1>7, <1>8, <1>9, <1>10, <1>11,
     <1>12, <1>13, <1>14, <1>15, <1>16, <1>17
  DEF Next, Begin, Continue, Sweep

\* Requests stay young, and what they write stays recent.
LEMMA TimeStep ==
    TypeOK /\ TimeInv /\ [Next]_vars => TimeInv'
<1> SUFFICES ASSUME TypeOK, TimeInv, [Next]_vars PROVE TimeInv'
  OBVIOUS
<1> USE DEF TypeOK, TimeInv, InFlight, Answered, Holding, rowVars,
            requestVars, sweepVars
<1>1. ASSUME NEW r \in Request, NEW s \in Session, CreateSession(r, s)
      PROVE  TimeInv'
  BY <1>1 DEF CreateSession
<1>2. ASSUME NEW r \in Request, CommitSession(r)
      PROVE  TimeInv'
  BY <1>2 DEF CommitSession, Answer
<1>3. ASSUME NEW r \in Request, NEW s \in Session,
             AdminRequest(r, s) \/ LogoutRequest(r, s)
      PROVE  TimeInv'
  BY <1>3 DEF AdminRequest, LogoutRequest, Arrive
<1>4. ASSUME NEW r \in Request, SelectSession(r)
      PROVE  TimeInv'
  BY <1>4 DEF SelectSession, Answer
<1>5. ASSUME NEW r \in Request, JudgeSession(r)
      PROVE  TimeInv'
  BY <1>5 DEF JudgeSession, Expired, Renewed, Goto
<1>6. ASSUME NEW r \in Request, FindSession(r)
      PROVE  TimeInv'
  BY <1>6 DEF FindSession, Goto, Answer
<1>7. ASSUME NEW r \in Request, FlushRenewal(r)
      PROVE  TimeInv'
  BY <1>7 DEF FlushRenewal, Flush, Goto, Answer
<1>8. ASSUME NEW r \in Request, FlushExpiry(r) \/ FlushLogout(r)
      PROVE  TimeInv'
  BY <1>8 DEF FlushExpiry, FlushLogout, Flush, Goto, Answer
<1>9. ASSUME NEW r \in Request, CommitRenewal(r)
      PROVE  TimeInv'
  BY <1>9 DEF CommitRenewal, Answer, Unlock
<1>10. ASSUME NEW r \in Request, CommitExpiry(r) \/ CommitLogout(r)
      PROVE  TimeInv'
  BY <1>10 DEF CommitExpiry, CommitLogout, CommitDelete, Answer, Unlock, Remove
<1>11. ASSUME SweepBegin
      PROVE  TimeInv'
  BY <1>11 DEF SweepBegin, SweepBound
<1>12. ASSUME NEW s \in Session, SweepRow(s)
      PROVE  TimeInv'
  BY <1>12 DEF SweepRow
<1>13. ASSUME SweepCommit
      PROVE  TimeInv'
  BY <1>13 DEF SweepCommit, Swept, SweepEnd, Unlock, Remove
<1>14. ASSUME SweepFail
      PROVE  TimeInv'
  BY <1>14 DEF SweepFail, Swept, SweepEnd, Unlock
<1>15. ASSUME Restart
      PROVE  TimeInv'
  BY <1>15 DEF Restart, SweepEnd, Unlock
<1>16. ASSUME Tick
      PROVE  TimeInv'
  BY <1>16, TickTime
<1>17. ASSUME UNCHANGED vars
      PROVE  TimeInv'
  BY <1>17 DEF vars
<1> QED
  BY <1>1, <1>2, <1>3, <1>4, <1>5, <1>6, <1>7, <1>8, <1>9, <1>10, <1>11,
     <1>12, <1>13, <1>14, <1>15, <1>16, <1>17
  DEF Next, Begin, Continue, Sweep

\* What a request has read stays true for it, whatever commits beside it.
LEMMA GraceStep ==
    TypeOK /\ LockInv /\ SweepInv /\ TokenInv /\ TimeInv
      /\ GraceInv /\ [Next]_vars => GraceInv'
<1> SUFFICES ASSUME TypeOK, LockInv, SweepInv, TokenInv, TimeInv, GraceInv,
                    [Next]_vars
             PROVE  GraceInv'
  OBVIOUS
<1> USE DEF TypeOK, GraceInv, InFlight, Answered, Holding, TimeInv, TokenInv,
            SweepInv, LockInv, RemovedForGood, issued, rowVars, requestVars,
            sweepVars
<1>1. ASSUME NEW r \in Request, NEW s \in Session, CreateSession(r, s)
      PROVE  GraceInv'
  BY <1>1 DEF CreateSession
<1>2. ASSUME NEW r \in Request, CommitSession(r)
      PROVE  GraceInv'
  BY <1>2 DEF CommitSession, Answer
<1>3. ASSUME NEW r \in Request, NEW s \in Session,
             AdminRequest(r, s) \/ LogoutRequest(r, s)
      PROVE  GraceInv'
  BY <1>3 DEF AdminRequest, LogoutRequest, Arrive
<1>4. ASSUME NEW r \in Request, SelectSession(r)
      PROVE  GraceInv'
  BY <1>4 DEF SelectSession, Answer
<1>5. ASSUME NEW r \in Request, JudgeSession(r)
      PROVE  GraceInv'
  BY <1>5, JudgeGrace
<1>6. ASSUME NEW r \in Request, FindSession(r)
      PROVE  GraceInv'
  BY <1>6 DEF FindSession, Goto, Answer
<1>7. ASSUME NEW r \in Request, FlushRenewal(r)
      PROVE  GraceInv'
  <2>1. CASE cookie[r] \in live
    BY <1>7, <2>1 DEF FlushRenewal, Flush, Goto
  <2>2. CASE cookie[r] \notin live
    <3>1. removedBy[cookie[r]] \in {"logout", "lapse"}
      BY <1>7, <2>2 DEF FlushRenewal, Flush, Causes
    <3> QED
      BY <1>7, <2>2, <3>1 DEF FlushRenewal, Flush, Answer
  <2> QED
    BY <2>1, <2>2
<1>8. ASSUME NEW r \in Request, FlushExpiry(r) \/ FlushLogout(r)
      PROVE  GraceInv'
  BY <1>8 DEF FlushExpiry, FlushLogout, Flush, Goto, Answer
<1>9. ASSUME NEW r \in Request, CommitRenewal(r)
      PROVE  GraceInv'
  BY <1>9, RenewGrace
<1>10. ASSUME NEW r \in Request, CommitExpiry(r) \/ CommitLogout(r)
      PROVE  GraceInv'
  BY <1>10 DEF CommitExpiry, CommitLogout, CommitDelete, Answer, Unlock, Remove
<1>11. ASSUME SweepBegin
      PROVE  GraceInv'
  BY <1>11 DEF SweepBegin, SweepBound
<1>12. ASSUME NEW s \in Session, SweepRow(s)
      PROVE  GraceInv'
  BY <1>12 DEF SweepRow
<1>13. ASSUME SweepCommit
      PROVE  GraceInv'
  BY <1>13, SweepGrace
<1>14. ASSUME SweepFail
      PROVE  GraceInv'
  BY <1>14 DEF SweepFail, Swept, SweepEnd, Unlock
<1>15. ASSUME Restart
      PROVE  GraceInv'
  BY <1>15 DEF Restart, SweepEnd, Unlock
<1>16. ASSUME Tick
      PROVE  GraceInv'
  BY <1>16, TickGrace
<1>17. ASSUME UNCHANGED vars
      PROVE  GraceInv'
  BY <1>17 DEF vars
<1> QED
  BY <1>1, <1>2, <1>3, <1>4, <1>5, <1>6, <1>7, <1>8, <1>9, <1>10, <1>11,
     <1>12, <1>13, <1>14, <1>15, <1>16, <1>17
  DEF Next, Begin, Continue, Sweep

\* Every use of a session moves its window, and nothing else does.
LEMMA WindowStep ==
    TypeOK /\ LockInv /\ TokenInv /\ TimeInv /\ WindowInv
      /\ [Next]_vars => WindowInv'
<1> SUFFICES ASSUME TypeOK, LockInv, TokenInv, TimeInv, WindowInv, [Next]_vars
             PROVE  WindowInv'
  OBVIOUS
<1> USE DEF TypeOK, WindowInv, InFlight, Answered, Holding, TimeInv, TokenInv,
            LockInv, SlidingWindow, IdleSessionsLapse, RemovedForGood, issued,
            rowVars, requestVars, sweepVars
<1>1. ASSUME NEW r \in Request, NEW s \in Session, CreateSession(r, s)
      PROVE  WindowInv'
  BY <1>1 DEF CreateSession
<1>2. ASSUME NEW r \in Request, CommitSession(r)
      PROVE  WindowInv'
  BY <1>2, InsertWindow
<1>3. ASSUME NEW r \in Request, NEW s \in Session,
             AdminRequest(r, s) \/ LogoutRequest(r, s)
      PROVE  WindowInv'
  BY <1>3 DEF AdminRequest, LogoutRequest, Arrive
<1>4. ASSUME NEW r \in Request, SelectSession(r)
      PROVE  WindowInv'
  BY <1>4 DEF SelectSession, Answer
<1>5. ASSUME NEW r \in Request, JudgeSession(r)
      PROVE  WindowInv'
  BY <1>5, JudgeWindow
<1>6. ASSUME NEW r \in Request, FindSession(r)
      PROVE  WindowInv'
  BY <1>6 DEF FindSession, Goto, Answer
<1>7. ASSUME NEW r \in Request, FlushRenewal(r)
      PROVE  WindowInv'
  BY <1>7 DEF FlushRenewal, Flush, Goto, Answer
<1>8. ASSUME NEW r \in Request, FlushExpiry(r) \/ FlushLogout(r)
      PROVE  WindowInv'
  BY <1>8 DEF FlushExpiry, FlushLogout, Flush, Goto, Answer
<1>9. ASSUME NEW r \in Request, CommitRenewal(r)
      PROVE  WindowInv'
  BY <1>9, RenewWindow
<1>10. ASSUME NEW r \in Request, CommitExpiry(r) \/ CommitLogout(r)
      PROVE  WindowInv'
  BY <1>10 DEF CommitExpiry, CommitLogout, CommitDelete, Answer, Unlock, Remove
<1>11. ASSUME SweepBegin
      PROVE  WindowInv'
  BY <1>11 DEF SweepBegin, SweepBound
<1>12. ASSUME NEW s \in Session, SweepRow(s)
      PROVE  WindowInv'
  BY <1>12 DEF SweepRow
<1>13. ASSUME SweepCommit
      PROVE  WindowInv'
  BY <1>13 DEF SweepCommit, Swept, SweepEnd, Unlock, Remove
<1>14. ASSUME SweepFail
      PROVE  WindowInv'
  BY <1>14 DEF SweepFail, Swept, SweepEnd, Unlock
<1>15. ASSUME Restart
      PROVE  WindowInv'
  BY <1>15 DEF Restart, SweepEnd, Unlock
<1>16. ASSUME Tick
      PROVE  WindowInv'
  BY <1>16 DEF Tick
<1>17. ASSUME UNCHANGED vars
      PROVE  WindowInv'
  BY <1>17 DEF vars
<1> QED
  BY <1>1, <1>2, <1>3, <1>4, <1>5, <1>6, <1>7, <1>8, <1>9, <1>10, <1>11,
     <1>12, <1>13, <1>14, <1>15, <1>16, <1>17
  DEF Next, Begin, Continue, Sweep

-----------------------------------------------------------------------------
(* The invariant, and what follows from it.                                *)

\* No request in flight, no row, no lock: every part holds at the start.
LEMMA InitInvariant == Init => IInv
<1> SUFFICES ASSUME Init PROVE IInv
  OBVIOUS
<1>1. TypeOK
  BY InitType
<1>2. LockInv /\ SweepInv
  BY DEF Init, LockInv, SweepInv, Holding
<1>3. TokenInv
  BY DEF Init, TokenInv, RemovedForGood, issued
<1>4. TimeInv /\ GraceInv
  BY DEF Init, TimeInv, GraceInv, InFlight, Answered
<1>5. WindowInv
  BY DEF Init, WindowInv, SlidingWindow, IdleSessionsLapse
<1> QED
  BY <1>1, <1>2, <1>3, <1>4, <1>5 DEF IInv

\* Every reachable state satisfies the inductive invariant.
THEOREM Invariance == Spec => []IInv
<1>1. IInv /\ [Next]_vars => IInv'
  BY TypeStep, LockStep, TokenStep, SweepStep, TimeStep, GraceStep, WindowStep
  DEF IInv
<1>2. QED
  BY <1>1, InitInvariant, PTL DEF Spec

\* A removed row never comes back.
THEOREM RowsRemovedForGood == Spec => []RemovedForGood
<1>1. IInv => RemovedForGood
  BY DEF IInv, TokenInv
<1>2. QED
  BY <1>1, Invariance, PTL

\* With a grace period no shorter than a request's life, the sweep takes no
\* row away from a lookup that found it unexpired.
THEOREM GraceSuffices == Spec => []GraceProtectsLookups
<1>1. IInv => GraceProtectsLookups
  BY DEF IInv, GraceInv, GraceProtectsLookups
<1>2. QED
  BY <1>1, Invariance, PTL

\* A session that was not used for its whole duration is not let through
\* again, however its lookups, renewals and sweeps interleaved.
THEOREM IdleLapse == Spec => []IdleSessionsLapse
<1>1. IInv => IdleSessionsLapse
  BY DEF IInv, WindowInv
<1>2. QED
  BY <1>1, Invariance, PTL

\* A used session keeps a full duration but for one request's latency.
THEOREM ExpirySlides == Spec => []SlidingWindow
<1>1. IInv => SlidingWindow
  BY DEF IInv, WindowInv
<1>2. QED
  BY <1>1, Invariance, PTL

\* Only the commit of a renewal serves a request, and its row is there.
LEMMA ServingStep ==
    ASSUME IInv, Next, NEW r \in Request,
           phase[r] # "served", phase'[r] = "served"
    PROVE  CommitRenewal(r) /\ cookie[r] \in live /\ live' = live
<1> USE DEF IInv, TypeOK, rowVars, requestVars
<1>1. CommitRenewal(r)
  <2>1. ASSUME NEW q \in Request, Begin(q) \/ Continue(q)
        PROVE  CommitRenewal(r)
    BY <2>1 DEF Begin, Continue, CreateSession, AdminRequest, LogoutRequest,
                Arrive, CommitSession, SelectSession, JudgeSession,
                FindSession, FlushRenewal, FlushExpiry, FlushLogout, Flush,
                CommitRenewal, CommitExpiry, CommitLogout, CommitDelete,
                Goto, Answer
  <2>2. ASSUME Sweep \/ SweepFail \/ Restart \/ Tick
        PROVE  FALSE
    BY <2>2 DEF Sweep, SweepBegin, SweepRow, SweepCommit, SweepFail, Restart,
                Tick, InFlight
  <2> QED
    BY <2>1, <2>2 DEF Next
<1>2. cookie[r] \in live
  BY <1>1 DEF CommitRenewal, LockInv, Holding
<1> QED
  BY <1>1, <1>2 DEF CommitRenewal

\* A request succeeds only at an instant at which its session's row exists.
THEOREM ServedWhileLive == Spec => ServedOnlyIfLive
<1>1. IInv /\ [Next]_vars =>
        [\A r \in Request :
            phase[r] # "served" /\ phase'[r] = "served"
               => cookie[r] \in live /\ cookie[r] \in live']_vars
  BY ServingStep
<1>2. QED
  BY <1>1, Invariance, PTL DEF Spec, ServedOnlyIfLive

-----------------------------------------------------------------------------
(* Refinement of the ledger.                                               *)

\* The empty table is the empty ledger.
LEMMA LedgerStart == Init => Ledger!LedgerInit
BY DEF Init, Ledger!LedgerInit, servedFor

\* A step that ends no request successfully and opens or closes no session
\* changes the ledger at most by forgetting an answer.
LEMMA LedgerForgets ==
    ASSUME IInv, NEW r \in Request,
           UNCHANGED <<live, removedBy>>, phase'[r] # "served",
           \A q \in Request : q # r => UNCHANGED <<phase[q], cookie[q]>>
    PROVE  Ledger!Forget(r)
BY DEF Ledger!Forget, servedFor

\* The commit of a login opens a session that was never open before.
LEMMA LedgerOpens ==
    ASSUME IInv, NEW r \in Request, CommitSession(r)
    PROVE  Ledger!Open(cookie[r])
<1>1. cookie[r] \notin issued
  BY DEF CommitSession, IInv, TokenInv
<1>2. servedFor' = servedFor
  BY DEF CommitSession, Answer, servedFor, IInv, TypeOK
<1>3. live' = live \cup {cookie[r]} /\ removedBy' = removedBy
  BY DEF CommitSession
<1> QED
  BY <1>1, <1>2, <1>3 DEF Ledger!Open, issued

\* The commit of a renewal serves a request while its session is open.
LEMMA LedgerServes ==
    ASSUME IInv, NEW r \in Request, CommitRenewal(r)
    PROVE  Ledger!Serve(r, cookie[r])
<1>1. cookie[r] \in live
  BY DEF CommitRenewal, IInv, LockInv, Holding, TypeOK
<1>2. /\ UNCHANGED <<live, removedBy, cookie>>
      /\ phase' = [phase EXCEPT ![r] = "served"]
  BY DEF CommitRenewal, Answer
<1>3. servedFor' = [servedFor EXCEPT ![r] = cookie[r]]
  BY <1>2 DEF servedFor, IInv, TypeOK
<1> QED
  BY <1>1, <1>2, <1>3 DEF Ledger!Serve

\* A delete closes the session, and answers no request successfully.
LEMMA LedgerCloses ==
    ASSUME IInv, NEW S \in SUBSET Session, S \subseteq live,
           NEW cause \in Causes \ {"none"}, Remove(S, cause),
           servedFor' = servedFor
    PROVE  Ledger!Close(S)
<1>1. {s \in Session : removedBy'[s] # "none"}
        = {s \in Session : removedBy[s] # "none"} \cup S
  BY DEF Remove, Causes
<1> QED
  BY <1>1 DEF Ledger!Close, Remove

\* Every step of the session store is a step of the ledger or a stutter.
LEMMA LedgerStep ==
    IInv /\ [Next]_vars => [Ledger!LedgerNext]_(Ledger!ledgerVars)
<1> SUFFICES ASSUME IInv, [Next]_vars
             PROVE  Ledger!LedgerNext \/ UNCHANGED Ledger!ledgerVars
  OBVIOUS
<1> TypeOK
  BY DEF IInv
<1> USE DEF rowVars, requestVars, sweepVars
<1>1. ASSUME NEW r \in Request, NEW s \in Session,
             CreateSession(r, s) \/ AdminRequest(r, s) \/ LogoutRequest(r, s)
      PROVE  Ledger!Forget(r)
  BY <1>1, LedgerForgets
  DEF CreateSession, AdminRequest, LogoutRequest, Arrive, TypeOK
<1>2. ASSUME NEW r \in Request,
             SelectSession(r) \/ JudgeSession(r) \/ FindSession(r)
      PROVE  Ledger!Forget(r)
  BY <1>2, LedgerForgets
  DEF SelectSession, JudgeSession, FindSession, Goto, Answer, TypeOK
<1>3. ASSUME NEW r \in Request,
             FlushRenewal(r) \/ FlushExpiry(r) \/ FlushLogout(r)
      PROVE  Ledger!Forget(r)
  BY <1>3, LedgerForgets
  DEF FlushRenewal, FlushExpiry, FlushLogout, Flush, Goto, Answer, TypeOK
<1>4. ASSUME NEW r \in Request, CommitExpiry(r) \/ CommitLogout(r)
      PROVE  Ledger!Close({cookie[r]})
  <2>1. cookie[r] \in live /\ {cookie[r]} \in SUBSET Session
    BY <1>4 DEF CommitExpiry, CommitLogout, CommitDelete, IInv, LockInv,
                Holding, TypeOK
  <2>2. servedFor' = servedFor
    BY <1>4 DEF CommitExpiry, CommitLogout, CommitDelete, Answer, servedFor,
                TypeOK
  <2>3. PICK cause \in Causes \ {"none"} : Remove({cookie[r]}, cause)
    BY <1>4 DEF CommitExpiry, CommitLogout, CommitDelete, Causes
  <2>4. {cookie[r]} \subseteq live
    BY <2>1
  <2> QED
    BY <2>1, <2>2, <2>3, <2>4, LedgerCloses DEF Ledger!Close, Remove
<1>5. ASSUME SweepCommit
      PROVE  Ledger!Close(Swept)
  <2>1. Swept \in SUBSET Session /\ Swept \subseteq live
    BY DEF Swept, IInv, LockInv
  <2>2. servedFor' = servedFor
    BY <1>5 DEF SweepCommit, servedFor
  <2>3. Remove(Swept, "sweep") /\ "sweep" \in Causes \ {"none"}
    BY <1>5 DEF SweepCommit, Causes
  <2> QED
    BY <2>1, <2>2, <2>3, LedgerCloses DEF Ledger!Close, Remove
<1>6. ASSUME SweepBegin \/ (\E s \in Session : SweepRow(s)) \/ SweepFail
             \/ Tick \/ UNCHANGED vars
      PROVE  UNCHANGED Ledger!ledgerVars
  BY <1>6 DEF SweepBegin, SweepRow, SweepFail, Tick, vars, servedFor,
              Ledger!ledgerVars
<1>7. ASSUME Restart
      PROVE  UNCHANGED Ledger!ledgerVars
  <2>1. servedFor' = servedFor
    BY <1>7 DEF Restart, servedFor, InFlight, Answered
  <2> QED
    BY <1>7, <2>1 DEF Restart, Ledger!ledgerVars
<1>8. ASSUME NEW r \in Request, Begin(r) \/ Continue(r)
      PROVE  Ledger!LedgerNext
  <2>1. cookie[r] \in Session /\ {cookie[r]} \in SUBSET Session
    BY DEF TypeOK
  <2>2. \/ Ledger!Forget(r) \/ Ledger!Open(cookie[r])
        \/ Ledger!Serve(r, cookie[r]) \/ Ledger!Close({cookie[r]})
    BY <1>1, <1>2, <1>3, <1>4, <1>8, LedgerOpens, LedgerServes
    DEF Begin, Continue
  <2> QED
    BY <2>1, <2>2
    DEF Ledger!LedgerNext, Ledger!Open, Ledger!Serve, Ledger!Close
<1>9. ASSUME SweepCommit
      PROVE  Ledger!LedgerNext
  <2>1. Swept \in SUBSET Session
    BY DEF Swept
  <2> QED
    BY <1>5, <1>9, <2>1 DEF Ledger!LedgerNext, Ledger!Close
<1> QED
  BY <1>6, <1>7, <1>8, <1>9 DEF Next, Sweep

\* The session store implements the ledger.
THEOREM Refinement == Spec => ImplementsLedger
<1>1. QED
  BY LedgerStart, LedgerStep, Invariance, PTL
  DEF Spec, ImplementsLedger, Ledger!LedgerSpec

=============================================================================
