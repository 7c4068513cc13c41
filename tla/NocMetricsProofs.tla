-------------------------- MODULE NocMetricsProofs --------------------------
(***************************************************************************)
(* Proofs about NocMetrics, for every bound on requests, failures and time *)
(* and every purge interval.                                               *)
(***************************************************************************)
EXTENDS NocMetrics, TLAPS

USE NocAssumption

-----------------------------------------------------------------------------
(* The inductive invariant.                                                *)

\* Nothing is counted, read or reported at the start.
LEMMA InvariantHolds == Init => IInv
BY DEF Init, IInv, TypeOK, Counts, Moment, Zero, Start, TallyInv, Pending,
       ReplyInv, BaseInv, ChainInv, ReadAt

\* A poll gives the reply its link to the base, Receive turns that link into
\* a delta within what was served, and Insert reports it. A restart of the
\* backend leaves every earlier reading behind the counters, and so within
\* what had been served.
LEMMA InvariantStep == IInv /\ [Next]_vars => IInv'
<1> SUFFICES ASSUME IInv, [Next]_vars PROVE IInv'
  OBVIOUS
<1> USE DEF IInv, TypeOK, Counts, Moment, Zero, Start, backendVars, pollVars,
            tableVars, TallyInv, Pending, ReplyInv, BaseInv, ChainInv, ReadAt
<1>1. CASE Serve
  BY <1>1 DEF Serve
<1>2. CASE ServeRaises
  BY <1>2 DEF ServeRaises
<1>3. CASE RestartBackend
  BY <1>3 DEF RestartBackend
<1>4. CASE Poll
  BY <1>4 DEF Poll
<1>5. CASE PollFails
  BY <1>5 DEF PollFails
<1>6. CASE Receive
  BY <1>6 DEF Receive, Change, Base
<1>7. CASE Insert
  BY <1>7 DEF Insert, EndCycle
<1>8. CASE InsertFails
  BY <1>8 DEF InsertFails, EndCycle
<1>9. CASE Purge
  BY <1>9 DEF Purge, Expired
<1>10. CASE PurgeFails
  BY <1>10 DEF PurgeFails
<1>11. CASE RestartPoller
  BY <1>11 DEF RestartPoller
<1>12. CASE Tick
  BY <1>12 DEF Tick
<1>13. CASE UNCHANGED vars
  BY <1>13 DEF vars
<1> QED
  BY <1>1, <1>2, <1>3, <1>4, <1>5, <1>6, <1>7, <1>8, <1>9, <1>10, <1>11, <1>12, <1>13 DEF Next, Backend, Poller

\* The state is of its type, and the history links totals to what was served.
THEOREM Invariance == Spec => []IInv
<1>1. QED
  BY InvariantHolds, InvariantStep, PTL DEF Spec

-----------------------------------------------------------------------------
(* What the samples report.                                                *)

\* The variables always have their types.
THEOREM TypeCorrect == Spec => []TypeOK
<1>1. IInv => TypeOK
  BY DEF IInv
<1> QED
  BY <1>1, Invariance, PTL

\* The samples never report more requests than the backends served.
THEOREM NothingOvercounted == Spec => []NeverOvercounts
<1>1. IInv => NeverOvercounts
  BY DEF IInv, TypeOK, Counts, TallyInv, Pending, NeverOvercounts
<1> QED
  BY <1>1, Invariance, PTL

\* Two polls in a row of one backend process give the exact difference.
THEOREM DeltasExact == Spec => ExactBetweenResets
<1> DEFINE Exact ==
      step = "reply" /\ step' = "insert" /\ delta' # NULL /\ prev # NULL
        /\ answerAt.epoch = prevAt.epoch
        => delta'.requests = answerAt.served - prevAt.served
<1>1. ASSUME IInv, [Next]_vars PROVE [Exact]_vars
  <2> SUFFICES ASSUME step = "reply", step' = "insert", delta' # NULL,
                      prev # NULL, answerAt.epoch = prevAt.epoch
               PROVE  delta'.requests = answerAt.served - prevAt.served
    BY DEF Exact
  <2>1. Receive
    BY <1>1 DEF Next, Backend, Poller, Serve, ServeRaises, RestartBackend, Poll,
                PollFails, Insert, InsertFails, EndCycle, Purge, PurgeFails,
                RestartPoller, Tick, vars, pollVars
  <2>2. delta'.requests = Change(answer.requests, prev.requests)
    BY <2>1 DEF Receive
  <2>3. /\ answer.requests - prev.requests = answerAt.served - prevAt.served
        /\ prevAt.served <= answerAt.served
    BY <1>1 DEF IInv, ChainInv
  <2>4. /\ answer.requests \in Int /\ prev.requests \in Int
        /\ answerAt.served \in Int /\ prevAt.served \in Int
    BY <1>1 DEF IInv, TypeOK, Counts, Moment
  <2> QED
    BY <2>2, <2>3, <2>4 DEF Change
<1> QED
  BY <1>1, Invariance, PTL DEF Spec, ExactBetweenResets, Exact

=============================================================================
