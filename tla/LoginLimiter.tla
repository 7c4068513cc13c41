---------------------------- MODULE LoginLimiter ----------------------------
(***************************************************************************)
(* The login route of the admin area for one client address: the two       *)
(* queries of check_rate_limit, the password test, the row that records    *)
(* its outcome, and the purge of old rows. Nothing holds the address       *)
(* between the check and the record, so concurrent logins of one address   *)
(* interleave at every await. Addresses do not interact: every query is    *)
(* restricted to one ip_hash.                                              *)
(*                                                                         *)
(* A row's created_at defaults to now() of the transaction that inserts    *)
(* it, and that transaction began with the first query of the check.       *)
(***************************************************************************)
EXTENDS Integers, Sequences, FiniteSets

CONSTANTS
    Request,                    \* logins the address has in flight at once
    RATE_LIMIT_WINDOW,          \* in ticks, like every time below
    RATE_LIMIT_MAX_ATTEMPTS,
    BACKOFF_CAP_SECONDS,
    LOGIN_ATTEMPT_RETENTION,
    Second,                     \* ticks in a second
    MaxLatency,                 \* a check and its password test last this long
    MaxTime,                    \* bound: the clock stops here
    MaxRows                     \* bound: attempts recorded in a behaviour

ASSUME LimiterAssumption ==
    /\ RATE_LIMIT_WINDOW \in Nat
    /\ RATE_LIMIT_MAX_ATTEMPTS \in Nat \ {0}
    /\ BACKOFF_CAP_SECONDS \in Nat
    /\ LOGIN_ATTEMPT_RETENTION \in Nat
    /\ LOGIN_ATTEMPT_RETENTION >= RATE_LIMIT_WINDOW + MaxLatency
    /\ Second \in Nat \ {0}
    /\ MaxLatency \in Nat
    /\ MaxTime \in Nat
    /\ MaxRows \in Nat
    /\ IsFiniteSet(Request)

VARIABLES
    now,
    log,        \* every row ever committed to login_attempts, by id
    kept,       \* ids of the rows that were not purged
    phase,
    began,      \* the time each request's transaction began
    counted,    \* the failures its first query counted, until its second
    before,     \* history: the rows committed when that query ran
    lastWrong   \* history: when a wrong password was last tested

limiterVars == <<log, kept>>
requestVars == <<phase, began, counted, before>>
vars == <<now, limiterVars, requestVars, lastWrong>>

Answered == {"idle", "refused"}
Phase == Answered \cup {"last", "test", "wrong", "right"}

InFlight(r) == phase[r] \notin Answered

\* The time "before the beginning" of a behaviour.
Never == 0 - RATE_LIMIT_WINDOW - 2 * MaxLatency - 1

TypeOK ==
    /\ now \in 0..MaxTime
    /\ log \in Seq([at : 0..MaxTime, success : BOOLEAN])
    /\ Len(log) <= MaxRows
    /\ kept \subseteq DOMAIN log
    /\ phase \in [Request -> Phase]
    /\ began \in [Request -> 0..MaxTime]
    /\ counted \in [Request -> 0..(RATE_LIMIT_MAX_ATTEMPTS - 1)]
    /\ before \in [Request -> 0..MaxRows]
    /\ lastWrong \in {Never} \cup 0..MaxTime

Init ==
    /\ now = 0
    /\ log = <<>>
    /\ kept = {}
    /\ phase = [r \in Request |-> "idle"]
    /\ began = [r \in Request |-> 0]
    /\ counted = [r \in Request |-> 0]
    /\ before = [r \in Request |-> 0]
    /\ lastWrong = Never

\* A request ends, and its local variables are gone.
Finish(r, answer) ==
    /\ phase' = [phase EXCEPT ![r] = answer]
    /\ began' = [began EXCEPT ![r] = 0]
    /\ counted' = [counted EXCEPT ![r] = 0]
    /\ before' = [before EXCEPT ![r] = 0]

-----------------------------------------------------------------------------
(* check_rate_limit.                                                       *)

Failures(ids) == {i \in ids : ~log[i].success}

\* Rows of the window that ends at t.
InWindow(ids, t) == {i \in ids : log[i].at >= t - RATE_LIMIT_WINDOW}

RecentFailures == Cardinality(InWindow(Failures(kept), now))

\* Mutant: the oldest failure instead of the newest.
FirstFailure ==
    CHOOSE t \in {log[i].at : i \in Failures(kept)} :
        \A i \in Failures(kept) : t <= log[i].at

LastFailure ==
    CHOOSE t \in {log[i].at : i \in Failures(kept)} :
        \A i \in Failures(kept) : log[i].at <= t

\* Mutant: one attempt too many.
AtCapLate(n) == n > RATE_LIMIT_MAX_ATTEMPTS

Backoff(n) ==
    Second * (IF 2^n < BACKOFF_CAP_SECONDS THEN 2^n ELSE BACKOFF_CAP_SECONDS)
AtCap(n) == n >= RATE_LIMIT_MAX_ATTEMPTS

\* How much longer the backoff lasts. (The caller is told whole seconds of it.)
Remaining(r) == Backoff(counted[r]) - (now - LastFailure)

\* Mutant: the refusal is recorded as one more failure.
RefuseRecorded(r) ==
    /\ Finish(r, "refused")
    /\ log' = Append(log, [at |-> now, success |-> FALSE])
    /\ kept' = kept \cup {Len(log) + 1}

\* A 429. Nothing is recorded, and nothing commits.
Refuse(r) == Finish(r, "refused") /\ UNCHANGED limiterVars

\* The first query, which begins the transaction: how many failures?
CountFailures(r) ==
    /\ ~InFlight(r)
    /\ Len(log) + Cardinality({q \in Request : InFlight(q)}) < MaxRows
    /\ IF AtCap(RecentFailures)
         THEN Refuse(r)
         ELSE /\ phase' = [phase EXCEPT
                    ![r] = IF RecentFailures = 0 THEN "test" ELSE "last"]
              /\ began' = [began EXCEPT ![r] = now]
              /\ counted' = [counted EXCEPT ![r] = RecentFailures]
              /\ before' = [before EXCEPT ![r] = Len(log)]
              /\ UNCHANGED limiterVars
    /\ UNCHANGED <<now, lastWrong>>

\* The second query: how long ago was the last failure?
CheckBackoff(r) ==
    /\ phase[r] = "last"
    /\ IF Failures(kept) # {} /\ Remaining(r) > 0
         THEN Refuse(r)
         ELSE /\ phase' = [phase EXCEPT ![r] = "test"]
              /\ counted' = [counted EXCEPT ![r] = 0]
              /\ UNCHANGED <<limiterVars, began, before>>
    /\ UNCHANGED <<now, lastWrong>>

-----------------------------------------------------------------------------
(* authenticate and record_login_attempt.                                  *)

TestPassword(r) ==
    /\ phase[r] = "test"
    /\ \E outcome \in {"wrong", "right"} :
          /\ phase' = [phase EXCEPT ![r] = outcome]
          /\ lastWrong' = IF outcome = "wrong" THEN now ELSE lastWrong
    /\ UNCHANGED <<now, limiterVars, began, counted, before>>

\* The row commits. An accepted login goes on to create its session (module
\* Sessions), a denied one is a 401.
RecordAttempt(r) ==
    /\ phase[r] \in {"wrong", "right"}
    /\ log' = Append(log, [at |-> began[r], success |-> phase[r] = "right"])
    /\ kept' = kept \cup {Len(log) + 1}
    /\ Finish(r, "idle")
    /\ UNCHANGED <<now, lastWrong>>

\* The backend dies or the database fails: the transaction rolls back, and
\* with it the record of a password that was already tested.
Abort(r) ==
    /\ InFlight(r)
    /\ Finish(r, "idle")
    /\ UNCHANGED <<now, limiterVars, lastWrong>>

-----------------------------------------------------------------------------

\* Mutant: rows are purged as soon as the backoff has run out.
PurgedAtBackoff(i) == log[i].at < now - Second * BACKOFF_CAP_SECONDS

Purged(i) == log[i].at < now - LOGIN_ATTEMPT_RETENTION

PurgeLoginAttempts ==
    /\ kept' = {i \in kept : ~Purged(i)}
    /\ kept' # kept
    /\ UNCHANGED <<now, log, requestVars, lastWrong>>

Tick ==
    /\ now < MaxTime
    /\ \A r \in Request : InFlight(r) => now < began[r] + MaxLatency
    /\ now' = now + 1
    /\ UNCHANGED <<limiterVars, requestVars, lastWrong>>

Next ==
    \/ \E r \in Request : \/ CountFailures(r) \/ CheckBackoff(r)
                          \/ TestPassword(r)  \/ RecordAttempt(r) \/ Abort(r)
    \/ PurgeLoginAttempts
    \/ Tick

Spec == Init /\ [][Next]_vars

-----------------------------------------------------------------------------
(* Properties.                                                             *)

Rows == DOMAIN log

FailuresWithin(t) ==
    {i \in Failures(Rows) : t <= log[i].at /\ log[i].at <= t + RATE_LIMIT_WINDOW}

\* The cap under concurrency: in no window are there more failures than the
\* cap and, beyond it, the logins that were in flight when it was reached.
CapWithConcurrency ==
    \A t \in 0..MaxTime :
        Cardinality(FailuresWithin(t))
           <= RATE_LIMIT_MAX_ATTEMPTS + Cardinality(Request) - 1

\* The backoff: a recorded attempt began at least a backoff after the last
\* of the failures recorded before it, less the time between the check's
\* two queries.
BackoffSpacing ==
    \A r \in Request :
        phase[r] \in {"test", "wrong", "right"} =>
          LET seen == InWindow(Failures(1..before[r]), began[r]) IN
          seen # {} =>
            \A i \in seen :
               began[r] + MaxLatency
                  >= log[i].at + Backoff(Cardinality(seen))

\* Hammering does not lock an address out: a login is refused only if a
\* wrong password was tested within the window, so refused attempts do not
\* prolong the refusal.
RefusedOnlyAfterWrong ==
    [][\A r \in Request :
          phase[r] # "refused" /\ phase'[r] = "refused"
             => lastWrong >= now - RATE_LIMIT_WINDOW - MaxLatency]_vars

\* The purge is invisible to the limiter: every check decides on the kept
\* rows what it would decide on all rows ever recorded.
PurgeInvisible ==
    /\ InWindow(Failures(kept), now) = InWindow(Failures(Rows), now)
    /\ \A r \in Request :
          phase[r] = "last" => InWindow(Failures(kept), began[r])
                                  = InWindow(Failures(Rows), began[r])

=============================================================================
