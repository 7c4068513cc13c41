------------------------------ MODULE Sessions ------------------------------
(***************************************************************************)
(* The server-side session store behind the admin cookie: the rows of      *)
(* admin_sessions, the requests that create them (login), check and renew  *)
(* them (get_current_admin) or remove them (logout), and the retention     *)
(* sweep that collects the ones nobody looks up again.                     *)
(*                                                                         *)
(* Every request is a coroutine with its own database transaction, so a    *)
(* request is split at its awaits: the SELECT, the judgement made in       *)
(* Python on what the SELECT returned, the flushed UPDATE or DELETE (which *)
(* takes the row lock and waits for another transaction's), the COMMIT.    *)
(* Reads are READ COMMITTED: they see committed rows and never wait.       *)
(***************************************************************************)
EXTENDS Integers

CONSTANTS
    Request,                \* concurrent request slots of the one backend
    Session,                \* opaque session tokens
    Sweeper,                \* the retention task
    NoOne,                  \* no holder of a row lock
    SESSION_DURATION,
    EXPIRED_SESSION_GRACE,
    MaxLatency,             \* a request is answered within this time
    MaxTime,                \* bound: the clock stops here
    MaxFailures             \* bound: failed sweeps and restarts in a behaviour

ASSUME TimingAssumption ==
    /\ SESSION_DURATION \in Nat
    /\ EXPIRED_SESSION_GRACE \in Nat
    /\ MaxLatency \in Nat
    /\ MaxTime \in Nat
    /\ MaxFailures \in Nat
    /\ MaxLatency <= EXPIRED_SESSION_GRACE
    /\ MaxLatency <= SESSION_DURATION

ASSUME ActorAssumption ==
    /\ Sweeper \notin Request
    /\ NoOne \notin Request \cup {Sweeper} \cup Session

VARIABLES
    now,        \* datetime.now(timezone.utc) of the one backend process
    live,       \* tokens that have a committed row
    expires,    \* the committed expires_at of each row
    holder,     \* who holds the row's lock: a flushed, uncommitted write
    phase,      \* where each request stands, or how the slot's last one ended
    cookie,     \* the token each request carries (or, for a login, creates)
    expiry,     \* session.expires_at of the object each request has loaded
    since,      \* when each request arrived
    sweeping,   \* is a DELETE of expired rows in progress?
    cutoff,     \* its bound on expires_at
    doomed,     \* rows its scan found and has yet to lock
    removedBy,  \* history: what removed each row
    lastUse,    \* history: the latest time each live session was used
    failures    \* sweeps and backends that have failed so far

rowVars     == <<live, expires, removedBy, lastUse>>
requestVars == <<phase, cookie, expiry, since>>
sweepVars   == <<sweeping, cutoff, doomed>>
vars == <<now, rowVars, holder, requestVars, sweepVars, failures>>

\* How the last request of a slot ended: with its answer (200, 401, 500), or
\* "idle" for a login, a logout, a request lost in a restart, or none yet.
Answered == {"idle", "served", "refused", "failed"}
Working  == {"insert", "select", "judge", "expire", "renew", "find", "drop"}
\* Requests that hold the lock of their session's row.
Holding  == {"expiring", "renewing", "dropping"}
Phase    == Answered \cup Working \cup Holding

Causes   == {"none", "logout", "lapse", "sweep"}

InFlight(r) == phase[r] \notin Answered

\* Tokens whose INSERT has committed, now or in the past.
issued == live \cup {s \in Session : removedBy[s] # "none"}

\* Every expires_at is at most a session's duration ahead of the clock.
Expiry == 0 .. (MaxTime + SESSION_DURATION)

TypeOK ==
    /\ now \in 0..MaxTime
    /\ live \in SUBSET Session
    /\ expires \in [Session -> Expiry]
    /\ holder \in [Session -> Request \cup {Sweeper, NoOne}]
    /\ phase \in [Request -> Phase]
    /\ cookie \in [Request -> Session]
    /\ expiry \in [Request -> Expiry]
    /\ since \in [Request -> 0..MaxTime]
    /\ sweeping \in BOOLEAN
    /\ cutoff \in Int
    /\ doomed \in SUBSET Session
    /\ removedBy \in [Session -> Causes]
    /\ lastUse \in [Session -> 0..MaxTime]
    /\ failures \in 0..MaxFailures

Init ==
    /\ now = 0
    /\ live = {}
    /\ expires = [s \in Session |-> 0]
    /\ holder = [s \in Session |-> NoOne]
    /\ phase = [r \in Request |-> "idle"]
    /\ \E s \in Session : cookie = [r \in Request |-> s]
    /\ expiry = [r \in Request |-> 0]
    /\ since = [r \in Request |-> 0]
    /\ sweeping = FALSE
    /\ cutoff = 0
    /\ doomed = {}
    /\ removedBy = [s \in Session |-> "none"]
    /\ lastUse = [s \in Session |-> 0]
    /\ failures = 0

\* A request moves on, keeping its local variables.
Goto(r, p) ==
    /\ phase' = [phase EXCEPT ![r] = p]
    /\ UNCHANGED <<cookie, expiry, since>>

\* A request ends, and its local variables are gone.
Answer(r, a) ==
    /\ phase' = [phase EXCEPT ![r] = a]
    /\ expiry' = [expiry EXCEPT ![r] = 0]
    /\ since' = [since EXCEPT ![r] = 0]
    /\ cookie' = cookie

\* Rows leave the table.
Remove(S, cause) ==
    /\ live' = live \ S
    /\ removedBy' = [s \in Session |-> IF s \in S THEN cause ELSE removedBy[s]]
    /\ expires' = [s \in Session |-> IF s \in S THEN 0 ELSE expires[s]]
    /\ lastUse' = [s \in Session |-> IF s \in S THEN 0 ELSE lastUse[s]]

\* A transaction ends, and its locks are released.
Unlock(S) == holder' = [s \in Session |-> IF s \in S THEN NoOne ELSE holder[s]]

-----------------------------------------------------------------------------
(* Login: create_session, after the credentials were accepted.             *)

\* session_id and expires_at are chosen in Python ...
CreateSession(r, s) ==
    /\ ~InFlight(r)
    /\ s \notin issued
    /\ \A q \in Request : phase[q] = "insert" => cookie[q] # s
    /\ phase' = [phase EXCEPT ![r] = "insert"]
    /\ cookie' = [cookie EXCEPT ![r] = s]
    /\ expiry' = [expiry EXCEPT ![r] = now + SESSION_DURATION]
    /\ since' = [since EXCEPT ![r] = now]
    /\ UNCHANGED <<now, rowVars, holder, sweepVars, failures>>

\* ... and the row exists, and the cookie is set, once the INSERT commits.
CommitSession(r) ==
    LET s == cookie[r] IN
    /\ phase[r] = "insert"
    /\ live' = live \cup {s}
    /\ expires' = [expires EXCEPT ![s] = expiry[r]]
    /\ lastUse' = [lastUse EXCEPT ![s] = now]
    /\ Answer(r, "idle")
    /\ UNCHANGED <<now, holder, sweepVars, removedBy, failures>>

-----------------------------------------------------------------------------
(* Lookup and logout: a request arrives with a cookie that was issued.     *)

Arrive(r, s, first) ==
    /\ ~InFlight(r)
    /\ s \in issued
    /\ phase' = [phase EXCEPT ![r] = first]
    /\ cookie' = [cookie EXCEPT ![r] = s]
    /\ since' = [since EXCEPT ![r] = now]
    /\ UNCHANGED <<now, rowVars, holder, expiry, sweepVars, failures>>

AdminRequest(r, s)  == Arrive(r, s, "select")
LogoutRequest(r, s) == Arrive(r, s, "find")

\* get_session_user reads the row; no row is a 401.
SelectSession(r) ==
    /\ phase[r] = "select"
    /\ IF cookie[r] \in live
         THEN /\ phase' = [phase EXCEPT ![r] = "judge"]
              /\ expiry' = [expiry EXCEPT ![r] = expires[cookie[r]]]
              /\ UNCHANGED <<cookie, since>>
         ELSE Answer(r, "refused")
    /\ UNCHANGED <<now, rowVars, holder, sweepVars, failures>>

\* Mutants: no expiry test; no extension.
ExpiredNever(r) == FALSE
RenewedNever(r) == expiry[r]

Expired(r) == expiry[r] < now
Renewed(r) == now + SESSION_DURATION

\* In Python: delete an expired session, renew any other.
JudgeSession(r) ==
    /\ phase[r] = "judge"
    /\ IF Expired(r)
         THEN Goto(r, "expire")
         ELSE /\ phase' = [phase EXCEPT ![r] = "renew"]
              /\ expiry' = [expiry EXCEPT ![r] = Renewed(r)]
              /\ UNCHANGED <<cookie, since>>
    /\ UNCHANGED <<now, rowVars, holder, sweepVars, failures>>

\* delete_session reads the row; without one there is nothing to delete.
FindSession(r) ==
    /\ phase[r] = "find"
    /\ IF cookie[r] \in live THEN Goto(r, "drop") ELSE Answer(r, "idle")
    /\ UNCHANGED <<now, rowVars, holder, sweepVars, failures>>

-----------------------------------------------------------------------------
(* The writes. A flushed statement waits for the row's lock and then acts  *)
(* on the latest committed row, if there still is one.                     *)

Flush(r, wanting, holding, missed) ==
    LET s == cookie[r] IN
    /\ phase[r] = wanting
    /\ holder[s] = NoOne
    /\ IF s \in live
         THEN Goto(r, holding) /\ holder' = [holder EXCEPT ![s] = r]
         ELSE Answer(r, missed) /\ holder' = holder
    /\ UNCHANGED <<now, rowVars, sweepVars, failures>>

\* Mutants: an UPDATE that matches no row goes unnoticed; the row is merged
\* back in where it is missing.
FlushRenewalUnnoticed(r) == Flush(r, "renew", "renewing", "served")
FlushRenewalMerge(r) ==
    /\ phase[r] = "renew"
    /\ holder[cookie[r]] = NoOne
    /\ live' = live \cup {cookie[r]}
    /\ holder' = [holder EXCEPT ![cookie[r]] = r]
    /\ Goto(r, "renewing")
    /\ UNCHANGED <<now, expires, removedBy, lastUse, sweepVars, failures>>

\* The autoflushed UPDATE. One that matches no row is a StaleDataError,
\* which nothing catches: the request ends with a 500.
FlushRenewal(r) == Flush(r, "renew", "renewing", "failed")

CommitRenewal(r) ==
    LET s == cookie[r] IN
    /\ phase[r] = "renewing"
    /\ expires' = [expires EXCEPT ![s] = expiry[r]]
    /\ lastUse' = [lastUse EXCEPT ![s] = now]
    /\ Unlock({s})
    /\ Answer(r, "served")
    /\ UNCHANGED <<now, live, removedBy, sweepVars, failures>>

\* The DELETE of an expired or a logged-out session. One that matches no
\* row only warns.
FlushExpiry(r) == Flush(r, "expire", "expiring", "refused")
FlushLogout(r) == Flush(r, "drop", "dropping", "idle")

CommitDelete(r, holding, cause, answer) ==
    /\ phase[r] = holding
    /\ Remove({cookie[r]}, cause)
    /\ Unlock({cookie[r]})
    /\ Answer(r, answer)
    /\ UNCHANGED <<now, sweepVars, failures>>

CommitExpiry(r) == CommitDelete(r, "expiring", "lapse", "refused")
CommitLogout(r) == CommitDelete(r, "dropping", "logout", "idle")

-----------------------------------------------------------------------------
(* purge_expired_sessions: one DELETE over the rows past the grace period. *)

Swept == {s \in Session : holder[s] = Sweeper}

\* Mutant: no grace period.
SweepBoundNoGrace == now

SweepBound == now - EXPIRED_SESSION_GRACE

\* Mutant: an exception that nothing catches ends the retention loop.
SweepBeginUntilFailure ==
    /\ ~sweeping
    /\ failures = 0
    /\ sweeping' = TRUE
    /\ cutoff' = SweepBound
    /\ doomed' = {s \in live : expires[s] < SweepBound}
    /\ UNCHANGED <<now, rowVars, holder, requestVars, failures>>

\* The statement's snapshot gives the candidate rows.
SweepBegin ==
    /\ ~sweeping
    /\ sweeping' = TRUE
    /\ cutoff' = SweepBound
    /\ doomed' = {s \in live : expires[s] < SweepBound}
    /\ UNCHANGED <<now, rowVars, holder, requestVars, failures>>

\* It waits for each candidate's lock and then looks at the row again.
SweepRow(s) ==
    /\ sweeping
    /\ s \in doomed
    /\ holder[s] = NoOne
    /\ holder' = IF s \in live /\ expires[s] < cutoff
                   THEN [holder EXCEPT ![s] = Sweeper]
                   ELSE holder
    /\ doomed' = doomed \ {s}
    /\ UNCHANGED <<now, rowVars, requestVars, sweeping, cutoff, failures>>

SweepEnd ==
    /\ sweeping' = FALSE
    /\ cutoff' = 0
    /\ doomed' = {}

SweepCommit ==
    /\ sweeping
    /\ doomed = {}
    /\ Remove(Swept, "sweep")
    /\ Unlock(Swept)
    /\ SweepEnd
    /\ UNCHANGED <<now, requestVars, failures>>

\* Mutant: the failed sweep's transaction is left open.
SweepFailLeavesLocks ==
    /\ sweeping
    /\ failures < MaxFailures
    /\ failures' = failures + 1
    /\ SweepEnd
    /\ UNCHANGED <<now, rowVars, holder, requestVars>>

\* Any exception rolls back; the loop logs it and sleeps until the next tick.
SweepFail ==
    /\ sweeping
    /\ failures < MaxFailures
    /\ failures' = failures + 1
    /\ Unlock(Swept)
    /\ SweepEnd
    /\ UNCHANGED <<now, rowVars, requestVars>>

-----------------------------------------------------------------------------

\* The backend dies and comes back: every transaction rolls back, every
\* request in flight is lost, the retention task starts over.
Restart ==
    /\ failures < MaxFailures
    /\ failures' = failures + 1
    /\ phase' = [r \in Request |-> IF InFlight(r) THEN "idle" ELSE phase[r]]
    /\ expiry' = [r \in Request |-> 0]
    /\ since' = [r \in Request |-> 0]
    /\ Unlock(Session)
    /\ SweepEnd
    /\ UNCHANGED <<now, rowVars, cookie>>

\* Time passes, but no request outlives MaxLatency.
Tick ==
    /\ now < MaxTime
    /\ \A r \in Request : InFlight(r) => now < since[r] + MaxLatency
    /\ now' = now + 1
    /\ UNCHANGED <<rowVars, holder, requestVars, sweepVars, failures>>

Begin(r) ==
    \E s \in Session : \/ CreateSession(r, s)
                       \/ AdminRequest(r, s)
                       \/ LogoutRequest(r, s)

Continue(r) ==
    \/ CommitSession(r)
    \/ SelectSession(r) \/ JudgeSession(r) \/ FindSession(r)
    \/ FlushRenewal(r)  \/ CommitRenewal(r)
    \/ FlushExpiry(r)   \/ CommitExpiry(r)
    \/ FlushLogout(r)   \/ CommitLogout(r)

Sweep == SweepBegin \/ (\E s \in Session : SweepRow(s)) \/ SweepCommit

Next ==
    \/ \E r \in Request : Begin(r) \/ Continue(r)
    \/ Sweep
    \/ SweepFail
    \/ Restart
    \/ Tick

Spec == Init /\ [][Next]_vars

\* The event loop keeps every request going, the retention loop comes round
\* to its next sweep, and whoever waits for a row lock gets it in the end:
\* PostgreSQL queues the waiters, so a stream of renewals overtakes nobody
\* for ever (hence strong fairness where a lock is waited for).
Fairness == /\ \A r \in Request : SF_vars(Continue(r))
            /\ \A s \in Session : SF_vars(SweepRow(s))
            /\ WF_vars(SweepBegin)
            /\ WF_vars(SweepCommit)

FairSpec == Spec /\ Fairness

-----------------------------------------------------------------------------
(* Properties.                                                             *)

\* A row that was removed, by a logout, an expiry or the sweep, never comes
\* back: a renewal that was in flight when the row went updates nothing, and
\* tokens are never reissued.
RemovedForGood == \A s \in live : removedBy[s] = "none"

\* A request is answered with success only if the session's row is there at
\* that moment: a logout that committed while the request was between its
\* SELECT and its COMMIT prevails.
ServedOnlyIfLive ==
    [][\A r \in Request :
          phase[r] # "served" /\ phase'[r] = "served"
             => cookie[r] \in live /\ cookie[r] \in live']_vars

\* The purpose of EXPIRED_SESSION_GRACE: the sweep never removes a row that
\* a request has found unexpired and is about to renew, so no request fails
\* because of the sweep.
GraceProtectsLookups ==
    \A r \in Request :
        phase[r] \in {"renew", "renewing", "failed"}
           => removedBy[cookie[r]] # "sweep"

\* A session that was not used for SESSION_DURATION is never used again: a
\* request whose judgement let it through was judged at most that long after
\* the session's login or its latest success.
IdleSessionsLapse ==
    \A r \in Request :
        phase[r] \in {"renew", "renewing"} /\ cookie[r] \in live
           => expiry[r] - SESSION_DURATION
                 <= lastUse[cookie[r]] + SESSION_DURATION

\* Sliding expiration under concurrent renewals: the row that remains is
\* that of the latest use, or short of it by at most one request's latency
\* (a renewal judged earlier commits later).
SlidingWindow ==
    \A s \in live :
        /\ expires[s] <= lastUse[s] + SESSION_DURATION
        /\ lastUse[s] + SESSION_DURATION <= expires[s] + MaxLatency

\* No request waits for a lock for ever, whatever the sweep and the other
\* requests hold.
RequestsAnswered == \A r \in Request : InFlight(r) ~> ~InFlight(r)

\* A session that lapsed more than a grace period ago is collected, though
\* nobody presents its cookie again and though sweeps fail.
LapsedCollected ==
    \A s \in Session :
        s \in live /\ expires[s] + EXPIRED_SESSION_GRACE < now
           ~> s \notin live

-----------------------------------------------------------------------------
(* The session store implements the ledger: a session is open while it has *)
(* a row, closed once the row is gone.                                     *)

servedFor == [r \in Request |->
                 IF phase[r] = "served" THEN cookie[r] ELSE NoOne]

Ledger == INSTANCE SessionLedger
            WITH Nobody <- NoOne,
                 open   <- live,
                 closed <- {s \in Session : removedBy[s] # "none"},
                 served <- servedFor

\* Every behaviour of the rows, locks and requests is one of the ledger: no
\* request succeeds on a closed session and none is reopened, whatever the
\* interleaving of lookups, logouts, sweeps and restarts.
ImplementsLedger == Ledger!LedgerSpec

-----------------------------------------------------------------------------
(* The inductive invariant. Each part holds because of the ones before it. *)

\* A row lock is held by exactly the transaction that has written the row,
\* and the row is there until that transaction ends.
LockInv ==
    /\ \A s \in Session : holder[s] # NoOne => s \in live
    /\ \A s \in Session, r \in Request :
          holder[s] = r => phase[r] \in Holding /\ cookie[r] = s
    /\ \A r \in Request : phase[r] \in Holding => holder[cookie[r]] = r

\* What the sweep has locked lapsed before its cutoff, a grace period ago.
SweepInv ==
    /\ sweeping => cutoff + EXPIRED_SESSION_GRACE <= now
    /\ \A s \in Session :
          holder[s] = Sweeper => sweeping /\ expires[s] < cutoff

\* A token is inserted once, and a request's cookie was issued before.
TokenInv ==
    /\ RemovedForGood
    /\ \A r \in Request :
          /\ phase[r] = "insert" => cookie[r] \notin issued
          /\ phase[r] \notin {"idle", "insert"} => cookie[r] \in issued
    /\ \A q, r \in Request :
          phase[q] = "insert" /\ phase[r] = "insert" /\ cookie[q] = cookie[r]
             => q = r

\* Requests are young, and what they write was computed in their lifetime.
TimeInv ==
    \A r \in Request :
        /\ InFlight(r) => since[r] <= now /\ now <= since[r] + MaxLatency
        /\ phase[r] \in {"insert", "renew", "renewing"}
              => /\ since[r] + SESSION_DURATION <= expiry[r]
                 /\ expiry[r] <= now + SESSION_DURATION

\* A row that a request has read is gone only if the request can tell, and
\* a row that a request has found unexpired lapses after its arrival.
GraceInv ==
    \A r \in Request :
        /\ phase[r] = "judge"
              => /\ \/ cookie[r] \notin live
                    \/ expires[cookie[r]] = expiry[r]
                    \/ since[r] <= expires[cookie[r]]
                 /\ removedBy[cookie[r]] = "sweep" => expiry[r] < now
        /\ phase[r] \in {"renew", "renewing"}
              => /\ cookie[r] \in live => since[r] <= expires[cookie[r]]
                 /\ removedBy[cookie[r]] # "sweep"
        /\ phase[r] = "failed" => removedBy[cookie[r]] \in {"logout", "lapse"}

\* A row's expiry follows its latest use, and so does what a request read.
WindowInv ==
    /\ \A s \in live : lastUse[s] <= now
    /\ SlidingWindow
    /\ \A r \in Request :
          phase[r] = "judge" /\ cookie[r] \in live
             => expiry[r] <= lastUse[cookie[r]] + SESSION_DURATION
    /\ IdleSessionsLapse

IInv == TypeOK /\ LockInv /\ SweepInv /\ TokenInv /\ TimeInv /\ GraceInv
               /\ WindowInv

-----------------------------------------------------------------------------
(* What the comments in the code say, and the code does not do.            *)

\* "an active session keeps renewing rather than hard-expiring mid-use": a
\* lookup deletes for expiry only a row that has expired.
LapseTakesOnlyLapsed ==
    [][\A s \in Session :
          removedBy[s] # "lapse" /\ removedBy'[s] = "lapse"
             => expires[s] < now]_vars

=============================================================================
