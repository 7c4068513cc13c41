----------------------------- MODULE NocMetrics -----------------------------
(***************************************************************************)
(* The request counts of the Network Health page: the counters that the    *)
(* backend process keeps (MetricsMiddleware, /internal/metrics) and the    *)
(* noc service, a second process, that polls them, turns totals into       *)
(* deltas, inserts a sample a cycle and purges old samples every so many   *)
(* cycles. Either process may restart at any time and then starts over.    *)
(***************************************************************************)
EXTENDS Integers

CONSTANTS
    NULL,                       \* None in Python, NULL in a row
    PURGE_EVERY_N_CYCLES,
    RETENTION_DAYS,             \* in ticks
    MaxTime,                    \* bound: the clock stops here
    MaxServed,                  \* bound: requests served, and 5xx answers
    MaxFailures                 \* bound: restarts and failed statements

\* What the counters say, and when.
Counts == [requests : 0..MaxServed, errors : 0..MaxServed]
Moment == [epoch : 0..MaxFailures, served : 0..MaxServed]

ASSUME NocAssumption ==
    /\ PURGE_EVERY_N_CYCLES \in Nat \ {0}
    /\ RETENTION_DAYS \in Nat
    /\ MaxTime \in Nat
    /\ MaxServed \in Nat
    /\ MaxFailures \in Nat
    /\ NULL \notin Counts \cup Moment

VARIABLES
    now,
    total,      \* RequestMetrics: requests_total and errors_total
    step,       \* where the poller's cycle stands
    answer,     \* the totals in a reply of /internal/metrics
    prev,       \* _prev_requests_total and _prev_errors_total, if there are
    delta,      \* requests_count and errors_count of the sample, if not NULL
    cycle,      \* cycles since the poller's start, modulo PURGE_EVERY_N_CYCLES
    samples,    \* sampled_at of the rows of network_health_samples
    failures,
    epoch,      \* history: how often the backend has started
    erred,      \* history: 5xx answers this backend process has sent
    served,     \* history: requests that all the backends have counted
    answerAt,   \* history: epoch and served when answer was made
    prevAt,     \* history: the same for prev
    reported    \* history: requests reported by all samples so far

pollVars == <<step, answer, prev, delta, cycle, answerAt, prevAt>>
tableVars == <<samples, reported>>
backendVars == <<total, epoch, erred, served>>
vars == <<now, backendVars, pollVars, tableVars, failures>>

Zero == [requests |-> 0, errors |-> 0]

TypeOK ==
    /\ now \in 0..MaxTime
    /\ total \in Counts
    /\ step \in {"sleep", "reply", "insert", "purge"}
    /\ answer \in Counts
    /\ prev \in Counts \cup {NULL}
    /\ delta \in Counts \cup {NULL}
    /\ cycle \in 0..(PURGE_EVERY_N_CYCLES - 1)
    /\ samples \in SUBSET (0..MaxTime)
    /\ failures \in 0..MaxFailures
    /\ epoch \in 0..MaxFailures
    /\ erred \in 0..MaxServed
    /\ served \in 0..MaxServed
    /\ answerAt \in Moment
    /\ prevAt \in Moment
    /\ reported \in 0..MaxServed

Start == [epoch |-> 0, served |-> 0]

Init ==
    /\ now = 0
    /\ total = Zero
    /\ step = "sleep"
    /\ answer = Zero
    /\ prev = NULL
    /\ delta = NULL
    /\ cycle = 0
    /\ samples = {}
    /\ failures = 0
    /\ epoch = 0
    /\ erred = 0
    /\ served = 0
    /\ answerAt = Start
    /\ prevAt = Start
    /\ reported = 0

-----------------------------------------------------------------------------
(* The backend: MetricsMiddleware around every request.                    *)

\* A response was sent, and is counted after the fact.
Serve ==
    /\ served < MaxServed
    /\ served' = served + 1
    /\ \E e \in {0, 1} :
          /\ erred + e <= MaxServed
          /\ total' = [requests |-> total.requests + 1,
                       errors |-> total.errors + e]
          /\ erred' = erred + e
    /\ UNCHANGED <<now, epoch, pollVars, tableVars, failures>>

\* An exception that no handler turns into a response passes through the
\* middleware before the server's outermost layer answers it with a 500: it
\* is not counted, neither as a request nor as an error.
ServeRaises ==
    /\ erred < MaxServed
    /\ erred' = erred + 1
    /\ UNCHANGED <<now, epoch, total, served, pollVars, tableVars, failures>>

RestartBackend ==
    /\ failures < MaxFailures
    /\ failures' = failures + 1
    /\ epoch' = epoch + 1
    /\ total' = Zero
    /\ erred' = 0
    /\ UNCHANGED <<now, served, pollVars, tableVars>>

-----------------------------------------------------------------------------
(* The poller: run_cycle and the loop around it.                           *)

\* get_metrics replies with the totals of the moment.
Poll ==
    /\ step = "sleep"
    /\ step' = "reply"
    /\ answer' = total
    /\ answerAt' = [epoch |-> epoch, served |-> served]
    /\ UNCHANGED <<now, backendVars, prev, delta, cycle, prevAt, tableVars,
                   failures>>

\* The backend cannot be reached, or its reply is late: the sample is made
\* without counts.
PollFails ==
    /\ step \in {"sleep", "reply"}
    /\ failures < MaxFailures
    /\ failures' = failures + 1
    /\ step' = "insert"
    /\ delta' = NULL
    /\ answer' = Zero
    /\ answerAt' = Start
    /\ UNCHANGED <<now, backendVars, prev, cycle, prevAt, tableVars>>

\* Mutant: the total is reported as it is.
ChangeWithoutBase(new, old) == new

\* A total that shrank was reset in between.
Change(new, old) == IF new >= old THEN new - old ELSE 0

\* Mutant: after a reset the old totals stay.
BaseKept(new) == IF prev # NULL /\ new.requests < prev.requests
                   THEN prev ELSE new

\* The totals that the next delta is taken from.
Base(new) == new

\* The totals become deltas, and the base of the next ones.
Receive ==
    /\ step = "reply"
    /\ step' = "insert"
    /\ delta' = IF prev = NULL
                   THEN Zero
                   ELSE [requests |-> Change(answer.requests, prev.requests),
                         errors |-> Change(answer.errors, prev.errors)]
    /\ prev' = Base(answer)
    /\ prevAt' = answerAt
    /\ answer' = Zero
    /\ answerAt' = Start
    /\ UNCHANGED <<now, backendVars, cycle, tableVars, failures>>

\* A cycle is over; every PURGE_EVERY_N_CYCLES of them comes a purge.
EndCycle ==
    /\ cycle' = (cycle + 1) % PURGE_EVERY_N_CYCLES
    /\ step' = IF cycle' = 0 THEN "purge" ELSE "sleep"
    /\ delta' = NULL

Insert ==
    /\ step = "insert"
    /\ samples' = samples \cup {now}
    /\ reported' = IF delta = NULL THEN reported ELSE reported + delta.requests
    /\ EndCycle
    /\ UNCHANGED <<now, backendVars, answer, prev, answerAt, prevAt, failures>>

\* Mutant: the exception ends the loop.
InsertFailsForGood ==
    /\ step = "insert"
    /\ failures < MaxFailures
    /\ failures' = failures + 1
    /\ step' = "ended"
    /\ UNCHANGED <<now, backendVars, answer, prev, delta, cycle, answerAt, prevAt,
                   tableVars>>

\* The exception is printed, and the loop goes on.
InsertFails ==
    /\ step = "insert"
    /\ failures < MaxFailures
    /\ failures' = failures + 1
    /\ EndCycle
    /\ UNCHANGED <<now, backendVars, answer, prev, answerAt, prevAt, tableVars>>

Expired == {t \in samples : t < now - RETENTION_DAYS}

Purge ==
    /\ step = "purge"
    /\ step' = "sleep"
    /\ samples' = samples \ Expired
    /\ UNCHANGED <<now, backendVars, answer, prev, delta, cycle, answerAt,
                   prevAt, reported, failures>>

PurgeFails ==
    /\ step = "purge"
    /\ failures < MaxFailures
    /\ failures' = failures + 1
    /\ step' = "sleep"
    /\ UNCHANGED <<now, backendVars, answer, prev, delta, cycle, answerAt,
                   prevAt, tableVars>>

RestartPoller ==
    /\ failures < MaxFailures
    /\ failures' = failures + 1
    /\ step' = "sleep"
    /\ answer' = Zero
    /\ answerAt' = Start
    /\ prev' = NULL
    /\ prevAt' = Start
    /\ delta' = NULL
    /\ cycle' = 0
    /\ UNCHANGED <<now, backendVars, tableVars>>

Tick ==
    /\ now < MaxTime
    /\ now' = now + 1
    /\ UNCHANGED <<backendVars, pollVars, tableVars, failures>>

Backend == Serve \/ ServeRaises \/ RestartBackend
Poller == Poll \/ PollFails \/ Receive \/ Insert \/ InsertFails
               \/ Purge \/ PurgeFails

Next == Backend \/ Poller \/ RestartPoller \/ Tick

Spec == Init /\ [][Next]_vars

\* The poller's loop never ends: its statements return or raise (every one
\* has a timeout or an exception handler), and it sleeps for a while.
Fairness == WF_vars(Poller)

FairSpec == Spec /\ Fairness

-----------------------------------------------------------------------------
(* Properties.                                                             *)

\* However the two processes restart and whatever fails, the samples never
\* report more requests than were served.
NeverOvercounts == reported <= served

\* "a reset just shows up as one low-count sample, not a broken history": as
\* soon as two polls in a row reach the same backend process, the delta is
\* exactly what was served between them.
ExactBetweenResets ==
    [][step = "reply" /\ step' = "insert" /\ delta' # NULL /\ prev # NULL
         /\ answerAt.epoch = prevAt.epoch
         => delta'.requests = answerAt.served - prevAt.served]_vars

\* Retention: a sample past its age is purged in the end, although purges
\* fail and restarts set the cycle count back.
ExpiredPurged == \A t \in 0..MaxTime : t \in Expired ~> t \notin samples

-----------------------------------------------------------------------------
(* The inductive invariant. *)

Pending == IF delta = NULL THEN 0 ELSE delta.requests

\* Totals count what was served, and only a cycle that inserts has a delta.
TallyInv ==
    /\ total.requests <= served
    /\ total.errors <= erred
    /\ step # "insert" => delta = NULL
    /\ reported + Pending <= served

\* Totals c that were read at moment m are those of the present backend, or
\* of one before it.
ReadAt(c, m) ==
    /\ m.epoch <= epoch
    /\ m.served <= served
    /\ m.epoch = epoch => total.requests - c.requests = served - m.served
    /\ m.epoch < epoch => total.requests <= served - m.served

\* What is reported was served before the reply, and before the base.
ReplyInv ==
    step = "reply" => ReadAt(answer, answerAt) /\ reported <= answerAt.served
BaseInv ==
    prev # NULL => ReadAt(prev, prevAt) /\ reported + Pending <= prevAt.served

\* The reply is later than the base, and its totals show what was served in
\* between, or less.
ChainInv ==
    step = "reply" /\ prev # NULL =>
        /\ prevAt.epoch <= answerAt.epoch
        /\ prevAt.served <= answerAt.served
        /\ prevAt.epoch = answerAt.epoch =>
              answer.requests - prev.requests = answerAt.served - prevAt.served
        /\ prevAt.epoch < answerAt.epoch =>
              answer.requests <= answerAt.served - prevAt.served

IInv == TypeOK /\ TallyInv /\ ReplyInv /\ BaseInv /\ ChainInv
               /\ epoch <= failures

=============================================================================
