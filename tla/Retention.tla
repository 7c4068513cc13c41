----------------------------- MODULE Retention -----------------------------
(***************************************************************************)
(* The retention sweeps: purge_all's three deletes, each a transaction of  *)
(* its own, run by the backend's loop at startup and at every interval and *)
(* by the stand-alone script, beside the writers of the three tables. Any  *)
(* statement may fail, and the backend may be killed at any time.          *)
(***************************************************************************)
EXTENDS Integers, Sequences, FiniteSets

CONSTANTS
    Sweeper,                        \* "loop", and runs of the script
    Content,                        \* of each table: what its rows may say
    ANALYTICS_RETENTION_DAYS,       \* in ticks, like all times
    LOGIN_ATTEMPT_RETENTION_DAYS,
    EXPIRED_SESSION_GRACE,
    SESSION_DURATION,
    MaxLatency,                     \* a transaction takes at most this long
    MaxTime,                        \* bound: the clock stops here
    MaxRows                         \* bound: rows a table ever holds, of each

Table == {"analytics_events", "login_attempts", "admin_sessions"}

\* How long a row outlives the column that governs it, and how far ahead of
\* its insertion that column lies.
Window == [analytics_events |-> ANALYTICS_RETENTION_DAYS,
           login_attempts |-> LOGIN_ATTEMPT_RETENTION_DAYS,
           admin_sessions |-> EXPIRED_SESSION_GRACE]

Lead == [analytics_events |-> 0, login_attempts |-> 0,
         admin_sessions |-> SESSION_DURATION]

ASSUME RetentionAssumption ==
    /\ "loop" \in Sweeper
    /\ \A t \in Table : Window[t] \in Nat
    /\ SESSION_DURATION \in Nat
    /\ MaxLatency \in Nat
    /\ MaxTime \in Nat

\* purge_all's order.
FirstTable == "analytics_events"
AfterTable == [analytics_events |-> "login_attempts",
               login_attempts |-> "admin_sessions",
               admin_sessions |-> "asleep"]

VARIABLES
    now,
    rows,       \* the three tables
    log,        \* history: every event that was ever recorded
    next_id,    \* the sequences behind the tables' keys
    sweep       \* of each sweeper: "down", "asleep" or the next table

tableVars == <<rows, log, next_id>>

\* A table's row: its key, its created_at or expires_at, and its content.
Row(t) == [id : Nat, at : Int, content : Content[t]]

RetentionTypeOK ==
    /\ now \in 0..MaxTime
    /\ DOMAIN rows = Table
    /\ \A t \in Table : rows[t] \subseteq Row(t)
    /\ rows["analytics_events"] \subseteq log
    /\ log \subseteq Row("analytics_events")
    /\ next_id \in [Table -> Nat]
    /\ sweep \in [Sweeper -> Table \cup {"down", "asleep"}]

RetentionInit ==
    /\ now = 0
    /\ rows = [t \in Table |-> {}]
    /\ log = {}
    /\ next_id = [t \in Table |-> 1]
    /\ sweep = [[w \in Sweeper |-> "asleep"] EXCEPT !["loop"] = FirstTable]

-----------------------------------------------------------------------------
(* The writers. created_at is the time the transaction began; expires_at   *)
(* was computed by the request that writes it.                             *)

Insert(t, late, c) ==
    /\ next_id[t] <= MaxRows[t]
    /\ LET row == [id |-> next_id[t], at |-> now - late + Lead[t], content |-> c]
       IN  /\ rows' = [rows EXCEPT ![t] = @ \cup {row}]
           /\ log' = IF t = "analytics_events" THEN log \cup {row} ELSE log
    /\ next_id' = [next_id EXCEPT ![t] = @ + 1]
    /\ UNCHANGED <<now, sweep>>

\* A request that found its session unexpired pushes the expiry out.
Renew(late) ==
    /\ \E s \in rows["admin_sessions"] :
          /\ s.at >= now - late
          /\ rows' = [rows EXCEPT !["admin_sessions"] =
                        (@ \ {s}) \cup {[s EXCEPT !.at = now - late + SESSION_DURATION]}]
    /\ UNCHANGED <<now, log, next_id, sweep>>

-----------------------------------------------------------------------------
(* The sweepers.                                                           *)

\* One DELETE and its commit; the cutoff was computed before the statement.
SweepTable(w, late) ==
    /\ sweep[w] \in Table
    /\ rows' = [rows EXCEPT ![sweep[w]] =
                   {r \in @ : r.at >= now - late - Window[sweep[w]]}]
    /\ sweep' = [sweep EXCEPT ![w] = AfterTable[@]]
    /\ UNCHANGED <<now, log, next_id>>

\* An exception ends the sweep, and what was committed stays: the loop logs it
\* and sleeps, the script exits.
SweepFails(w) ==
    /\ sweep[w] \in Table
    /\ sweep' = [sweep EXCEPT ![w] = "asleep"]
    /\ UNCHANGED <<now, tableVars>>

\* The interval is over, or the operator runs the script in the container.
Wake(w) ==
    /\ sweep[w] = "asleep"
    /\ sweep["loop"] # "down"
    /\ sweep' = [sweep EXCEPT ![w] = FirstTable]
    /\ UNCHANGED <<now, tableVars>>

\* The container stops, and the sweeps in it with it.
Stop ==
    /\ sweep["loop"] # "down"
    /\ sweep' = [[w \in Sweeper |-> "asleep"] EXCEPT !["loop"] = "down"]
    /\ UNCHANGED <<now, tableVars>>

\* Mutant: the loop sleeps before its first sweep.
StartAsleep ==
    /\ sweep["loop"] = "down"
    /\ sweep' = [sweep EXCEPT !["loop"] = "asleep"]
    /\ UNCHANGED <<now, tableVars>>

\* The loop sweeps at once when the backend starts.
Start ==
    /\ sweep["loop"] = "down"
    /\ sweep' = [sweep EXCEPT !["loop"] = FirstTable]
    /\ UNCHANGED <<now, tableVars>>

RetentionTick ==
    /\ now < MaxTime
    /\ now' = now + 1
    /\ UNCHANGED <<tableVars, sweep>>

\* The steps beside which a report runs.
RetentionStep ==
    \/ \E t \in Table, late \in 0..MaxLatency : \E c \in Content[t] : Insert(t, late, c)
    \/ \E late \in 0..MaxLatency : Renew(late)
    \/ \E w \in Sweeper :
          \/ \E late \in 0..MaxLatency : SweepTable(w, late)
          \/ SweepFails(w) \/ Wake(w)
    \/ Start

\* The database does not refuse the loop for ever, the sleep ends unless the
\* backend stops first, and a stopped container is restarted. Stops are not
\* bounded: the backend may be restarted more often than the interval.
RetentionFairness ==
    /\ \A t \in Table :
          SF_<<now, tableVars, sweep>>(sweep["loop"] = t /\ SweepTable("loop", 0))
    /\ WF_<<now, tableVars, sweep>>(Wake("loop"))
    /\ WF_<<now, tableVars, sweep>>(Start)

-----------------------------------------------------------------------------
(* Properties.                                                             *)

Overdue(t) == {r \in rows[t] : r.at < now - Window[t]}

\* Every row goes some time after its window, although any sweep may fail in
\* the middle and the backend may be restarted more often than the interval.
GovernedRowsGo == \A t \in Table : []<>(Overdue(t) = {})

=============================================================================
