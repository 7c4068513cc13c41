-------------------------- MODULE AnalyticsReport --------------------------
(***************************************************************************)
(* get_admin_analytics beside the recorder and the sweeps. A report is one *)
(* session's sequence of SELECTs; at READ COMMITTED each has a snapshot of *)
(* its own, so that events come and go between the figures of one report.  *)
(* `seen` holds the rows that each statement matched; what is computed     *)
(* from them is in ReportFigures.                                          *)
(***************************************************************************)
EXTENDS Retention

CONSTANT Days       \* the ranges that are asked for

ASSUME ReportAssumption == Days \subseteq Nat

\* What the report looks at in an event, numbers standing for texts in the
\* order of their collation, and 0 for NULL.
EventContent ==
    [type : {"page_view", "project_view", "project_link_click", "github_click",
             "cv_download", "contact_click", "language_change"},
     session : Nat \ {0}, ip_hash : Nat, locale : Nat, project_slug : Nat,
     path : Nat, device_class : Nat, referrer_host : Nat]

ASSUME ContentAssumption == Content["analytics_events"] \subseteq EventContent

\* The statements, in the order in which the report awaits them.
Statements ==
    <<"page_view", "project_view", "github_click", "cv_download", "contact_click",
      "project_link_click", "language_change", "total_events", "unique_sessions",
      "language_distribution", "timeseries", "top_projects", "recent_events",
      "engagement", "top_pages", "event_breakdown", "device_breakdown",
      "referrers", "hourly_activity">>

VARIABLES
    started,    \* when the running report began
    since,
    known,      \* history: the events recorded before it began
    seen        \* of each statement that is done: the rows it matched

reportVars == <<started, since, known, seen>>
vars == <<now, tableVars, sweep, reportVars>>

NotRunning == MaxTime + 1
Running == started # NotRunning

Events == rows["analytics_events"]

TypeOK ==
    /\ RetentionTypeOK
    /\ started \in 0..MaxTime + 1
    /\ since \in Int
    /\ known \subseteq log
    /\ seen \in Seq(SUBSET log)
    /\ Len(seen) <= Len(Statements)

Init ==
    /\ RetentionInit
    /\ started = NotRunning
    /\ since = 0
    /\ known = {}
    /\ seen = <<>>

NoReport ==
    /\ started' = NotRunning
    /\ since' = 0
    /\ known' = {}
    /\ seen' = <<>>

-----------------------------------------------------------------------------

\* Which rows a statement asks for, besides its range.
Matches(s, e) ==
    CASE s \in {"page_view", "project_view", "github_click", "cv_download",
                "contact_click", "project_link_click", "language_change"} ->
            e.content.type = s
      [] s \in {"unique_sessions", "language_distribution"} ->
            e.content.type = "page_view"
      [] s = "top_projects" ->
            e.content.type = "project_view" /\ e.content.project_slug # 0
      [] s = "top_pages" -> e.content.type = "page_view" /\ e.content.path # 0
      [] s \in {"device_breakdown", "referrers"} -> e.content.device_class # 0
      [] OTHER -> TRUE

\* Mutants: the range is left open at its end; two counts ignore it.
InRangeStrictly(s, e) == s = "recent_events" \/ e.at > since
InRangeForSome(s, e) ==
    s \in {"page_view", "total_events", "recent_events"} \/ e.at >= since

\* The recent events are taken from the whole table.
InRange(s, e) == s = "recent_events" \/ e.at >= since

BeginReport(days) ==
    /\ ~Running
    /\ sweep["loop"] # "down"
    /\ started' = now
    /\ since' = now - days
    /\ known' = log
    /\ seen' = <<>>
    /\ UNCHANGED <<now, tableVars, sweep>>

ExecuteStatement ==
    /\ Running
    /\ Len(seen) < Len(Statements)
    /\ LET s == Statements[Len(seen) + 1]
       IN  seen' = Append(seen, {e \in Events : Matches(s, e) /\ InRange(s, e)})
    /\ UNCHANGED <<now, tableVars, sweep, started, since, known>>

\* The answer is sent, or a statement raises: the report is not tried again.
EndReport ==
    /\ Running
    /\ NoReport
    /\ UNCHANGED <<now, tableVars, sweep>>

Tick ==
    /\ RetentionTick
    /\ Running => now < started + MaxLatency
    /\ UNCHANGED reportVars

Crash ==
    /\ Stop
    /\ NoReport

Next ==
    \/ RetentionStep /\ UNCHANGED reportVars
    \/ \E days \in Days : BeginReport(days)
    \/ ExecuteStatement
    \/ EndReport
    \/ Tick
    \/ Crash

Spec == Init /\ [][Next]_vars
FairSpec == Spec /\ RetentionFairness

-----------------------------------------------------------------------------
(* Properties.                                                             *)

\* What no sweep can have taken before the report ends.
SafeSince == started + MaxLatency - ANALYTICS_RETENTION_DAYS

\* No statement of a report misses an event that was recorded before the report
\* began, lies in its range and is not due to be swept within the report's
\* life, although the sweeps run beside it.
NothingMissing ==
    \A i \in DOMAIN seen :
        {e \in known : /\ Matches(Statements[i], e)
                       /\ e.at >= since /\ e.at >= SafeSince} \subseteq seen[i]

\* What a statement saw, a later one that asks for it too sees again, while
\* the range of the report is not being swept.
SeenGrows ==
    \A i, j \in DOMAIN seen :
        (i <= j /\ since >= SafeSince)
            => {e \in seen[i] : /\ Matches(Statements[j], e)
                                /\ e.at >= since} \subseteq seen[j]

=============================================================================
