--------------------------- MODULE ReportFigures ---------------------------
(***************************************************************************)
(* What a report computes from the rows its statements matched, and how    *)
(* the figures of one report bound each other although each comes from a   *)
(* snapshot of its own.                                                    *)
(***************************************************************************)
EXTENDS AnalyticsReport, FiniteSetsExt

CONSTANTS
    DAY, HOUR,                      \* in ticks
    TOP_LIMIT,                      \* pages, projects and referrers in a list
    RECENT_EVENTS_LIMIT

ASSUME FigureAssumption ==
    {DAY, HOUR, TOP_LIMIT, RECENT_EVENTS_LIMIT} \subseteq Nat \ {0}

\* The rows that the statement called s matched, once it is done.
Position(s) == CHOOSE i \in DOMAIN Statements : Statements[i] = s
Done(s) == Position(s) <= Len(seen)
Seen(s) == seen[Position(s)]

SessionsOf(R) == {e.content.session : e \in R}
PageViewsOf(R) == {e \in R : e.content.type = "page_view"}
GroupOf(R, Key(_), k) == {e \in R : Key(e) = k}

\* GROUP BY: the groups' keys, each with an aggregate of its group.
Grouped(R, Key(_), Aggregate(_)) ==
    [k \in {Key(e) : e \in R} |-> Aggregate(GroupOf(R, Key, k))]

\* ORDER BY value DESC LIMIT n: n of the elements whose value is greatest.
\* (Which of equals are taken is left open.)
Greatest(value, n) ==
    CHOOSE K \in kSubset(Min({n, Cardinality(DOMAIN value)}), DOMAIN value) :
        \A k \in K, l \in DOMAIN value \ K : value[k] >= value[l]

Top(counts, n) == Restrict(counts, Greatest(counts, n))

Total(counts) == MapThenSumSet(LAMBDA k : counts[k], DOMAIN counts)

Session(e) == e.content.session
Day(e) == e.at \div DAY

\* One row per session, and then the figures over those rows; averages are
\* given as the sums and the counts that they divide.
Engagement(R) ==
    LET events == Grouped(R, Session, Cardinality)
        sessions == DOMAIN events
        Of(s) == GroupOf(R, Session, s)
        views == [s \in sessions |-> Cardinality(PageViewsOf(Of(s)))]
        times(s) == {e.at : e \in Of(s)}
        lasting == {s \in sessions : events[s] > 1}
    IN  [sessions |-> Cardinality(sessions),
         bounced |-> Cardinality({s \in sessions : events[s] = 1 /\ views[s] = 1}),
         events |-> Total(events),
         pages |-> Total(views),
         lasting |-> Cardinality(lasting),
         duration |-> MapThenSumSet(LAMBDA s : Max(times(s)) - Min(times(s)), lasting),
         returning |-> Cardinality({s \in sessions :
                           Cardinality({Day(e) : e \in Of(s)}) > 1})]

TopPages(R) == Top(Grouped(R, LAMBDA e : e.content.path, Cardinality), TOP_LIMIT)

TopProjects(R) ==
    Top(Grouped(R, LAMBDA e : e.content.project_slug, Cardinality), TOP_LIMIT)

\* Every type, with 0 for those that did not occur.
EventBreakdown(R) ==
    [type \in Range(SubSeq(Statements, 1, 7)) |->
        Cardinality({e \in R : e.content.type = type})]

\* max() over a session's rows, which ignores NULL.
DimensionOf(R, column) ==
    Grouped(R, Session, LAMBDA S : Max({e.content[column] : e \in S}))

CountValues(f) == [v \in Range(f) |-> Cardinality({s \in DOMAIN f : f[s] = v})]

DeviceBreakdown(R) == CountValues(DimensionOf(R, "device_class"))

\* 0 is NULL, and is reported as direct traffic.
Referrers(R) ==
    Top(CountValues(DimensionOf(R, "referrer_host")), TOP_LIMIT)

HourlyActivity(R) ==
    [h \in 0..23 |-> Cardinality({e \in R : (e.at \div HOUR) % 24 = h})]

LanguageDistribution(R) ==
    Grouped({e \in R : e.content.locale # 0}, LAMBDA e : e.content.locale,
            LAMBDA S : Cardinality(SessionsOf(S)))

Timeseries(R) ==
    Grouped(R, Day, LAMBDA S :
        [page_views |-> Cardinality(PageViewsOf(S)),
         unique_sessions |-> Cardinality(SessionsOf(PageViewsOf(S))),
         unique_visitors |-> Cardinality({e.content.ip_hash : e \in S} \ {0})])

\* ORDER BY created_at DESC LIMIT n, as the set of the events that are listed.
RecentEvents(R) == Greatest([e \in R |-> e.at], RECENT_EVENTS_LIMIT)

-----------------------------------------------------------------------------
(* Properties.                                                             *)

\* The figures of a report that outruns the sweeps bound each other in the
\* order of their statements: a type's count is at most what the breakdown says of
\* it, the counts of all types together at most the total, the total at most
\* the hours together, the sessions that viewed pages at most the sessions, the
\* devices' sessions at most the referrers', unless that list is cut, and the
\* recent events fill their list as far as there are events.
FiguresOrdered ==
    since >= SafeSince /\ Done("hourly_activity") =>
        LET breakdown == EventBreakdown(Seen("event_breakdown"))
            engagement == Engagement(Seen("engagement"))
            timeseries == Timeseries(Seen("timeseries"))
            viewsPerDay == [d \in DOMAIN timeseries |-> timeseries[d].page_views]
            referrers == Referrers(Seen("referrers"))
            languages == LanguageDistribution(Seen("language_distribution"))
            types == [type \in DOMAIN breakdown |-> Cardinality(Seen(type))]
        IN  /\ \A type \in DOMAIN breakdown : types[type] <= breakdown[type]
            /\ Total(types) <= Cardinality(Seen("total_events"))
            /\ Cardinality(Seen("total_events"))
                  <= Total(HourlyActivity(Seen("hourly_activity")))
            /\ Cardinality(Seen("page_view")) <= Total(viewsPerDay)
            /\ Total(viewsPerDay) <= engagement.pages
            /\ Cardinality(SessionsOf(Seen("unique_sessions"))) <= engagement.sessions
            /\ \A l \in DOMAIN languages : languages[l] <= engagement.sessions
            /\ engagement.bounced + engagement.returning <= engagement.sessions
            /\ engagement.bounced + engagement.lasting <= engagement.sessions
            /\ Total(TopPages(Seen("top_pages"))) <= breakdown["page_view"]
            /\ Total(TopProjects(Seen("top_projects"))) <= breakdown["project_view"]
            /\ \/ Cardinality(DOMAIN referrers) = TOP_LIMIT
               \/ Total(DeviceBreakdown(Seen("device_breakdown"))) <= Total(referrers)
            /\ Cardinality(RecentEvents(Seen("recent_events")))
                  >= Min({RECENT_EVENTS_LIMIT, Cardinality(Seen("total_events"))})

=============================================================================
