------------------------------- MODULE Pages --------------------------------
(* The single-page application in one browser tab: its routes, the data hooks *)
(* of the public and admin pages with their requests in flight, the answers   *)
(* of the backend, the tracked page and project views, and the admin's login. *)
(*                                                                            *)
(* React is external and modelled by what the code relies on: a change of     *)
(* location, language or state is rendered by a later `Commit`, and the       *)
(* effects whose dependencies changed run after it, in `Effects`; answers may *)
(* arrive between any two of these steps.                                     *)
EXTENDS Naturals

CONSTANTS
    Page,         \* the routes of this instance
    Locale,       \* the languages the visitor uses
    SignedIn,     \* whether the browser may come with a live session
    Slug,         \* the slugs a URL may name
    Translated,   \* the content: the locales each project has a translation for
    Certified,    \* and each certification
    Days,         \* the date ranges of the dashboard
    DefaultDays,  \* the range it starts with
    None,         \* no answer, no slug, no question
    MaxVisits,    \* bound on what the visitor does
    MaxFaults     \* bound on failed requests, lost calls and lapsed sessions

AdminPage == {"admin", "dashboard", "health"}
PublicPage == {"home", "projects", "detail", "skills", "experience", "about",
               "certifications"}

\* The pages that were merged into others; their old URLs redirect.
Moved == [page \in {"about", "certifications"} |->
             IF page = "about" THEN "experience" ELSE "skills"]

ASSUME PageAssumption ==
    /\ Page \subseteq PublicPage \cup AdminPage
    /\ \A page \in DOMAIN Moved \cap Page : Moved[page] \in Page
    /\ Page \cap AdminPage \in {{}, AdminPage}
ASSUME LocaleAssumption == Locale \subseteq {"en", "es"}
ASSUME SignedInAssumption == SignedIn \subseteq BOOLEAN
ASSUME ContentAssumption ==
    /\ Translated \in [Slug -> SUBSET {"en", "es"}]
    /\ Certified \in [DOMAIN Certified -> SUBSET {"en", "es"}]
ASSUME DaysAssumption == DefaultDays \in Days

Location == [page : Page \ {"detail"}, slug : {None}]
              \cup [page : Page \cap {"detail"}, slug : Slug]
Login     == [page |-> "admin", slug |-> None]
Dashboard == [page |-> "dashboard", slug |-> None]


-----------------------------------------------------------------------------
(* The questions a page asks, and what the backend answers to them.           *)

Hook == {"projects", "project", "certifications", "skills", "report", "health"}
AdminHook == {"report", "health"}

\* What an effect depends on, and what an answer holds.
Question == [page : Page, slug : Slug \cup {None}, lang : Locale \cup {None},
             days : Days \cup {None}]
Data == [slug : Slug \cup {None}, lang : {"en", "es", None}, days : Days \cup {None},
         items : SUBSET (Slug \cup DOMAIN Certified)]

ASSUME NoneAssumption == None \notin Location \cup Question \cup Data

HooksOf(page) ==
    CASE page = "home"      -> {"projects", "certifications"}
      [] page = "projects"  -> {"projects"}
      [] page = "detail"    -> {"project"}
      [] page = "skills"    -> {"skills", "certifications"}
      [] page = "dashboard" -> {"report"}
      [] page = "health"    -> {"health"}
      [] OTHER              -> {}

\* The dependencies of a hook's effect, with the page whose instance it is in.
Ask(h, view) ==
    IF h \notin HooksOf(view.at.page) THEN None
    ELSE [page |-> view.at.page,
          slug |-> IF h = "project" THEN view.at.slug ELSE None,
          lang |-> IF h \in {"projects", "project", "certifications"}
                   THEN view.lang ELSE None,
          days |-> IF h = "report" THEN view.days ELSE None]

\* The translation of a project that is served for a locale: English stands
\* in for a missing one, and without either the project is not found.
Served(slug, locale) ==
    IF locale \in Translated[slug] THEN locale
    ELSE IF "en" \in Translated[slug] THEN "en" ELSE None

\* The lists leave out what has no translation.
Listed(locale) == {p \in Slug : locale \in Translated[p]}
ListedCertifications(locale) == {c \in DOMAIN Certified : locale \in Certified[c]}

\* getProject turns the 404 into null.
Answer(h, ask) ==
    LET answer == [slug |-> ask.slug, lang |-> ask.lang, days |-> ask.days,
                   items |-> CASE h = "projects"       -> Listed(ask.lang)
                               [] h = "certifications" -> ListedCertifications(ask.lang)
                               [] OTHER                -> {}]
    IN  IF h # "project" THEN answer
        ELSE IF Served(ask.slug, ask.lang) = None THEN None
        ELSE [answer EXCEPT !.lang = Served(ask.slug, ask.lang)]

-----------------------------------------------------------------------------
VARIABLES
    at,        \* the location
    lang,      \* i18n.language
    days,      \* the range chosen on the dashboard
    hooks,     \* the state of the hooks of the mounted page
    shown,     \* the render that was committed last
    ran,       \* the dependencies its effects, or those before, ran with
    flights,   \* the requests of the hooks whose effect was not cleaned up
    session,   \* whether the browser's cookie names a live session
    calls,     \* the logins and logouts in flight, and whether the login form
               \* that made one is still on the screen
    tracker,   \* the throttle of track(), and what was recorded
    visits,    \* what the visitor did so far
    faults     \* what failed so far

vars == <<at, lang, days, hooks, shown, ran, flights, session, calls, tracker,
          visits, faults>>
bounds == <<visits, faults>>

Loading == [data |-> None, loading |-> TRUE, error |-> FALSE]
Mounted == [h \in Hook |-> Loading]

Current == [at |-> at, lang |-> lang, days |-> days, hooks |-> hooks]

\* The slug of the project on the page, `project?.slug`.
Viewed(view) ==
    IF view.at.page = "detail" /\ view.hooks["project"].data # None
    THEN view.hooks["project"].data.slug ELSE None

Deps(view) == [path   |-> view.at,
               asks   |-> [h \in Hook |-> Ask(h, view)],
               viewed |-> Viewed(view)]

Settled == shown = Current /\ ran = Deps(shown)

Init ==
    /\ at \in Location
    /\ lang \in Locale
    /\ days = DefaultDays
    /\ hooks = Mounted
    /\ shown = Current
    /\ ran = [path |-> None, asks |-> [h \in Hook |-> None], viewed |-> None]
    /\ flights = {}
    /\ session \in SignedIn
    /\ calls = {}
    /\ tracker = [last |-> [type |-> "none", what |-> None], recent |-> FALSE,
                  page |-> None, views |-> 0]
    /\ visits = 0
    /\ faults = 0

-----------------------------------------------------------------------------
(* Tracking. An event like the last one, within a second of it, is dropped.   *)
(* `page` is the last page view that was recorded, `views` counts the project *)
(* views recorded since the visitor came to the location.                     *)

\* Mutant: the throttle compares the kind of event only.
TrackByType(t, e) ==
    IF t.recent /\ e.type = t.last.type THEN t
    ELSE [last   |-> e,
          recent |-> TRUE,
          page   |-> IF e.type = "page_view" THEN e.what ELSE t.page,
          views  |-> IF e.type = "project_view" THEN 1 ELSE t.views]

Track(t, e) ==
    IF t.recent /\ e.type = t.last.type /\ e.what = t.last.what THEN t
    ELSE [last   |-> e,
          recent |-> TRUE,
          page   |-> IF e.type = "page_view" THEN e.what ELSE t.page,
          views  |-> IF e.type = "project_view" /\ e.what = at.slug /\ shown.at = at
                     THEN IF t.views < 2 THEN t.views + 1 ELSE 2
                     ELSE t.views]

\* A new location, once the one before it was rendered.
Arrived(t, l) == IF l = at THEN t ELSE [t EXCEPT !.views = 0]

GoTo(l) ==
    /\ shown.at = at
    /\ at' = l
    /\ tracker' = Arrived(tracker, l)

\* More than MIN_INTERVAL_MS pass.
Lull ==
    /\ tracker.recent
    /\ tracker' = [tracker EXCEPT !.recent = FALSE]
    /\ UNCHANGED <<at, lang, days, hooks, shown, ran, flights, session, calls, bounds>>

-----------------------------------------------------------------------------
(* Rendering.                                                                 *)

\* Another page is another component, with fresh state; the form that is left
\* is not the one a return brings.
Commit ==
    /\ ran = Deps(shown)
    /\ shown # Current
    /\ IF at.page = shown.at.page
       THEN UNCHANGED <<hooks, days, calls>>
       ELSE /\ hooks' = Mounted /\ days' = DefaultDays
            /\ calls' = {[c EXCEPT !.form = FALSE] : c \in calls}
    /\ shown' = [at |-> at, lang |-> lang, days |-> days', hooks |-> hooks']
    /\ UNCHANGED <<at, lang, ran, flights, session, tracker, bounds>>

\* Mutant: the state is not reset.
KeptState(h) == hooks[h]

\* The state an effect sets before it asks: the dashboard keeps its figures,
\* as its reset clears only the two flags.
Restarted(h) ==
    IF h = "report" THEN [Loading EXCEPT !.data = hooks[h].data] ELSE Loading

\* The project view and the page view that the effects of a render record,
\* those of a component before those of the one it is in.
TrackProject(t, deps) ==
    IF deps.viewed \in {None, ran.viewed} THEN t
    ELSE Track(t, [type |-> "project_view", what |-> deps.viewed])

TrackPage(t, deps) ==
    IF deps.path = ran.path \/ deps.path.page \in AdminPage THEN t
    ELSE Track(t, [type |-> "page_view", what |-> deps.path])

\* Cleanups cancel the requests of effects that are stale; the answer of a
\* cancelled request changes nothing, so it leaves the model with the cleanup.
Cleaned(stale) == {f \in flights : f.hook \notin stale}

\* The effects of a render whose dependencies changed, after the cleanups of
\* those before.
Effects ==
    /\ ran # Deps(shown)
    /\ LET deps  == Deps(shown)
           stale == {h \in Hook : deps.asks[h] # ran.asks[h]}
           fresh == {h \in stale : deps.asks[h] # None}
           goal  == IF shown.at.page \in DOMAIN Moved
                    THEN [page |-> Moved[shown.at.page], slug |-> None] ELSE at
       IN  /\ flights' = Cleaned(stale) \cup
                 {[hook |-> h, ask |-> deps.asks[h], first |-> TRUE,
                   status |-> "pending", data |-> None] : h \in fresh}
           /\ hooks' = [h \in Hook |-> IF h \in fresh THEN Restarted(h) ELSE hooks[h]]
           /\ ran' = deps
           /\ at' = goal
           /\ tracker' = Arrived(TrackPage(TrackProject(tracker, deps), deps), goal)
    /\ UNCHANGED <<lang, days, shown, session, calls, bounds>>

-----------------------------------------------------------------------------
(* Requests of the hooks.                                                     *)

\* The network health page asks again every REFRESH_INTERVAL_MS.
Poll ==
    /\ ran.asks["health"] # None
    /\ flights' = flights \cup
          {[hook |-> "health", ask |-> ran.asks["health"], first |-> FALSE,
            status |-> "pending", data |-> None]}
    /\ UNCHANGED <<at, lang, days, hooks, shown, ran, session, calls, tracker, bounds>>

Reply(f, status, data) ==
    /\ f.status = "pending"
    /\ flights' = (flights \ {f}) \cup {[f EXCEPT !.status = status, !.data = data]}
    /\ UNCHANGED <<at, lang, days, hooks, shown, ran, session, calls, tracker, visits>>

\* The backend answers; the admin endpoints look the session up first.
Serve(f) ==
    IF f.hook \in AdminHook /\ ~session
    THEN Reply(f, "unauthorized", None) /\ UNCHANGED faults
    ELSE Reply(f, "ok", Answer(f.hook, f.ask)) /\ UNCHANGED faults

\* The network or the backend fails.
Fail(f) == Reply(f, "failed", None) /\ faults < MaxFaults /\ faults' = faults + 1

ContentOutcome(f, state) ==
    [data |-> f.data, loading |-> FALSE, error |-> f.status # "ok"]

\* Mutant: a failure leaves the loading message.
StuckOutcome(f, state) ==
    IF f.status = "ok" THEN [state EXCEPT !.data = f.data, !.loading = FALSE]
    ELSE [state EXCEPT !.error = TRUE]

\* The dashboard keeps the figures it has when it fails to load others.
ReportOutcome(f, state) ==
    IF f.status = "ok" THEN [state EXCEPT !.data = f.data, !.loading = FALSE]
    ELSE [state EXCEPT !.error = TRUE, !.loading = FALSE]

\* Mutants: the first failure raises no error; every failure raises it; a
\* failure clears the data.
SilentOutcome(f, state) ==
    IF f.status = "ok" THEN [state EXCEPT !.data = f.data, !.loading = FALSE]
    ELSE [state EXCEPT !.loading = FALSE]
LoudOutcome(f, state) ==
    IF f.status = "ok" THEN [state EXCEPT !.data = f.data, !.loading = FALSE]
    ELSE [state EXCEPT !.error = TRUE, !.loading = FALSE]
BlankOutcome(f, state) ==
    [data |-> f.data, loading |-> FALSE,
     error |-> state.error \/ (f.first /\ f.status # "ok")]

\* Only the first request shows an error, and no success takes it back.
HealthOutcome(f, state) ==
    IF f.status = "ok" THEN [state EXCEPT !.data = f.data, !.loading = FALSE]
    ELSE [state EXCEPT !.error = @ \/ f.first, !.loading = FALSE]

Outcome(f, state) ==
    CASE f.hook = "report" -> ReportOutcome(f, state)
      [] f.hook = "health" -> HealthOutcome(f, state)
      [] OTHER             -> ContentOutcome(f, state)

\* Mutant: a 401 is like any other failure.
LandWithoutRedirect(f) ==
    /\ f.status # "pending"
    /\ flights' = flights \ {f}
    /\ hooks' = [hooks EXCEPT ![f.hook] = Outcome(f, @)]
    /\ UNCHANGED <<at, lang, days, shown, ran, session, calls, tracker, bounds>>

\* The callback of a request. A 401 sends the admin to the login page, and
\* leaves the state as it is.
Land(f) ==
    /\ f.status # "pending"
    /\ flights' = flights \ {f}
    /\ IF f.status = "unauthorized"
       THEN GoTo(Login) /\ UNCHANGED hooks
       ELSE /\ hooks' = [hooks EXCEPT ![f.hook] = Outcome(f, @)]
            /\ UNCHANGED <<at, tracker>>
    /\ UNCHANGED <<lang, days, shown, ran, session, calls, bounds>>

-----------------------------------------------------------------------------
(* The visitor, and the admin.                                                *)

\* A link, a button of the browser: always another location.
Navigate ==
    /\ \E l \in Location \ {at} : GoTo(l)
    /\ visits < MaxVisits /\ visits' = visits + 1
    /\ UNCHANGED <<lang, days, hooks, shown, ran, flights, session, calls, faults>>

\* The change is recorded whether or not it is one.
SwitchLanguage ==
    /\ \E code \in Locale :
          /\ lang' = code
          /\ tracker' = Track(tracker, [type |-> "language_change", what |-> [from |-> lang, to |-> code]])
    /\ visits < MaxVisits /\ visits' = visits + 1
    /\ UNCHANGED <<at, days, hooks, shown, ran, flights, session, calls, faults>>

ChooseDays ==
    /\ at.page = "dashboard" /\ shown.at = at
    /\ days' \in Days \ {days}
    /\ visits < MaxVisits /\ visits' = visits + 1
    /\ UNCHANGED <<at, lang, hooks, shown, ran, flights, session, calls, tracker, faults>>

\* The submit button is disabled while a login of this form is under way.
SubmitLogin ==
    /\ shown.at.page = "admin"
    /\ \A c \in calls : ~c.form
    /\ calls' = calls \cup {[kind |-> "login", form |-> TRUE, status |-> "pending"]}
    /\ visits < MaxVisits /\ visits' = visits + 1
    /\ UNCHANGED <<at, lang, days, hooks, shown, ran, flights, session, tracker, faults>>

SubmitLogout ==
    /\ shown.at.page \in {"dashboard", "health"}
    /\ calls' = calls \cup {[kind |-> "logout", form |-> FALSE, status |-> "pending"]}
    /\ visits < MaxVisits /\ visits' = visits + 1
    /\ UNCHANGED <<at, lang, days, hooks, shown, ran, flights, session, tracker, faults>>

\* A login may be refused; a logout is answered whether or not there was a
\* session.
ServeCall(c) ==
    /\ c.status = "pending"
    /\ \E granted \in BOOLEAN :
          /\ c.kind = "logout" => granted
          /\ session' = IF c.kind = "login" THEN session \/ granted ELSE FALSE
          /\ calls' = (calls \ {c}) \cup
                {[c EXCEPT !.status = IF granted THEN "ok" ELSE "failed"]}
    /\ UNCHANGED <<at, lang, days, hooks, shown, ran, flights, tracker, bounds>>

\* The call never reached the backend, or its answer was lost.
LoseCall(c) ==
    /\ c.status # "failed"
    /\ calls' = (calls \ {c}) \cup {[c EXCEPT !.status = "failed"]}
    /\ faults < MaxFaults /\ faults' = faults + 1
    /\ UNCHANGED <<at, lang, days, hooks, shown, ran, flights, session, tracker, visits>>

\* `await login(...)` or `await logout()` returns, and the handler navigates,
\* although its page may be gone; if it throws, the page stays as it is.
LandCall(c) ==
    /\ c.status # "pending"
    /\ calls' = calls \ {c}
    /\ IF c.status = "failed" THEN UNCHANGED <<at, tracker>>
       ELSE GoTo(IF c.kind = "login" THEN Dashboard ELSE Login)
    /\ UNCHANGED <<lang, days, hooks, shown, ran, flights, session, bounds>>

\* The session expires, or its row is swept.
Lapse ==
    /\ session
    /\ session' = FALSE
    /\ faults < MaxFaults /\ faults' = faults + 1
    /\ UNCHANGED <<at, lang, days, hooks, shown, ran, flights, calls, tracker, visits>>

Visit == Navigate \/ SwitchLanguage \/ ChooseDays \/ SubmitLogin \/ SubmitLogout

Next ==
    \/ Lull \/ Commit \/ Effects \/ Poll \/ Visit \/ Lapse
    \/ \E f \in flights : Serve(f) \/ Fail(f) \/ Land(f)
    \/ \E c \in calls : ServeCall(c) \/ LoseCall(c) \/ LandCall(c)

Spec == Init /\ [][Next]_vars

\* React renders and runs effects, the interval fires, requests end, the
\* backend answers some of the polls, and callbacks that are due are called.
Fairness ==
    /\ WF_vars(Commit \/ Effects)
    /\ WF_vars(Poll)
    /\ WF_vars(\E f \in flights : Serve(f) \/ Fail(f))
    /\ WF_vars(\E f \in flights : Land(f))
    /\ SF_vars(\E f \in flights : f.hook = "health" /\ Serve(f))
    /\ WF_vars(\E c \in calls : ServeCall(c) \/ LandCall(c))

FairSpec == Spec /\ Fairness

-----------------------------------------------------------------------------
(* Properties.                                                                *)

AsyncState == [data : Data \cup {None}, loading : BOOLEAN, error : BOOLEAN]

View == [at : Location, lang : Locale, days : Days, hooks : [Hook -> AsyncState]]

Flight == [hook : Hook, ask : Question, first : BOOLEAN,
           status : {"pending", "ok", "failed", "unauthorized"}, data : Data \cup {None}]

Call == [kind : {"login", "logout"}, form : BOOLEAN, status : {"pending", "ok", "failed"}]

Event == [type : {"none", "page_view", "project_view", "language_change"},
          what : {None} \cup Slug \cup Location \cup [from : Locale, to : Locale]]

TypeOK ==
    /\ at \in Location /\ lang \in Locale /\ days \in Days
    /\ hooks \in [Hook -> AsyncState]
    /\ shown \in View
    /\ ran \in [path : Location \cup {None}, asks : [Hook -> Question \cup {None}],
               viewed : Slug \cup {None}]
    /\ flights \subseteq Flight
    /\ session \in BOOLEAN
    /\ calls \subseteq Call
    /\ tracker \in [last : Event, recent : BOOLEAN, page : Location \cup {None},
                   views : 0..2]

\* useProjects.ts 17-32, 41-61, useCertifications.ts 17-32, Skills.tsx 24-36,
\* AdminDashboard.tsx 80-105: when rendering has come to rest, whatever the
\* order in which answers arrived, a page shows the answer to the question of
\* its present address, language and range (and "not found" only if that is
\* the answer), or an error, or its first request is still under way and it
\* says so. The network health page may fall silent before that: a refresh
\* that fails takes the loading message away (NetworkHealth.tsx 91).
LatestAnswerShown ==
    Settled => \A h \in HooksOf(at.page) :
        \/ /\ ~hooks[h].loading
           /\ (hooks[h].error \/ hooks[h].data = Answer(h, Ask(h, shown)))
        \/ /\ \E f \in flights : f.hook = h /\ f.ask = Ask(h, shown) /\ f.first
           /\ h # "health" => hooks[h].loading

\* App.tsx 34-39, ProjectDetail.tsx 53-56: the page view recorded last is that
\* of the public page the visitor is on, and a project on the screen has been
\* recorded as viewed, whatever the throttle dropped.
VisitsRecorded ==
    Settled =>
        /\ at.page \in PublicPage => tracker.page = at
        /\ Viewed(shown) # None => tracker.views > 0

\* NetworkHealth.tsx 87-90: while the page is on the screen, a refresh that
\* fails, however late it comes, does not blank out the data that is there,
\* and only the request of the first load raises the error.
HealthNotBlanked ==
    [][shown.at.page = "health" /\ shown'.at.page = "health" =>
          /\ shown.hooks["health"].data # None => shown'.hooks["health"].data # None
          /\ ~hooks["health"].error /\ hooks'["health"].error
                => \E f \in flights \ flights' : f.hook = "health" /\ f.first]_vars

\* Once the visitor rests (after MaxVisits steps at the latest), the page on
\* the screen has done loading, whatever became of cancelled requests.
PagesLoad == <>[](\A h \in HooksOf(shown.at.page) : ~shown.hooks[h].loading)

\* NetworkHealth.tsx 83-86, 101: without a session the network health page
\* does not stay on the screen; a later poll finds out, whichever answers are
\* late or lost.
SignedOutLeavesHealth ==
    (at.page = "health" /\ ~session) ~> (at.page # "health" \/ session)
=============================================================================
