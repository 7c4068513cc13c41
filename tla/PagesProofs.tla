----------------------------- MODULE PagesProofs -----------------------------
(* Proofs about the pages, for any content, languages, ranges and number of   *)
(* visits and faults: what is shown when rendering comes to rest, what was    *)
(* recorded by then, and that the network health page is never blanked.       *)
EXTENDS Pages, TLAPS

-----------------------------------------------------------------------------
(* The inductive invariant.                                                   *)

\* An effect asks only what its page asks, and admins come only to a site
\* that has the admin pages.
AskInv ==
    /\ \A h \in Hook : ran.asks[h] # None => h \in HooksOf(ran.asks[h].page)
    /\ calls # {} => AdminPage \subseteq Page

\* The requests in flight are those of the effects that ran last, and an
\* answer is to its question.
FlightInv ==
    \A f \in flights :
        /\ f.ask = ran.asks[f.hook]
        /\ f.status = "ok" => f.data = Answer(f.hook, f.ask)
        /\ f.status = "failed" => f.data = None
        /\ f.status = "unauthorized" => f.hook \in AdminHook

\* The hook's present question is the one its effect asked.
Asked(h) ==
    /\ at.page = shown.at.page
    /\ Ask(h, shown) # None
    /\ ran.asks[h] = Ask(h, shown)

Shows(h, ask) ==
    ~hooks[h].loading /\ (hooks[h].error \/ hooks[h].data = Answer(h, ask))

Waits(h, ask) ==
    /\ \E f \in flights : f.hook = h /\ f.first
    /\ h # "health" => hooks[h].loading

AnswerInv ==
    \A h \in Hook : Asked(h) => Shows(h, ran.asks[h]) \/ Waits(h, ran.asks[h])

\* A project in the state of the hook is the one its effect asked for.
ProjectInv ==
    /\ Ask("project", shown) # None
    /\ ran.asks["project"] = Ask("project", shown)
    /\ hooks["project"].data # None
    => hooks["project"].data.slug = shown.at.slug

\* The throttle and the page view that was recorded last.
PageInv ==
    /\ tracker.last.type = "page_view" => tracker.page = tracker.last.what
    /\ ran.path # None /\ ran.path.page \in PublicPage => tracker.page = ran.path

\* The project that belongs to the address is not rendered before the effects
\* of the address ran; and what they recorded, or what made the throttle drop
\* it, has been counted.
ViewInv ==
    /\ Viewed(shown) # None /\ Viewed(shown) = shown.at.slug => ran.path = shown.at
    /\ at.page = "detail" /\ shown.at = at /\ ran.path = at =>
          /\ ran.viewed # None /\ ran.viewed = at.slug => tracker.views > 0
          /\ tracker.last.type = "project_view" /\ tracker.last.what = at.slug
                => tracker.views > 0

\* The data of the health page outlives its renders.
HealthInv ==
    shown.at.page = "health" /\ shown.hooks["health"].data # None =>
        /\ ran.asks["health"] = Ask("health", shown)
        /\ hooks["health"].data # None

IInv ==
    /\ TypeOK
    /\ AskInv
    /\ FlightInv
    /\ AnswerInv
    /\ ProjectInv
    /\ PageInv
    /\ ViewInv
    /\ HealthInv

-----------------------------------------------------------------------------
(* Types of what the actions compute.                                         *)

LEMMA LocationFields ==
  ASSUME NEW l \in Location
  PROVE  /\ l.page \in Page /\ l.slug \in Slug \cup {None}
         /\ l = [page |-> l.page, slug |-> l.slug]
         /\ l.page # "detail" => l.slug = None
         /\ l.page = "detail" => l.slug \in Slug
  BY DEF Location

LEMMA PageKinds ==
  /\ \A page \in Page : page \in PublicPage \/ page \in AdminPage
  /\ PublicPage \cap AdminPage = {}
  /\ Page \cap AdminPage # {} => AdminPage \subseteq Page
  BY PageAssumption DEF PublicPage, AdminPage

\* Where the redirects, the login and the logout lead.
LEMMA Goals ==
  /\ AdminPage \subseteq Page => Login \in Location /\ Dashboard \in Location
  /\ \A page \in DOMAIN Moved \cap Page :
        /\ [page |-> Moved[page], slug |-> None] \in Location
        /\ Moved[page] \in {"experience", "skills"} /\ page \notin {"experience", "skills"}
<1>1. AdminPage \subseteq Page => Login \in Location /\ Dashboard \in Location
  BY DEF AdminPage, Login, Dashboard, Location
<1>2. ASSUME NEW page \in DOMAIN Moved \cap Page
      PROVE  /\ [page |-> Moved[page], slug |-> None] \in Location
             /\ Moved[page] \in {"experience", "skills"}
             /\ page \notin {"experience", "skills"}
  <2>1. Moved[page] \in Page
    BY PageAssumption
  <2>2. Moved[page] \in {"experience", "skills"} /\ page \notin {"experience", "skills"}
    BY DEF Moved
  <2> QED
    BY <2>1, <2>2 DEF Location
<1> QED
  BY <1>1, <1>2

LEMMA AskType ==
  ASSUME NEW view \in View, NEW h \in Hook
  PROVE  /\ Ask(h, view) \in Question \cup {None}
         /\ Ask(h, view) # None <=> h \in HooksOf(view.at.page)
         /\ h \in HooksOf(view.at.page) =>
               /\ Ask(h, view) \in Question
               /\ Ask(h, view).page = view.at.page
               /\ h = "project" => Ask(h, view).slug = view.at.slug
<1>1. /\ view.at \in Location /\ view.lang \in Locale /\ view.days \in Days
      /\ view.at.page \in Page /\ view.at.slug \in Slug \cup {None}
  BY LocationFields DEF View
<1>2. CASE h \notin HooksOf(view.at.page)
  BY <1>2 DEF Ask
<1>3. CASE h \in HooksOf(view.at.page)
  <2>1. Ask(h, view) \in Question
    BY <1>1, <1>3 DEF Ask, Question
  <2>2. /\ Ask(h, view).page = view.at.page
        /\ h = "project" => Ask(h, view).slug = view.at.slug
    BY <1>3 DEF Ask
  <2> QED
    BY <1>3, <2>1, <2>2, NoneAssumption
<1> QED
  BY <1>2, <1>3

LEMMA AnswerType ==
  ASSUME NEW h \in Hook, NEW ask \in Question
  PROVE  /\ Answer(h, ask) \in Data \cup {None}
         /\ h # "project" => Answer(h, ask) \in Data
         /\ Answer(h, ask) # None => Answer(h, ask).slug = ask.slug
<1> DEFINE items == CASE h = "projects"       -> Listed(ask.lang)
                      [] h = "certifications" -> ListedCertifications(ask.lang)
                      [] OTHER                -> {}
           answer == [slug |-> ask.slug, lang |-> ask.lang, days |-> ask.days,
                      items |-> items]
<1>1. items \in SUBSET (Slug \cup DOMAIN Certified)
  BY DEF Listed, ListedCertifications
<1> HIDE DEF items
<1>2. /\ ask.slug \in Slug \cup {None} /\ ask.lang \in {"en", "es", None}
      /\ ask.days \in Days \cup {None}
  BY LocaleAssumption DEF Question
<1>3. answer \in Data /\ answer.slug = ask.slug
  BY <1>1, <1>2 DEF Data
<1>4. Served(ask.slug, ask.lang) \in {"en", "es", None}
  BY <1>2 DEF Served
<1>5. /\ [answer EXCEPT !.lang = Served(ask.slug, ask.lang)] \in Data
      /\ [answer EXCEPT !.lang = Served(ask.slug, ask.lang)].slug = ask.slug
  BY <1>1, <1>2, <1>4 DEF Data
<1>6. Answer(h, ask) = IF h # "project" THEN answer
                       ELSE IF Served(ask.slug, ask.lang) = None THEN None
                       ELSE [answer EXCEPT !.lang = Served(ask.slug, ask.lang)]
  BY DEF Answer, items
<1> HIDE DEF answer
<1> QED
  BY <1>3, <1>5, <1>6, NoneAssumption

LEMMA ViewedType ==
  ASSUME NEW view \in View
  PROVE  /\ Viewed(view) \in Slug \cup {None}
         /\ Viewed(view) # None =>
               /\ view.at.page = "detail" /\ view.hooks["project"].data # None
               /\ Viewed(view) = view.hooks["project"].data.slug
<1>1. view.hooks["project"].data \in Data \cup {None}
  BY DEF View, Hook, AsyncState
<1> QED
  BY <1>1 DEF Viewed, Data

Tracker == [last : Event, recent : BOOLEAN, page : Location \cup {None}, views : 0..2]

\* What the throttle drops was recorded before.
LEMMA TrackType ==
  ASSUME NEW t \in Tracker, NEW e \in Event,
         e.type = "page_view" => e.what \in Location,
         t.last.type = "page_view" => t.page = t.last.what
  PROVE  /\ Track(t, e) \in Tracker
         /\ Track(t, e).last.type = e.type /\ Track(t, e).last.what = e.what
         /\ Track(t, e).page = IF e.type = "page_view" THEN e.what ELSE t.page
         /\ t.views > 0 => Track(t, e).views > 0
         /\ e.type = "project_view" /\ e.what = at.slug /\ shown.at = at
              => \/ Track(t, e).views > 0
                 \/ t.last.type = "project_view" /\ t.last.what = at.slug
<1> DEFINE dropped == t.recent /\ e.type = t.last.type /\ e.what = t.last.what
<1>1. /\ t.last \in Event /\ t.recent \in BOOLEAN /\ t.page \in Location \cup {None}
      /\ t.views \in 0..2
  BY DEF Tracker
<1>2. CASE dropped
  <2>1. Track(t, e) = t
    BY <1>2 DEF Track
  <2> QED
    BY <1>1, <1>2, <2>1
<1>3. CASE ~dropped
  <2> DEFINE views == IF e.type = "project_view" /\ e.what = at.slug /\ shown.at = at
                      THEN IF t.views < 2 THEN t.views + 1 ELSE 2 ELSE t.views
             page == IF e.type = "page_view" THEN e.what ELSE t.page
  <2>1. Track(t, e) = [last |-> e, recent |-> TRUE, page |-> page, views |-> views]
    BY <1>3 DEF Track
  <2>2. /\ views \in 0..2
        /\ t.views > 0 => views > 0
        /\ e.type = "project_view" /\ e.what = at.slug /\ shown.at = at => views > 0
    BY <1>1
  <2>3. page \in Location \cup {None}
    BY <1>1
  <2> HIDE DEF views, page
  <2>4. /\ Track(t, e).last = e /\ Track(t, e).page = page /\ Track(t, e).views = views
        /\ Track(t, e) \in Tracker
    BY <2>1, <2>2, <2>3 DEF Tracker
  <2> QED
    BY <2>2, <2>4 DEF page
<1> QED
  BY <1>2, <1>3

-----------------------------------------------------------------------------
(* The steps.                                                                 *)

LEMMA MountedType == Loading \in AsyncState /\ Mounted \in [Hook -> AsyncState]
  BY DEF Loading, Mounted, AsyncState

LEMMA InitIInv == Init => IInv
<1> SUFFICES ASSUME Init PROVE IInv
  OBVIOUS
<1> USE DEF Init
<1>1. /\ hooks \in [Hook -> AsyncState] /\ \A h \in Hook : hooks[h].data = None
      /\ shown = [at |-> at, lang |-> lang, days |-> days, hooks |-> hooks]
  BY MountedType DEF Current, Mounted, Loading
<1> HIDE DEF Hook
<1>2. TypeOK
  <2>1. shown \in View
    BY <1>1, DaysAssumption DEF View
  <2>2. ran \in [path : Location \cup {None}, asks : [Hook -> Question \cup {None}],
                 viewed : Slug \cup {None}]
    OBVIOUS
  <2>3. tracker \in [last : Event, recent : BOOLEAN, page : Location \cup {None}, views : 0..2]
    BY DEF Event
  <2> QED
    BY <1>1, <2>1, <2>2, <2>3, DaysAssumption, SignedInAssumption DEF TypeOK
<1>3. \A h \in Hook : ran.asks[h] = None
  OBVIOUS
<1>4. AskInv /\ FlightInv /\ AnswerInv
  BY <1>3 DEF AskInv, FlightInv, AnswerInv, Asked
<1>5. ProjectInv /\ HealthInv
  BY <1>1 DEF ProjectInv, HealthInv, Hook
<1>6. PageInv
  BY DEF PageInv
<1>7. ViewInv
  <2>1. Viewed(shown) = None
    BY <1>1 DEF Viewed, Hook
  <2> QED
    BY <2>1 DEF ViewInv
<1> QED
  BY <1>2, <1>4, <1>5, <1>6, <1>7 DEF IInv

\* What a step that only the throttle and the calls see keeps.
LEMMA StillKeeps ==
  ASSUME IInv, TypeOK',
         UNCHANGED <<at, hooks, shown, ran, flights>>,
         calls' # {} => AdminPage \subseteq Page,
         \/ tracker' = tracker
         \/ tracker' = [tracker EXCEPT !.recent = FALSE]
         \/ \E e \in Event : e.type = "language_change" /\ tracker' = Track(tracker, e)
  PROVE  IInv'
<1>1. tracker \in Tracker /\ PageInv
  BY DEF IInv, TypeOK, Tracker
<1>2. /\ tracker'.page = tracker.page
      /\ tracker.views > 0 => tracker'.views > 0
      /\ \/ tracker'.last = tracker.last
         \/ tracker'.last.type = "language_change"
  <2>1. CASE tracker' = tracker \/ tracker' = [tracker EXCEPT !.recent = FALSE]
    BY <1>1, <2>1 DEF Tracker
  <2>2. CASE \E e \in Event : e.type = "language_change" /\ tracker' = Track(tracker, e)
    <3>1. PICK e \in Event : e.type = "language_change" /\ tracker' = Track(tracker, e)
      BY <2>2
    <3> QED
      BY <1>1, <3>1, TrackType DEF PageInv
  <2> QED
    BY <2>1, <2>2
<1>3. PageInv'
  BY <1>1, <1>2 DEF PageInv
<1>4. ViewInv'
  BY <1>2 DEF IInv, ViewInv, Viewed
<1>5. AskInv' /\ FlightInv' /\ AnswerInv' /\ ProjectInv' /\ HealthInv'
  BY DEF IInv, AskInv, FlightInv, AnswerInv, Asked, Shows, Waits, ProjectInv, HealthInv
<1> QED
  BY <1>3, <1>4, <1>5 DEF IInv

\* Leaving a page that is rendered: until the next render nothing is asked of it.
LEMMA MoveKeeps ==
  ASSUME IInv, NEW l \in Location, GoTo(l), UNCHANGED <<lang, days, hooks, shown, ran>>,
         flights' \subseteq flights, calls' \subseteq calls, session' = session,
         flights' = flights \/ at.page # l.page \/ HooksOf(l.page) = {}
  PROVE  IInv'
<1>1. /\ shown.at = at /\ at' = l
      /\ tracker' = IF l = at THEN tracker ELSE [tracker EXCEPT !.views = 0]
  BY DEF GoTo, Arrived
<1>2. tracker \in Tracker
  BY DEF IInv, TypeOK, Tracker
<1>3. /\ tracker' \in Tracker /\ tracker'.last = tracker.last /\ tracker'.page = tracker.page
      /\ l = at => tracker' = tracker
  BY <1>1, <1>2 DEF Tracker
<1>4. TypeOK'
  BY <1>1, <1>3 DEF IInv, TypeOK, Tracker
<1>5. AskInv' /\ FlightInv' /\ ProjectInv' /\ HealthInv'
  BY <1>1 DEF IInv, AskInv, FlightInv, ProjectInv, HealthInv
<1>6. AnswerInv'
  <2>1. ASSUME NEW h \in Hook, Asked(h)'
        PROVE  Asked(h) /\ flights' = flights
    <3>1. shown \in View /\ at.page = l.page /\ Ask(h, shown) # None
      BY <1>1, <2>1 DEF Asked, IInv, TypeOK
    <3>2. h \in HooksOf(l.page)
      BY <1>1, <3>1, AskType
    <3> QED
      BY <1>1, <2>1, <3>1, <3>2 DEF Asked
  <2> QED
    BY <2>1 DEF IInv, AnswerInv, Shows, Waits
<1>7. PageInv'
  BY <1>1, <1>3 DEF IInv, PageInv
<1>8. ViewInv'
  BY <1>1, <1>3 DEF IInv, ViewInv, Viewed
<1> QED
  BY <1>4, <1>5, <1>6, <1>7, <1>8 DEF IInv

LEMMA HooksHaveState ==
  ASSUME TypeOK, NEW h \in Hook
  PROVE  /\ hooks[h] \in AsyncState /\ shown.hooks[h] \in AsyncState
         /\ ran.asks[h] \in Question \cup {None}
  BY DEF TypeOK, View

\* The answer to a request changes nothing but the request.
LEMMA ReplyKeeps ==
  ASSUME IInv, NEW f \in flights, NEW status, NEW data, Reply(f, status, data),
         status \in {"ok", "failed", "unauthorized"}, data \in Data \cup {None},
         status = "ok" => data = Answer(f.hook, f.ask),
         status = "failed" => data = None,
         status = "unauthorized" => f.hook \in AdminHook
  PROVE  IInv'
<1> DEFINE g == [f EXCEPT !.status = status, !.data = data]
<1>1. /\ flights' = (flights \ {f}) \cup {g}
      /\ at' = at /\ lang' = lang /\ days' = days /\ hooks' = hooks /\ shown' = shown
      /\ ran' = ran /\ session' = session /\ calls' = calls /\ tracker' = tracker
  BY DEF Reply
<1>2. f \in Flight
  BY DEF IInv, TypeOK
<1>3. /\ g \in Flight /\ g.hook = f.hook /\ g.ask = f.ask /\ g.first = f.first
      /\ g.status = status /\ g.data = data
  BY <1>2 DEF Flight
<1> HIDE DEF g
<1>4. TypeOK'
  BY <1>1, <1>3 DEF IInv, TypeOK
<1>5. FlightInv'
  BY <1>1, <1>3 DEF IInv, FlightInv
<1>6. AnswerInv'
  BY <1>1, <1>3 DEF IInv, AnswerInv, Asked, Shows, Waits
<1>7. AskInv' /\ ProjectInv' /\ PageInv' /\ ViewInv' /\ HealthInv'
  BY <1>1 DEF IInv, AskInv, ProjectInv, PageInv, ViewInv, HealthInv, Viewed
<1> QED
  BY <1>4, <1>5, <1>6, <1>7 DEF IInv

LEMMA PollKeeps == ASSUME IInv, Poll PROVE IInv'
<1> DEFINE g == [hook |-> "health", ask |-> ran.asks["health"], first |-> FALSE,
                 status |-> "pending", data |-> None]
<1>1. /\ ran.asks["health"] # None /\ flights' = flights \cup {g}
      /\ at' = at /\ lang' = lang /\ days' = days /\ hooks' = hooks /\ shown' = shown
      /\ ran' = ran /\ session' = session /\ calls' = calls /\ tracker' = tracker
  BY DEF Poll, bounds
<1>2. "health" \in Hook
  BY DEF Hook
<1>3. ran.asks["health"] \in Question
  BY <1>1, <1>2, HooksHaveState DEF IInv
<1>4. /\ g \in Flight /\ g.hook = "health" /\ g.ask = ran.asks["health"]
      /\ g.status = "pending"
  BY <1>2, <1>3 DEF Flight
<1> HIDE DEF g
<1>5. TypeOK'
  BY <1>1, <1>4 DEF IInv, TypeOK
<1>6. FlightInv'
  BY <1>1, <1>4 DEF IInv, FlightInv
<1>7. AnswerInv'
  BY <1>1 DEF IInv, AnswerInv, Asked, Shows, Waits
<1>8. AskInv' /\ ProjectInv' /\ PageInv' /\ ViewInv' /\ HealthInv'
  BY <1>1 DEF IInv, AskInv, ProjectInv, PageInv, ViewInv, HealthInv, Viewed
<1> QED
  BY <1>5, <1>6, <1>7, <1>8 DEF IInv

\* What the callback of a request that was not refused leaves behind: an
\* answer, an error, or, on the health page, what was there.
LEMMA OutcomeType ==
  ASSUME NEW f \in Flight, NEW state \in AsyncState,
         f.status \in {"ok", "failed"},
         f.status = "failed" => f.data = None
  PROVE  /\ Outcome(f, state) \in AsyncState /\ ~Outcome(f, state).loading
         /\ f.status = "ok" => Outcome(f, state).data = f.data
         /\ f.status = "failed" /\ (f.hook # "health" \/ f.first) => Outcome(f, state).error
         /\ f.status = "failed" /\ f.hook = "health"
              => /\ Outcome(f, state).data = state.data
                 /\ state.error => Outcome(f, state).error
         /\ f.hook \notin AdminHook => Outcome(f, state).data = f.data
<1> USE DEF AdminHook
<1>1. /\ f.data \in Data \cup {None} /\ f.first \in BOOLEAN
      /\ state.data \in Data \cup {None} /\ state.error \in BOOLEAN
      /\ state = [data |-> state.data, loading |-> state.loading, error |-> state.error]
  BY DEF Flight, AsyncState
<1>2. CASE f.hook = "report"
  BY <1>1, <1>2 DEF Outcome, ReportOutcome, AsyncState
<1>3. CASE f.hook = "health"
  BY <1>1, <1>3 DEF Outcome, HealthOutcome, AsyncState
<1>4. CASE f.hook \notin {"report", "health"}
  BY <1>1, <1>4 DEF Outcome, ContentOutcome, AsyncState
<1> QED
  BY <1>2, <1>3, <1>4

LEMMA LandKeeps == ASSUME IInv, NEW f \in flights, Land(f) PROVE IInv'
<1>1. /\ f \in Flight /\ f.hook \in Hook /\ f.ask \in Question /\ f.ask = ran.asks[f.hook]
      /\ f.status \in {"ok", "failed", "unauthorized"}
      /\ f.status = "ok" => f.data = Answer(f.hook, f.ask)
      /\ f.status = "failed" => f.data = None
      /\ f.status = "unauthorized" => f.hook \in AdminHook
  BY DEF IInv, TypeOK, FlightInv, Flight, Land
<1>2. /\ flights' = flights \ {f} /\ lang' = lang /\ days' = days /\ shown' = shown
      /\ ran' = ran /\ session' = session /\ calls' = calls
  BY DEF Land, bounds
<1>3. CASE f.status = "unauthorized"
  <2>1. GoTo(Login) /\ hooks' = hooks
    BY <1>3 DEF Land
  <2>2. f.hook \in HooksOf(f.ask.page) /\ f.ask.page \in Page
    BY <1>1, NoneAssumption DEF IInv, AskInv, Question
  <2>3. f.ask.page \in AdminPage
    BY <1>1, <1>3, <2>2 DEF HooksOf, AdminHook, AdminPage
  <2>4. Login \in Location /\ HooksOf(Login.page) = {}
    BY <2>2, <2>3, PageKinds, Goals DEF Login, HooksOf
  <2> QED
    BY <1>2, <2>1, <2>4, MoveKeeps
<1>4. CASE f.status # "unauthorized"
  <2> DEFINE state == Outcome(f, hooks[f.hook])
  <2>1. /\ hooks' = [hooks EXCEPT ![f.hook] = state] /\ at' = at /\ tracker' = tracker
    BY <1>4 DEF Land
  <2>2. /\ state \in AsyncState /\ ~state.loading
        /\ f.status = "ok" => state.data = f.data
        /\ f.status = "failed" /\ (f.hook # "health" \/ f.first) => state.error
        /\ f.status = "failed" /\ f.hook = "health"
             => /\ state.data = hooks["health"].data
                /\ hooks["health"].error => state.error
        /\ f.hook \notin AdminHook => state.data = f.data
    BY <1>1, <1>4, HooksHaveState, OutcomeType DEF IInv
  <2> HIDE DEF state
  <2>3. /\ hooks'[f.hook] = state
        /\ \A h \in Hook : h # f.hook => hooks'[h] = hooks[h]
        /\ hooks' \in [Hook -> AsyncState]
    BY <1>1, <2>1, <2>2 DEF IInv, TypeOK
  <2>4. TypeOK'
    BY <1>2, <2>1, <2>3 DEF IInv, TypeOK
  <2>5. AskInv' /\ FlightInv' /\ PageInv' /\ ViewInv'
    BY <1>2, <2>1 DEF IInv, AskInv, FlightInv, PageInv, ViewInv, Viewed
  <2>6. ASSUME NEW h \in Hook, Asked(h)
        PROVE  Shows(h, ran.asks[h])' \/ Waits(h, ran.asks[h])'
    <3>1. CASE h # f.hook
      BY <1>2, <2>3, <2>6, <3>1 DEF IInv, AnswerInv, Shows, Waits
    <3>2. CASE h = f.hook /\ (f.status = "ok" \/ f.hook # "health" \/ f.first)
      BY <1>1, <1>2, <1>4, <2>2, <2>3, <3>2 DEF Shows
    <3>3. CASE h = f.hook /\ f.status = "failed" /\ f.hook = "health" /\ ~f.first
      <4>1. CASE Shows(h, ran.asks[h])
        BY <1>2, <2>2, <2>3, <3>3, <4>1 DEF Shows
      <4>2. CASE Waits(h, ran.asks[h])
        BY <1>2, <3>3, <4>2 DEF Waits
      <4> QED
        BY <2>6, <4>1, <4>2 DEF IInv, AnswerInv
    <3> QED
      BY <1>1, <1>4, <3>1, <3>2, <3>3
  <2>7. AnswerInv'
    BY <1>2, <2>1, <2>6 DEF AnswerInv, Asked
  <2>8. ProjectInv'
    <3>1. CASE f.hook = "project"
      <4>1. hooks'["project"].data # None => hooks'["project"].data.slug = f.ask.slug
        BY <1>1, <1>4, <2>2, <2>3, <3>1, AnswerType DEF AdminHook
      <4>2. Ask("project", shown) # None => Ask("project", shown).slug = shown.at.slug
        BY AskType DEF IInv, TypeOK, Hook
      <4> QED
        BY <1>1, <1>2, <3>1, <4>1, <4>2 DEF ProjectInv
    <3>2. CASE f.hook # "project"
      BY <1>2, <2>3, <3>2 DEF IInv, ProjectInv, Hook
    <3> QED
      BY <3>1, <3>2
  <2>9. HealthInv'
    <3>1. hooks["health"].data # None => hooks'["health"].data # None
      <4>1. CASE f.hook = "health" /\ f.status = "ok"
        BY <1>1, <2>2, <2>3, <4>1, AnswerType, NoneAssumption
      <4>2. CASE ~(f.hook = "health" /\ f.status = "ok")
        BY <1>1, <1>4, <2>2, <2>3, <4>2 DEF Hook
      <4> QED
        BY <4>1, <4>2
    <3> QED
      BY <1>2, <3>1 DEF IInv, HealthInv
  <2> QED
    BY <2>4, <2>5, <2>7, <2>8, <2>9 DEF IInv
<1> QED
  BY <1>3, <1>4

\* What is rendered are the questions of the effects, until the next effects.
LEMMA CommitKeeps == ASSUME IInv, Commit PROVE IInv'
<1>1. /\ ran = Deps(shown) /\ at' = at /\ lang' = lang /\ ran' = ran /\ flights' = flights
      /\ session' = session /\ tracker' = tracker
      /\ calls' = calls \/ calls' = {[c EXCEPT !.form = FALSE] : c \in calls}
      /\ shown' = [at |-> at, lang |-> lang, days |-> days', hooks |-> hooks']
      /\ IF at.page = shown.at.page THEN hooks' = hooks /\ days' = days
                                    ELSE hooks' = Mounted /\ days' = DefaultDays
  BY DEF Commit, bounds
<1>2. /\ ran.path = shown.at /\ ran.viewed = Viewed(shown)
      /\ \A h \in Hook : ran.asks[h] = Ask(h, shown)
  BY <1>1 DEF Deps
<1>3. /\ hooks' \in [Hook -> AsyncState] /\ days' \in Days
      /\ shown \in View /\ at \in Location /\ lang \in Locale
  BY <1>1, MountedType, DaysAssumption DEF IInv, TypeOK
<1>4. /\ shown' \in View /\ shown'.at = at /\ shown'.hooks = hooks'
  BY <1>1, <1>3 DEF View
<1>5. \A h \in Hook : hooks'[h].data # None => at.page = shown.at.page
  BY <1>1 DEF Mounted, Loading
<1>5a. calls' \subseteq Call /\ (calls' # {} => calls # {})
  <2>1. \A c \in Call : [c EXCEPT !.form = FALSE] \in Call
    BY DEF Call
  <2>2. calls \subseteq Call
    BY DEF IInv, TypeOK
  <2> QED
    BY <1>1, <2>1, <2>2
<1>6. TypeOK'
  BY <1>1, <1>3, <1>4, <1>5a DEF IInv, TypeOK
<1>7. AskInv' /\ FlightInv' /\ PageInv'
  BY <1>1, <1>5a DEF IInv, AskInv, FlightInv, PageInv
<1>8. ASSUME NEW h \in Hook, Ask(h, shown') # None, ran.asks[h] = Ask(h, shown')
      PROVE  at.page = shown.at.page /\ Ask(h, shown) # None
  <2>1. Ask(h, shown') = Ask(h, shown)
    BY <1>2, <1>8
  <2>2. Ask(h, shown').page = shown'.at.page /\ Ask(h, shown).page = shown.at.page
    BY <1>3, <1>4, <1>8, <2>1, AskType
  <2> QED
    BY <1>4, <1>8, <2>1, <2>2
<1>9. AnswerInv'
  <2>1. ASSUME NEW h \in Hook, Asked(h)'
        PROVE  Asked(h) /\ hooks' = hooks
    <3>1. Ask(h, shown') # None /\ ran.asks[h] = Ask(h, shown')
      BY <1>1, <2>1 DEF Asked
    <3> QED
      BY <1>1, <1>2, <1>8, <3>1 DEF Asked
  <2> QED
    BY <1>1, <2>1 DEF IInv, AnswerInv, Shows, Waits
<1>10. ProjectInv'
  <2> SUFFICES ASSUME Ask("project", shown') # None,
                      ran.asks["project"] = Ask("project", shown'),
                      hooks'["project"].data # None
               PROVE  hooks'["project"].data.slug = at.slug
    BY <1>1, <1>4 DEF ProjectInv
  <2>1. "project" \in Hook
    BY DEF Hook
  <2>2. /\ hooks' = hooks /\ Ask("project", shown) # None
        /\ Ask("project", shown') = Ask("project", shown)
    BY <1>1, <1>2, <1>8, <2>1
  <2>3. hooks["project"].data.slug = shown.at.slug
    BY <1>2, <2>1, <2>2 DEF IInv, ProjectInv
  <2>4. Ask("project", shown').slug = at.slug /\ Ask("project", shown).slug = shown.at.slug
    BY <1>3, <1>4, <2>1, <2>2, AskType
  <2> QED
    BY <2>2, <2>3, <2>4
<1>11. ViewInv'
  <2>1. ASSUME Viewed(shown') # None, Viewed(shown') = at.slug
        PROVE  shown.at = at
    <3>1. "project" \in Hook
      BY DEF Hook
    <3>2. /\ at.page = "detail" /\ hooks'["project"].data # None
          /\ hooks'["project"].data.slug = at.slug
      BY <1>4, <2>1, ViewedType
    <3>3. shown.at.page = "detail" /\ hooks' = hooks
      BY <1>1, <1>5, <3>1, <3>2
    <3>4. Ask("project", shown) # None
      BY <1>3, <3>1, <3>3, AskType DEF HooksOf
    <3>5. hooks["project"].data.slug = shown.at.slug
      BY <1>2, <3>1, <3>2, <3>3, <3>4 DEF IInv, ProjectInv
    <3> QED
      BY <1>3, <3>2, <3>3, <3>5, LocationFields DEF View
  <2> QED
    BY <1>1, <1>2, <1>4, <2>1 DEF IInv, ViewInv
<1>12. HealthInv'
  <2> SUFFICES ASSUME at.page = "health", hooks'["health"].data # None
               PROVE  ran.asks["health"] = Ask("health", shown')
    BY <1>1, <1>4 DEF HealthInv
  <2>1. at.page = shown.at.page
    BY <1>5 DEF Hook
  <2>2. Ask("health", shown) = Ask("health", shown')
    BY <1>4, <2>1 DEF Ask
  <2> QED
    BY <1>2, <2>2 DEF Hook
<1> QED
  BY <1>6, <1>7, <1>9, <1>10, <1>11, <1>12 DEF IInv

\* The throttle after the effects of a render.
LEMMA TrackEffects ==
  ASSUME IInv, NEW deps, deps = Deps(shown)
  PROVE  LET t1 == TrackProject(tracker, deps)
             t2 == TrackPage(t1, deps)
         IN  /\ t1 \in Tracker /\ t2 \in Tracker
             /\ t2.last.type = "page_view" => t2.page = t2.last.what
             /\ shown.at.page \in PublicPage => t2.page = shown.at
             /\ tracker.views > 0 => t1.views > 0
             /\ t1.views > 0 => t2.views > 0
             /\ deps.viewed \in {None, ran.viewed} => t1 = tracker
             /\ deps.viewed \notin {None, ran.viewed} /\ deps.viewed = at.slug /\ shown.at = at
                  => t1.views > 0 \/ (tracker.last.type = "project_view"
                                        /\ tracker.last.what = at.slug)
             /\ deps.viewed \notin {None, ran.viewed} => t1.last.what = deps.viewed
             /\ shown.at = ran.path => t2 = t1
             /\ shown.at # ran.path /\ shown.at.page \in PublicPage
                  => t2.last.type = "page_view"
<1> DEFINE t1 == TrackProject(tracker, deps)
           t2 == TrackPage(t1, deps)
           view == [type |-> "project_view", what |-> deps.viewed]
           page == [type |-> "page_view", what |-> deps.path]
<1>1. /\ tracker \in Tracker /\ shown \in View /\ shown.at \in Location
      /\ tracker.last.type = "page_view" => tracker.page = tracker.last.what
  BY DEF IInv, TypeOK, Tracker, PageInv, View
<1>2. deps.path = shown.at /\ deps.viewed \in Slug \cup {None}
  BY <1>1, ViewedType DEF Deps
<1>3. view \in Event /\ view.type = "project_view" /\ view.what = deps.viewed
  BY <1>2 DEF Event
<1>4. page \in Event /\ page.type = "page_view" /\ page.what = shown.at
  BY <1>1, <1>2 DEF Event
<1>5. /\ t1 = IF deps.viewed \in {None, ran.viewed} THEN tracker ELSE Track(tracker, view)
      /\ t2 = IF shown.at = ran.path \/ shown.at.page \in AdminPage THEN t1
              ELSE Track(t1, page)
  BY <1>2 DEF TrackProject, TrackPage
<1> HIDE DEF t1, t2, view, page
<1>6. /\ t1 \in Tracker /\ t1.page = tracker.page
      /\ t1.last.type = "page_view" => t1.page = t1.last.what
      /\ tracker.views > 0 => t1.views > 0
      /\ deps.viewed \notin {None, ran.viewed} => t1.last.what = deps.viewed
      /\ deps.viewed \notin {None, ran.viewed} /\ deps.viewed = at.slug /\ shown.at = at
           => t1.views > 0 \/ (tracker.last.type = "project_view"
                                 /\ tracker.last.what = at.slug)
  <2>1. CASE deps.viewed \in {None, ran.viewed}
    BY <1>1, <1>5, <2>1
  <2>2. CASE deps.viewed \notin {None, ran.viewed}
    BY <1>1, <1>3, <1>5, <2>2, TrackType
  <2> QED
    BY <2>1, <2>2
<1>7. /\ t2 \in Tracker
      /\ t1.views > 0 => t2.views > 0
      /\ t2.last.type = "page_view" => t2.page = t2.last.what
      /\ shown.at = ran.path => t2 = t1
      /\ shown.at # ran.path /\ shown.at.page \in PublicPage
           => t2.last.type = "page_view" /\ t2.page = shown.at
  <2>1. CASE shown.at = ran.path \/ shown.at.page \in AdminPage
    BY <1>5, <1>6, <2>1, PageKinds
  <2>2. CASE ~(shown.at = ran.path \/ shown.at.page \in AdminPage)
    BY <1>1, <1>4, <1>5, <1>6, <2>2, TrackType
  <2> QED
    BY <2>1, <2>2
<1>8. shown.at.page \in PublicPage => t2.page = shown.at
  BY <1>1, <1>6, <1>7, NoneAssumption DEF IInv, PageInv
<1> QED
  BY <1>5, <1>6, <1>7, <1>8 DEF t1, t2

LEMMA EffectsKeep == ASSUME IInv, Effects PROVE IInv'
<1> DEFINE deps  == Deps(shown)
           stale == {h \in Hook : deps.asks[h] # ran.asks[h]}
           fresh == {h \in stale : deps.asks[h] # None}
           goal  == IF shown.at.page \in DOMAIN Moved
                    THEN [page |-> Moved[shown.at.page], slug |-> None] ELSE at
           asked(h) == [hook |-> h, ask |-> deps.asks[h], first |-> TRUE,
                        status |-> "pending", data |-> None]
           t2 == TrackPage(TrackProject(tracker, deps), deps)
<1>1. /\ flights' = {f \in flights : f.hook \notin stale} \cup {asked(h) : h \in fresh}
      /\ hooks' = [h \in Hook |-> IF h \in fresh THEN Restarted(h) ELSE hooks[h]]
      /\ ran' = deps /\ at' = goal /\ tracker' = Arrived(t2, goal)
      /\ lang' = lang /\ days' = days /\ shown' = shown /\ session' = session
      /\ calls' = calls
  BY DEF Effects, Cleaned, bounds
<1>2. /\ shown \in View /\ shown.at \in Location /\ shown.at.page \in Page
      /\ at \in Location
  BY LocationFields DEF IInv, TypeOK, View
<1>d. deps = Deps(shown)
  OBVIOUS
<1>3. /\ deps.path = shown.at /\ deps.viewed = Viewed(shown)
      /\ \A h \in Hook : deps.asks[h] = Ask(h, shown)
      /\ deps \in [path : Location \cup {None}, asks : [Hook -> Question \cup {None}],
                   viewed : Slug \cup {None}]
  BY <1>2, AskType, ViewedType DEF Deps
<1> HIDE DEF deps
<1>4. /\ goal \in Location
      /\ goal.page = shown.at.page => goal = at
      /\ goal = shown.at => goal = at
  BY <1>2, Goals
<1> HIDE DEF goal
<1>5. /\ \A h \in stale : h \in Hook /\ ran.asks[h] # Ask(h, shown)
      /\ \A h \in Hook : h \notin stale => ran.asks[h] = Ask(h, shown)
      /\ \A h \in fresh : h \in Hook /\ Ask(h, shown) \in Question
      /\ \A h \in Hook : h \in fresh <=> h \in stale /\ Ask(h, shown) # None
  BY <1>2, <1>3, AskType
<1> HIDE DEF stale, fresh
<1>6. \A h \in fresh : /\ asked(h) \in Flight /\ asked(h).hook = h /\ asked(h).first
                       /\ asked(h).ask = Ask(h, shown) /\ asked(h).status = "pending"
  BY <1>3, <1>5 DEF Flight
<1> HIDE DEF asked
<1>7. \A h \in Hook : Restarted(h) \in AsyncState /\ Restarted(h).loading
  BY HooksHaveState DEF IInv, Restarted, Loading, AsyncState
<1>8. /\ hooks' \in [Hook -> AsyncState]
      /\ \A h \in fresh : hooks'[h] = Restarted(h)
      /\ \A h \in Hook : h \notin fresh => hooks'[h] = hooks[h]
  <2>1. \A h \in Hook : hooks[h] \in AsyncState
    BY HooksHaveState DEF IInv
  <2> QED
    BY <1>1, <1>5, <1>7, <2>1
<1>9. /\ t2 \in Tracker /\ tracker' \in Tracker
      /\ tracker'.last = t2.last /\ tracker'.page = t2.page
      /\ goal = at => tracker' = t2
  <2>1. t2 \in Tracker
    BY <1>d, TrackEffects
  <2> HIDE DEF t2
  <2> QED
    BY <1>1, <2>1 DEF Arrived, Tracker
<1>10. TypeOK'
  <2>1. flights' \subseteq Flight
    BY <1>1, <1>6 DEF IInv, TypeOK
  <2> HIDE DEF t2
  <2> QED
    BY <1>1, <1>3, <1>4, <1>8, <1>9, <2>1 DEF IInv, TypeOK, Tracker
<1>11. AskInv'
  BY <1>1, <1>2, <1>3, AskType DEF IInv, AskInv
<1>12. FlightInv'
  <2>1. ASSUME NEW f \in flights, f.hook \notin stale
        PROVE  f.ask = deps.asks[f.hook]
    BY <1>3, <1>5, <2>1 DEF IInv, TypeOK, Flight, FlightInv
  <2>2. \A h \in fresh : /\ asked(h).ask = deps.asks[asked(h).hook]
                         /\ asked(h).status = "pending"
    BY <1>3, <1>5, <1>6
  <2> QED
    BY <1>1, <2>1, <2>2 DEF IInv, FlightInv
<1>13. AnswerInv'
  <2>1. ASSUME NEW h \in Hook, Asked(h)'
        PROVE  Shows(h, ran.asks[h])' \/ Waits(h, ran.asks[h])'
    <3>1. at.page = shown.at.page /\ Ask(h, shown) # None
      BY <1>1, <1>4, <2>1 DEF Asked
    <3>2. CASE h \in fresh
      BY <1>1, <1>6, <1>7, <1>8, <3>2 DEF Waits
    <3>3. CASE h \notin fresh
      <4>1. h \notin stale /\ Asked(h) /\ hooks'[h] = hooks[h] /\ ran'.asks[h] = ran.asks[h]
        BY <1>1, <1>3, <1>5, <1>8, <3>1, <3>3 DEF Asked
      <4>2. CASE Shows(h, ran.asks[h])
        BY <4>1, <4>2 DEF Shows
      <4>3. CASE Waits(h, ran.asks[h])
        BY <1>1, <4>1, <4>3 DEF Waits
      <4> QED
        BY <4>1, <4>2, <4>3 DEF IInv, AnswerInv
    <3> QED
      BY <3>2, <3>3
  <2> QED
    BY <2>1 DEF AnswerInv
<1>14. ProjectInv'
  <2>1. "project" \in Hook
    BY DEF Hook
  <2>2. "project" \in fresh => hooks'["project"].data = None
    <3>1. Restarted("project").data = None
      BY DEF Restarted, Loading
    <3> QED
      BY <1>8, <3>1
  <2> QED
    BY <1>1, <1>5, <1>8, <2>1, <2>2 DEF IInv, ProjectInv
<1>15. PageInv'
  <2>1. /\ t2.last.type = "page_view" => t2.page = t2.last.what
        /\ shown.at.page \in PublicPage => t2.page = shown.at
    BY <1>d, TrackEffects
  <2> HIDE DEF t2
  <2> QED
    BY <1>1, <1>3, <1>9, <2>1 DEF PageInv
<1>16. ViewInv'
  <2> DEFINE t1 == TrackProject(tracker, deps)
  <2>1. Viewed(shown)' = Viewed(shown)
    BY <1>1 DEF Viewed
  <2> SUFFICES ASSUME goal.page = "detail", shown.at = goal
               PROVE  /\ deps.viewed # None /\ deps.viewed = goal.slug => tracker'.views > 0
                      /\ tracker'.last.type = "project_view" /\ tracker'.last.what = goal.slug
                           => tracker'.views > 0
    BY <1>1, <1>3, <2>1 DEF ViewInv
  <2>2. goal = at /\ tracker' = t2 /\ shown.at = at
    BY <1>4, <1>9
  <2>3. shown.at.page \in PublicPage
    BY DEF PublicPage
  <2>4. deps.viewed # None /\ deps.viewed = at.slug => ran.path = at
    BY <1>3, <2>2 DEF IInv, ViewInv
  <2>5. /\ tracker.views > 0 => t1.views > 0
        /\ t1.views > 0 => t2.views > 0
        /\ deps.viewed \in {None, ran.viewed} => t1 = tracker
        /\ deps.viewed \notin {None, ran.viewed} /\ deps.viewed = at.slug
             => t1.views > 0 \/ (tracker.last.type = "project_view"
                                   /\ tracker.last.what = at.slug)
        /\ deps.viewed \notin {None, ran.viewed} => t1.last.what = deps.viewed
        /\ at = ran.path => t2 = t1
        /\ at # ran.path => t2.last.type = "page_view"
    BY <1>d, <2>2, <2>3, TrackEffects
  <2> HIDE DEF t1, t2
  <2>6. deps.viewed # None /\ deps.viewed = at.slug => t2.views > 0
    BY <2>2, <2>4, <2>5 DEF IInv, ViewInv
  <2>7. t2.last.type = "project_view" /\ t2.last.what = at.slug => t2.views > 0
    BY <2>2, <2>5, <2>6 DEF IInv, ViewInv
  <2> QED
    BY <2>2, <2>6, <2>7
<1>17. HealthInv'
  <2>1. "health" \in Hook
    BY DEF Hook
  <2> QED
    BY <1>1, <1>3, <1>5, <1>8, <2>1 DEF IInv, HealthInv
<1> QED
  BY <1>10, <1>11, <1>12, <1>13, <1>14, <1>15, <1>16, <1>17 DEF IInv

\* The steps of the visitor, the admin and the backend that no page sees yet.
LEMMA OtherSteps ==
  ASSUME IInv,
         \/ Lull \/ SwitchLanguage \/ ChooseDays \/ SubmitLogin \/ SubmitLogout \/ Lapse
         \/ \E c \in calls : ServeCall(c) \/ LoseCall(c)
         \/ \E c \in calls : LandCall(c) /\ c.status = "failed"
  PROVE  IInv'
<1> USE DEF bounds
<1>1. /\ shown \in View /\ shown.at.page \in Page /\ tracker \in Tracker
      /\ tracker.last.type = "page_view" => tracker.page = tracker.last.what
  BY LocationFields DEF IInv, TypeOK, View, Tracker, PageInv
<1>2. ASSUME TypeOK', UNCHANGED <<at, hooks, shown, ran, flights, tracker>>,
             calls' = calls \/ AdminPage \subseteq Page
      PROVE  IInv'
  BY <1>2, StillKeeps DEF IInv, AskInv
<1>3. CASE Lull
  <2>1. tracker' = [tracker EXCEPT !.recent = FALSE] /\ tracker' \in Tracker
    BY <1>1, <1>3 DEF Lull, Tracker
  <2>2. TypeOK'
    BY <1>3, <2>1 DEF Lull, IInv, TypeOK, Tracker
  <2> QED
    BY <1>3, <2>1, <2>2, StillKeeps DEF Lull, IInv, AskInv
<1>4. CASE SwitchLanguage
  <2>1. PICK code \in Locale :
          /\ lang' = code
          /\ tracker' = Track(tracker, [type |-> "language_change",
                                        what |-> [from |-> lang, to |-> code]])
    BY <1>4 DEF SwitchLanguage
  <2> DEFINE e == [type |-> "language_change", what |-> [from |-> lang, to |-> code]]
  <2>2. e \in Event /\ e.type = "language_change"
    BY DEF IInv, TypeOK, Event
  <2>3. tracker' = Track(tracker, e)
    BY <2>1
  <2> HIDE DEF e
  <2>4. tracker' \in Tracker
    BY <1>1, <2>2, <2>3, TrackType
  <2>5. TypeOK'
    BY <1>4, <2>1, <2>4 DEF SwitchLanguage, IInv, TypeOK, Tracker
  <2> QED
    BY <1>4, <2>2, <2>3, <2>5, StillKeeps DEF SwitchLanguage, IInv, AskInv
<1>5. CASE ChooseDays
  BY <1>2, <1>5 DEF ChooseDays, IInv, TypeOK
<1>6. CASE SubmitLogin
  <2>1. AdminPage \subseteq Page
    BY <1>1, <1>6, PageKinds DEF SubmitLogin, AdminPage
  <2>2. TypeOK'
    <3>1. [kind |-> "login", form |-> TRUE, status |-> "pending"] \in Call
      BY DEF Call
    <3> QED
      BY <1>6, <3>1 DEF SubmitLogin, IInv, TypeOK
  <2> QED
    BY <1>2, <1>6, <2>1, <2>2 DEF SubmitLogin
<1>7. CASE SubmitLogout
  <2>1. AdminPage \subseteq Page
    BY <1>1, <1>7, PageKinds DEF SubmitLogout, AdminPage
  <2>2. TypeOK'
    <3>1. [kind |-> "logout", form |-> FALSE, status |-> "pending"] \in Call
      BY DEF Call
    <3> QED
      BY <1>7, <3>1 DEF SubmitLogout, IInv, TypeOK
  <2> QED
    BY <1>2, <1>7, <2>1, <2>2 DEF SubmitLogout
<1>8. CASE Lapse
  BY <1>2, <1>8 DEF Lapse, IInv, TypeOK
<1>9. ASSUME NEW c \in calls, ServeCall(c) \/ LoseCall(c) PROVE IInv'
  <2>1. AdminPage \subseteq Page
    BY <1>9 DEF IInv, AskInv
  <2>2. c \in Call
    BY <1>9 DEF IInv, TypeOK
  <2>3. CASE ServeCall(c)
    <3>1. PICK granted \in BOOLEAN :
            calls' = (calls \ {c}) \cup
                       {[c EXCEPT !.status = IF granted THEN "ok" ELSE "failed"]}
      BY <2>3 DEF ServeCall
    <3>2. calls' \subseteq Call
      BY <2>2, <3>1 DEF IInv, TypeOK, Call
    <3>3. session' \in BOOLEAN
      BY <2>3, Zenon DEF ServeCall, IInv, TypeOK
    <3>4. TypeOK'
      BY <2>3, <3>2, <3>3 DEF ServeCall, IInv, TypeOK
    <3> QED
      BY <1>2, <2>1, <2>3, <3>4 DEF ServeCall
  <2>4. CASE LoseCall(c)
    <3>1. TypeOK'
      BY <2>2, <2>4 DEF LoseCall, IInv, TypeOK, Call
    <3> QED
      BY <1>2, <2>1, <2>4, <3>1 DEF LoseCall
  <2> QED
    BY <1>9, <2>3, <2>4
<1>10. ASSUME NEW c \in calls, LandCall(c), c.status = "failed" PROVE IInv'
  <2>1. AdminPage \subseteq Page
    BY <1>10 DEF IInv, AskInv
  <2>2. TypeOK'
    BY <1>10 DEF LandCall, IInv, TypeOK
  <2> QED
    BY <1>2, <1>10, <2>1, <2>2 DEF LandCall
<1> QED
  BY <1>3, <1>4, <1>5, <1>6, <1>7, <1>8, <1>9, <1>10

LEMMA StepIInv == IInv /\ [Next]_vars => IInv'
<1> SUFFICES ASSUME IInv, [Next]_vars PROVE IInv'
  OBVIOUS
<1> USE DEF bounds
<1>1. CASE Commit
  BY <1>1, CommitKeeps
<1>2. CASE Effects
  BY <1>2, EffectsKeep
<1>3. CASE Poll
  BY <1>3, PollKeeps
<1>4. CASE Navigate
  <2>1. PICK l \in Location : GoTo(l)
    BY <1>4 DEF Navigate
  <2> QED
    BY <1>4, <2>1, MoveKeeps DEF Navigate
<1>5. ASSUME NEW f \in flights, Serve(f) PROVE IInv'
  <2>1. f.hook \in Hook /\ f.ask \in Question
    BY <1>5 DEF IInv, TypeOK, Flight
  <2>2. CASE f.hook \in AdminHook /\ ~session
    <3>1. Reply(f, "unauthorized", None)
      BY <1>5, <2>2 DEF Serve
    <3> QED
      BY <1>5, <2>2, <3>1, ReplyKeeps
  <2>3. CASE ~(f.hook \in AdminHook /\ ~session)
    <3>1. Reply(f, "ok", Answer(f.hook, f.ask))
      BY <1>5, <2>3 DEF Serve
    <3>2. Answer(f.hook, f.ask) \in Data \cup {None}
      BY <2>1, AnswerType
    <3> QED
      BY <1>5, <3>1, <3>2, ReplyKeeps
  <2> QED
    BY <2>2, <2>3
<1>6. ASSUME NEW f \in flights, Fail(f) PROVE IInv'
  BY <1>6, ReplyKeeps DEF Fail
<1>7. ASSUME NEW f \in flights, Land(f) PROVE IInv'
  BY <1>7, LandKeeps
<1>8. ASSUME NEW c \in calls, LandCall(c), c.status # "failed" PROVE IInv'
  <2>1. Login \in Location /\ Dashboard \in Location
    BY <1>8, Goals DEF IInv, AskInv
  <2>2. GoTo(IF c.kind = "login" THEN Dashboard ELSE Login)
    BY <1>8 DEF LandCall
  <2> DEFINE l == IF c.kind = "login" THEN Dashboard ELSE Login
  <2>3. l \in Location /\ GoTo(l)
    BY <2>1, <2>2
  <2> HIDE DEF l
  <2> QED
    BY <1>8, <2>3, MoveKeeps DEF LandCall
<1>9. CASE UNCHANGED vars
  BY <1>9 DEF vars, IInv, TypeOK, AskInv, FlightInv, AnswerInv, Asked, Shows, Waits,
              ProjectInv, PageInv, ViewInv, Viewed, HealthInv
<1>10. CASE \/ Lull \/ SwitchLanguage \/ ChooseDays \/ SubmitLogin \/ SubmitLogout \/ Lapse
            \/ \E c \in calls : ServeCall(c) \/ LoseCall(c)
            \/ \E c \in calls : LandCall(c) /\ c.status = "failed"
  BY <1>10, OtherSteps
<1> QED
  BY <1>1, <1>2, <1>3, <1>4, <1>5, <1>6, <1>7, <1>8, <1>9, <1>10 DEF Next, Visit

-----------------------------------------------------------------------------
(* The theorems.                                                              *)

\* The inductive invariant of the pages' effects, requests and records.
THEOREM Invariance == Spec => []IInv
<1>1. Init => IInv
  BY InitIInv
<1>2. IInv /\ [Next]_vars => IInv'
  BY StepIInv
<1> QED
  BY <1>1, <1>2, PTL DEF Spec

\* Every variable of the pages keeps its type.
THEOREM TypeCorrect == Spec => []TypeOK
<1>1. IInv => TypeOK
  BY DEF IInv
<1> QED
  BY <1>1, Invariance, PTL

\* The effects of useProject, useProjects, useCertifications, Skills and the
\* admin pages, whose cleanups ignore late answers: a page at rest shows the
\* answer to its present question, an error, or that it is loading.
THEOREM AnswersArePresent == Spec => []LatestAnswerShown
<1>1. IInv => LatestAnswerShown
  <2> SUFFICES ASSUME IInv, Settled, NEW h \in HooksOf(at.page)
               PROVE  \/ /\ ~hooks[h].loading
                         /\ (hooks[h].error \/ hooks[h].data = Answer(h, Ask(h, shown)))
                      \/ /\ \E f \in flights : f.hook = h /\ f.ask = Ask(h, shown) /\ f.first
                         /\ h # "health" => hooks[h].loading
    BY DEF LatestAnswerShown
  <2>1. h \in Hook /\ shown \in View /\ shown.at = at
    BY DEF HooksOf, Hook, IInv, TypeOK, Settled, Current
  <2>2. ran.asks[h] = Ask(h, shown)
    BY <2>1 DEF Settled, Deps
  <2>3. Asked(h)
    BY <2>1, <2>2, AskType DEF Asked
  <2>4. ASSUME NEW f \in flights, f.hook = h PROVE f.ask = Ask(h, shown)
    <3>1. f.ask = ran.asks[f.hook]
      BY DEF IInv, FlightInv
    <3> QED
      BY <2>2, <2>4, <3>1
  <2>5. CASE Shows(h, Ask(h, shown))
    BY <2>5 DEF Shows
  <2>6. CASE Waits(h, Ask(h, shown))
    BY <2>4, <2>6 DEF Waits
  <2> QED
    BY <2>1, <2>2, <2>3, <2>5, <2>6 DEF IInv, AnswerInv
<1> QED
  BY <1>1, Invariance, PTL

\* useAnalytics behind App's and ProjectDetail's effects: what the throttle
\* drops had been recorded already.
THEOREM VisitsAreRecorded == Spec => []VisitsRecorded
<1>1. IInv => VisitsRecorded
  <2> SUFFICES ASSUME IInv, Settled
               PROVE  /\ at.page \in PublicPage => tracker.page = at
                      /\ Viewed(shown) # None => tracker.views > 0
    BY DEF VisitsRecorded
  <2>1. /\ shown \in View /\ at \in Location /\ shown.at = at /\ shown.hooks = hooks
        /\ ran.path = at /\ ran.viewed = Viewed(shown)
        /\ ran.asks["project"] = Ask("project", shown)
    BY DEF IInv, TypeOK, Settled, Current, Deps, Hook
  <2>2. at.page \in PublicPage => tracker.page = at
    BY <2>1, NoneAssumption DEF IInv, PageInv
  <2>3. ASSUME Viewed(shown) # None PROVE tracker.views > 0
    <3>1. /\ at.page = "detail" /\ hooks["project"].data # None
          /\ Viewed(shown) = hooks["project"].data.slug
      BY <2>1, <2>3, ViewedType
    <3>2. Ask("project", shown) # None
      BY <2>1, <3>1, AskType DEF HooksOf, Hook
    <3>3. Viewed(shown) = at.slug
      BY <2>1, <3>1, <3>2 DEF IInv, ProjectInv
    <3> QED
      BY <2>1, <2>3, <3>1, <3>3 DEF IInv, ViewInv
  <2> QED
    BY <2>2, <2>3
<1> QED
  BY <1>1, Invariance, PTL

\* Only the answer to the first request of the health page raises its error.
LEMMA ErrorOfFirstLoad ==
  ASSUME IInv, Next, shown.at.page = "health", shown'.at.page = "health",
         ~hooks["health"].error, hooks'["health"].error
  PROVE  \E f \in flights \ flights' : f.hook = "health" /\ f.first
<1>1. "health" \in Hook /\ hooks["health"].error \in BOOLEAN /\ hooks \in [Hook -> AsyncState]
  BY HooksHaveState DEF IInv, TypeOK, Hook, AsyncState
<1>2. hooks' # hooks
  OBVIOUS
<1>3. ~Commit
  <2>1. ASSUME Commit PROVE hooks' = hooks
    <3>1. shown' = [at |-> at, lang |-> lang, days |-> days', hooks |-> hooks']
          /\ (at.page = shown.at.page => hooks' = hooks)
      BY <2>1 DEF Commit
    <3> QED
      BY <3>1
  <2> QED
    BY <1>2, <2>1
<1>4. ~Effects
  <2>1. ASSUME Effects
        PROVE  hooks'["health"] = Restarted("health") \/ hooks'["health"] = hooks["health"]
    BY <1>1, <2>1 DEF Effects
  <2>2. ~Restarted("health").error
    BY DEF Restarted, Loading
  <2> QED
    BY <2>1, <2>2
<1>5. PICK f \in flights : Land(f)
  BY <1>2, <1>3, <1>4 DEF Next, Visit, Lull, Poll, Lapse, Navigate, SwitchLanguage, ChooseDays,
              SubmitLogin, SubmitLogout, Serve, Fail, Reply, ServeCall, LoseCall, LandCall
<1>6. /\ flights' = flights \ {f}
      /\ hooks' = hooks \/ hooks' = [hooks EXCEPT ![f.hook] = Outcome(f, @)]
  BY <1>5 DEF Land
<1>7. hooks' = [hooks EXCEPT ![f.hook] = Outcome(f, @)]
  BY <1>2, <1>6
<1>8. f.hook = "health" /\ hooks'["health"] = Outcome(f, hooks["health"])
  BY <1>1, <1>7
<1>9. Outcome(f, hooks["health"]) = HealthOutcome(f, hooks["health"])
  BY <1>8 DEF Outcome
<1>10. f.first
  <2>1. hooks["health"] \in AsyncState
    BY <1>1
  <2>2. HealthOutcome(f, hooks["health"]).error => f.first
    BY <2>1 DEF HealthOutcome, AsyncState
  <2> QED
    BY <1>8, <1>9, <2>2
<1> QED
  BY <1>6, <1>8, <1>10

\* NetworkHealth.load: no poll that fails, however late, takes the figures of
\* an earlier one off the screen or raises the error.
THEOREM FiguresStay == Spec => HealthNotBlanked
<1> DEFINE A == shown.at.page = "health" /\ shown'.at.page = "health" =>
                  /\ shown.hooks["health"].data # None => shown'.hooks["health"].data # None
                  /\ ~hooks["health"].error /\ hooks'["health"].error
                        => \E f \in flights \ flights' : f.hook = "health" /\ f.first
<1>1. IInv /\ [Next]_vars => [A]_vars
  <2> SUFFICES ASSUME IInv, Next, shown.at.page = "health", shown'.at.page = "health"
               PROVE  /\ shown.hooks["health"].data # None
                            => shown'.hooks["health"].data # None
                      /\ ~hooks["health"].error /\ hooks'["health"].error
                            => \E f \in flights \ flights' : f.hook = "health" /\ f.first
    OBVIOUS
  <2>1. CASE Commit
    <3>1. shown' = [at |-> at, lang |-> lang, days |-> days', hooks |-> hooks']
          /\ (at.page = shown.at.page => hooks' = hooks)
      BY <2>1 DEF Commit
    <3> QED
      BY <3>1 DEF IInv, HealthInv
  <2>2. ASSUME ~Commit PROVE shown' = shown
    BY <2>2 DEF Next, Visit, Lull, Effects, Poll, Lapse, Navigate, SwitchLanguage, ChooseDays,
                SubmitLogin, SubmitLogout, Serve, Fail, Land, Reply, ServeCall, LoseCall,
                LandCall
  <2> QED
    BY <2>1, <2>2, ErrorOfFirstLoad
<1>2. Spec => [][A]_vars
  BY <1>1, Invariance, PTL DEF Spec
<1>3. [][A]_vars => HealthNotBlanked
  BY PTL DEF HealthNotBlanked
<1> QED
  BY <1>2, <1>3

=============================================================================
