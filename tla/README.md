# A verification of the portfolio site

The repository is a personal site: a React front end, a FastAPI backend over
PostgreSQL, a small monitoring process (the *NOC* poller), Caddy in front, and
scripts for the operator. This directory holds TLA+ modules of the parts that
keep state and run concurrently, TLC configurations that check them on small
instances, and TLAPS proofs of the properties that matter most.

## 1. Inventory

| Component | State | Operations | Interacts with |
| --- | --- | --- | --- |
| Admin sessions (`auth_service.py`, `middleware/security.py`) | rows of `admin_sessions`, their row locks, the cookie | login inserts, every admin request looks up and renews, logout deletes, an expired lookup deletes | retention sweep, login limiter |
| Login rate limit (`auth_service.check_rate_limit`) | rows of `login_attempts` | count failures, compute the backoff, test the password, record | retention sweep |
| In-process rate limiter (`rate_limit_service.py`) | a table of deques of time stamps in memory | `check`, `record`, eviction | contact and analytics routes |
| Contact relay (`routes/contact.py`, `contact_service.py`) | nothing but the limiter; a worker thread per message | check, honeypot, await SMTP, record | limiter, SMTP server |
| Analytics ingestion (`useAnalytics.ts`, `analytics_service.record_event`) | last event of each tab; rows of `analytics_events` | throttle, send, count, look for a duplicate, insert | limiter, retention sweep |
| Request metrics and NOC poller (`middleware/metrics.py`, `noc/monitor.py`) | two counters in the backend's memory, two bases in the poller's, rows of `network_health_samples` | count, poll, take deltas, insert, purge | backend, database |
| Retention (`retention_service.py`, `main._retention_loop`) | a timer | three deletes, each in a transaction of its own; retry at the next tick, sweep at startup | every table above |
| Admin report (`get_admin_analytics`) | none | nineteen aggregate statements, a snapshot each | `analytics_events`, retention sweep |
| Exposure guard, proxy headers, Caddy (`middleware/exposure.py`, `Caddyfile`) | the configuration each side has read | a decision per request; the operator edits, stops, starts, repoints | every route, the tunnel |
| Front-end pages (`App.tsx`, `hooks/`, `pages/`) | location, language, the data, loading and error flags of each hook, the throttle | navigate, fetch, poll, supersede, redirect on 401, log in and out, track views | API, admin sessions, analytics |
| Seed and migrations (`scripts/seed.py`, `backend/alembic`) | tables, enum types and rows of the database | seven revisions up and down, the seed's transaction | every table |
| Content API | none | reads the content tables, which only the seed writes | front-end pages |
| Backup, restore, host scripts | restic snapshots | dump, prune, verify, restore | database |

What is hard here:

* **Interleaving at awaits.** One event loop serves all requests, each with its
  own READ COMMITTED transaction. Between two awaits the world may change: a
  logout commits between a lookup's SELECT and its renewal, a second login is
  checked before the first has recorded its failure, a second mail is accepted
  while the first is with the SMTP server.
* **Background tasks** delete rows that requests are about to use, and their
  failures must neither stop the loop nor leave locks behind.
* **Answers and renders**: the browser's answers arrive in any order, between a
  render and the effects that belong to it.
* **Two processes** compare counters that a restart resets.
* **Many snapshots**: the report's figures are read one statement at a time,
  each from a newer state of the table than the one before.
* **Partial failure**: a message that was delivered although its connection
  then failed, a sample that was computed but not inserted, a sweep that did one
  table of three, a proxy that lost its rules or is not there.
* **Paths nobody walks twice**: revisions downgraded and upgraded again with
  rows in the tables.
* **Boundaries**: windows closed at one end and open at the other, a table at
  its limit, a backoff cut off to whole seconds.

What makes each component correct is stated with its module below; the
hazards, each at its line, are in `PROJECT.json`.

## 2. Plan

In order of importance:

1. `Sessions`, with the abstract `SessionLedger` it implements; proved.
2. `LoginLimiter`; proved.
3. `RateLimiter` (the table as pure functions) and `ContactRelay` (the route,
   composed with it); proved.
4. `NocMetrics`; proved.
5. `AnalyticsIngest`; proved.
6. `Pages`: requests superseded by a change of address, locale or range, polls
   that overlap, views recorded; proved.
7. `Retention`: `purge_all`'s three transactions, the timer, the script, restarts.
8. `AnalyticsReport`, which extends `Retention`, with the figures of
   `ReportFigures`; proved.
9. `Schema`: the migrations and the seed; proved.
10. `Exposure`: the guard and the site blocks of the Caddyfile; proved.

All ten are done. Two parts that were considered are left out: backup and restore
are two shell pipelines whose steps are pg_dump's, restic's and psql's own, so that
a model would be of those programs; and the contact form handles one submission
at a time in one tab, with a status that nothing else reads.

The runs are few, so that all of them can be repeated after every change. Modules
therefore share runs: `MCReport` instantiates the sweeps for both the report and
the liveness of retention, `MCDeployment` composes `Schema` and `Exposure`, and one
instance of `ContactRelay` is small enough for limits and eviction together.

No module uses RECURSIVE operators; constants carry named assumptions; every
invariant is a conjunction of named parts; the steps of a component are
one action for each operation, so that its proofs have one lemma for each.

## 3. The modules

### Sessions

One backend process, several requests. A request is split where the code
awaits: `SelectSession` (the SELECT of `get_session_user`), `JudgeSession` (the
comparison in Python on what the SELECT returned), `FlushRenewal` or
`FlushExpiry` (the UPDATE or DELETE, which takes the row's lock and then acts on
the latest committed row), `CommitRenewal` or `CommitExpiry`; the renewal is
flushed by the SELECT of the user that follows it, and an UPDATE that matches no
row is a `StaleDataError`. Logins (`CreateSession`, `CommitSession`) and logouts
(`FindSession`, `FlushLogout`, `CommitLogout`) are split alike. The sweep is one
DELETE: `SweepBegin` takes the statement's snapshot, `SweepRow` waits for each
row's lock and tests the row again as PostgreSQL does, `SweepCommit` or
`SweepFail` ends it. `Restart` loses every transaction.

`removedBy` and `lastUse` are history variables: nothing reads them but the
properties. `MaxLatency` bounds a request's life; the assumption `MaxLatency <=
EXPIRED_SESSION_GRACE` is what the comment at `retention_service.py:43-45` relies
on, and the proof of `GraceProtectsLookups` shows that it is enough.

* `RemovedForGood`, `ServedOnlyIfLive`: a renewal in flight neither brings a
  removed session back nor is answered with success.
* `GraceProtectsLookups`: the sweep never takes a row from under a lookup.
* `IdleSessionsLapse`, `SlidingWindow`: idle sessions lapse, and the expiry that
  remains after concurrent renewals is that of the latest use, short of it by
  at most a request's latency.
* `ImplementsLedger`: with all its transactions the store behaves like
  `SessionLedger`, in which a session is opened once, closed once, and served
  only while open.
* `RequestsAnswered`, `LapsedCollected`: nobody waits for a lock for ever, and a
  lapsed session is collected although sweeps fail.

### LoginLimiter

One address (the queries are restricted to one `ip_hash`, so addresses do not
interact). `CountFailures` and `CheckBackoff` are the two queries of
`check_rate_limit`, `TestPassword` the bcrypt test, `RecordAttempt` the commit of
the attempt, whose `created_at` is the start of its transaction. `Abort` is a
failure anywhere; `PurgeLoginAttempts` the sweep. Rows are kept in `log` for the
properties; `kept` is the table.

* `CapWithConcurrency`: no window holds more failures than the cap and the
  other logins in flight. The bound is attained: with two logins in flight the
  window holds six of the real five.
* `BackoffSpacing`: an admitted attempt began a full backoff after the failures
  that were recorded before it.
* `RefusedOnlyAfterWrong`: refusals do not prolong themselves.
* `PurgeInvisible`: the sweep changes no decision.

### RateLimiter and ContactRelay

`RateLimiter` maps tables of deques to tables (`check` prunes and inserts the
key, `record` appends and evicts); `ContactRelay` says when. `Submit` is the
route up to its first await, `Deliver`, `DeliveryFails` and `CloseFails` are the
worker thread before and after the server has taken the message, `RecordSent`
is what follows the await. `AnalyticsEvent` is the other user of the table.
`accepted` keeps the stamps recorded since the process started. The clock is
`time.monotonic()`, a float: `now` counts ticks, `TicksPerSecond` of them to the whole
seconds in which limits are stated and waits are told, and `RetryAfter` cuts the
rest of a division off as `int()` does.

* `LimitsWithConcurrency`: both windows, beyond the limit only by what was in
  flight together.
* `SentIsDelivered`: no message is lost while its sender is told "sent".
* `RefusedOnlyAfterAccepted`: refusals do not prolong themselves.
* `WaitClearsLimit`: the wait that is told is right to within the second that the cut
  costs. The limit that refused clears less than a second after it, and not before
  it.
* `ForgetsOnlyIdle`, `TrackedBounded`: eviction forgets the keys that were idle
  longest, and bounds the keys that have stamps.

### NocMetrics

`Serve` and `ServeRaises` are requests through the metrics middleware; `Poll`,
`Receive`, `Insert`, `Purge` the poller's cycle with the failure of each;
`RestartBackend` and `RestartPoller` the two crashes. `answerAt` and `prevAt`
record the backend's process and its true count at each reading.

* `NeverOvercounts`: the samples never report more than was served.
* `ExactBetweenResets`: the delta is exact as soon as two polls in a row reach
  one process.
* `ExpiredPurged`: every expired sample goes, although restarts set the cycle
  count of the purge back.

### AnalyticsIngest

One session with its tabs. `Track` is `track()` with its throttle, `CountEvents`,
`CheckDuplicate`, `RecordEvent` are `record_event` at its awaits, `Lose` is a
beacon that never arrives.

* `LimitWithConcurrency`: the session's limit, beyond it by what is in service.
* `RepeatsOverlapped`: a page view is recorded twice within the deduplication
  window only if the two were in service together.

### Pages

One browser tab. A change of location (`Navigate`, a redirect, `GoTo`), language
(`SwitchLanguage`) or range (`ChooseDays`) is rendered by `Commit`, which mounts
the hooks of another page afresh; `Effects` runs the effects whose dependencies
changed since `ran`: it cancels the requests of stale effects, sends those of
the new ones and records the project view (`TrackProject`) and the page view
(`TrackPage`), in that order. `Serve` and `Fail`
are the two ends of a request, `Land` its callback, `Poll` the interval of the
network health page; `SubmitLogin`, `SubmitLogout`, `ServeCall`, `LoseCall` and
`LandCall` the admin's two calls; `Lapse` the end of the session behind the
cookie. `Lull` is the second after which the throttle of `track()` forgets.

React is external. Its commit and its passive effects are separate steps, with
answers possible between them, which is at least what React may do. A cancelled
request's answer changes nothing, so `Effects` drops the request; polls of the
same question that are still pending are one element of `flights`; a location
is rendered before it changes again; and a login or logout that returns
navigates even if the visitor has left the page, as nothing in the handlers
looks.

* `LatestAnswerShown`: at rest, the screen shows the answer to the present
  question, or an error, or that it is loading, in whatever order answers came.
* `VisitsRecorded`: the throttle never swallows the view of the page or the
  project that the visitor ends up on.
* `HealthNotBlanked`: a refresh that fails leaves the figures on the screen, and only
  the request of the first load raises the error.
* `PagesLoad`, `SignedOutLeavesHealth`: a page ends its loading, and the network
  health page does not stay when the session is gone.

### Retention

The three tables with the column that governs each row, and the sweepers: the
loop of `main.py` and runs of `scripts/purge_retention.py`. `SweepTable` is one of
`purge_all`'s deletes and its commit, with a cutoff computed up to a
transaction's latency earlier; a sweeper does the tables in the order of the code.
`SweepFails` ends a sweep with what was committed; `Wake` is the end of the
interval (or the operator's command), `Stop` the end of the container in the
middle of whatever it does, `Start` the sweep at startup. `Insert` and `Renew` are
the writers; a row is stamped when its transaction begins, and so arrives late.

* `GovernedRowsGo`: every row goes some time after its window.

### AnalyticsReport and ReportFigures

`AnalyticsReport` extends `Retention` by a report: `BeginReport` computes `since`,
`ExecuteStatement` is the next of the nineteen statements, with the rows it
matches in the snapshot of that moment, `EndReport` sends the answer or fails,
`Crash` is a stop of the backend. `seen` keeps what each statement matched,
`known` the events recorded before the report began. `ReportFigures` computes
the figures from `seen` the way the statements and the Python between them do.

* `NothingMissing`: no statement misses an event that was there when the report
  began and is not due to be swept within the report's life.
* `FiguresOrdered`: the figures bound each other in the order of their
  statements (a type's count by the breakdown, the types together by the total, the
  total by the hours, sessions by the engagement, devices by referrers, pages and
  projects by the breakdown), although no two of them need be of one state of the
  table.

### Schema

The seven revisions as lists of DDL operations that fail where PostgreSQL refuses
them: a table or type that exists already or is missing, a type in use, a label
that rows still carry, a foreign key that still refers. `Migrate` runs a command,
from any revision to any other, in the one transaction of `env.py`; it waits for
the tables that a seed's transaction has read, where it needs an ACCESS EXCLUSIVE
lock, and for those that it has written, where a new table's foreign key refers to
them (SHARE ROW EXCLUSIVE). `SeedStart`, `SeedSelect`,
`SeedInsert`, `SeedCommit`, `SeedFails` are a run of the seed, of which there may
be two; `RecordVisit` is an event, `PlantDemo` one of the made-up events that
revision `d7a5e91c2f48` deletes.

* `SchemaIsItsRevision`: a revision's schema is the same on every path to it, and
  every other one can be reached from it, whatever the tables hold.
* `LatestMatchesModels`: it is what the models of the application expect.
* `EventsAreReal`: the clean-up takes the made-up events and no visit.
* `StatusAsSeeded`: a project has the status the seed gives it, also when its row
  is older than the column.
* `SeedIsComplete`: a run that commits leaves nothing missing, one that fails
  leaves nothing behind.

### Exposure

A request as each hop sees it, and two layers that decide on it. A request comes
with any entry marker that its sender can know (`OpenMarker`: none, that of the
public block, the default of the admin block), as the tunnels leave the header
alone. `PublicBlock` and `AdminBlock` are the site blocks of the Caddyfile, with the
marker and the forwarding headers they set; `Refused` is the backend's guard,
`ClientOf` the address that `ProxyHeadersMiddleware` resolves. The actions are the
operator's: `EditCaddyfile` drops any of the rules, `PointTunnel` leads the tunnel
past Caddy, `ChangeToken` edits `.env`, `StopCaddy`, `StartCaddy` and
`RestartBackend` make each side read it at its own time. `TrustedProxies` is Caddy's
address, the value of the production compose file.

* `PublicStaysOut`: whatever has become of Caddy, its rules and the tunnel, the
  backend serves no internal surface to the internet, and an admin surface only
  where cloudflared's tunnel ends at the backend, the backend expects the default
  marker and the request carries it: the exception that `exposure.py:53-55`
  documents and `test_exposure_guard.py:154-159` has.
* `NobodyIsLockedOut`: the guard refuses nobody that it should serve, and the owner
  is refused by the admin API just while Caddy and the backend have read different
  tokens.
* `CallersAreThemselves`: the address resolved is the caller's own, which is what
  the login limiter and the visitor counts rest on.

`MCDeployment` composes `Schema` and `Exposure`. They share no variable, so each
moves while the other rests in an initial state.

## 4. The runs

| Run | Instance | Shows |
| --- | --- | --- |
| `sessions` | 2 requests, 2 sessions, duration 2, grace 1, clock to 4, 1 failure | safety of the store and the refinement of the ledger |
| `sessions_live` | 2 requests, 1 session, fair | every request is answered, every lapsed session collected |
| `login_limiter` | 2 logins, cap 3, window 5, clock to 7, 5 rows | the cap, the backoff, the purge |
| `contact` | 2 submissions of one address beside the analytics events of another, room for 1 key, half-second ticks, clock to 9, 4 events; to 6 and 3 events with the other key or a restart | windows fill, slide and are overrun; eviction; the wait that is told |
| `noc_metrics` | 3 requests, 2 failures or restarts, fair | counting and retention of samples |
| `analytics_ingest` | 2 tabs, 2 requests in flight, limit 2 in 4, deduplication 3, clock to 5 | limit and deduplication |
| `report` | 1 sweeper, 2 events, ranges 1 and 2, retention 2, clock to 3 | what a report of nineteen snapshots may be relied on for |
| `retention` | the loop and the script, 1 row per table, clock to 4, fair | every row goes |
| `pages_public` | the public pages, 2 languages, 2 projects, 3 visits, 1 failure | the latest answer is shown, views are recorded |
| `pages_admin` | the admin pages, 2 ranges, 2 visits, 1 failure or lapse, fair | a refresh neither blanks the page nor raises the error, pages load, the signed out leave |
| `deployment` | 2 runs of the seed, every path through 7 revisions; 2 visitors, 1 owner, 2 tokens, 3 entry markers | migrations and seed; the boundary of exposure |
| `sessions_hard_expiry` | violation | a lookup deletes a session that another request has just renewed |

**Bounds.** Times are ticks that keep the order of the real durations: the
clock runs past the end of at least one window, and past the end of the grace
period, so that rows expire, slide out and are purged within a behaviour. Two
actors show every race of a check and a record; each property is about a pair
of requests, or one request and a background task. `MaxRows`, `MaxEvents`,
`MaxServed`, `MaxFailures`, `MaxRestarts` bound what would grow without end; they
leave room for every limit to be reached and overrun. `MaxVisits` and `MaxFaults`
bound what the visitor does and what goes wrong in a tab: two changes supersede
a request and its successor, a third comes back to the first question while the
answers to both are under way. In `report` two events are enough, as each figure
compares what two statements saw of one row or of two. Two ticks to the second
are enough for `contact`: what the cut takes off is nothing or half a second.
Its constraint `Bounded` follows submissions alone for longer than those beside
another key or a restart: alone, both windows slide past their first events; with
others the shorter one does.
In `retention` stops are not bounded: the backend may go down more often
than the loop's interval ends. `deployment` has no bound at all: its state is
finite. The runs `login_limiter`, `analytics_ingest`, `report` and `retention` end
when clock and rows run out, and the pages runs when the visitor rests
(`CHECK_DEADLOCK FALSE`); all others check that some step is always possible.

**Symmetry** is over requests, tabs and session tokens, which are compared only
for equality, and is not used in the runs with liveness properties.

**Fairness.** `sessions_live`: the event loop keeps each request going, the
retention loop comes round whatever a sweep raises (`main.py:46-54`), and a
waiter for a row lock gets it in the end, because PostgreSQL queues the waiters:
strong fairness for the steps that wait, weak for the sweep's start and end.
`noc_metrics`: weak fairness of the poller, whose every step is inside a handler
(`monitor.py:204-218`). Its probes and its reading of the backend have timeouts; the
acquisition of a connection and the statements on it (`monitor.py:163-164,190-191`)
have none, so that it is an assumption there that the database answers or fails
and does not leave the poller hanging. In both runs failures, and the poller's
restarts with them, are bounded by `MaxFailures`; without that bound a sweep that
always fails collects nothing, and a poller that is restarted more often than every 120 cycles never
purges. `pages_admin`: React renders and runs effects, the interval fires,
requests end and due callbacks are called (weak fairness), and the backend
answers some of the polls of the network health page rather than failing all
of them (strong fairness). Nothing is assumed about visitors. `retention`: the
database does not refuse the loop's sweep of a table for ever (strong fairness of
each of the three), the interval ends unless the backend stops first (weak), and a
stopped container is started again, as the compose file's restart policy has it
(weak). Nothing is assumed about the script.

## 5. The proofs

`SessionsProofs` proves, for any sets of requests and sessions and any times that
satisfy `TimingAssumption` and `ActorAssumption`: `TypeCorrect`, `Invariance`,
`RowsRemovedForGood`, `GraceSuffices`, `IdleLapse`, `ExpirySlides`,
`ServedWhileLive` and `Refinement` (the store implements the ledger). The properties
are not inductive. `IInv` adds who holds each lock and that a locked row exists
(`LockInv`: a commit finds the row it has flushed), that what the sweep has locked
lapsed a grace period ago (`SweepInv`), that tokens are inserted once (`TokenInv`),
that a request is no older than its latency and wrote its expiry in its lifetime
(`TimeInv`), that a request's stale copy of `expires_at` can have been overtaken
only by a renewal, never by the sweep (`GraceInv`), and that the expiry follows the
latest use (`WindowInv`). The argument for the grace period: a row that a request
found unexpired when it arrived expires after the arrival, hence at most
`MaxLatency` before now; the sweep takes only what expired `EXPIRED_SESSION_GRACE`
ago. Each action has a lemma; each part of `IInv` rests on the parts before it.

`NocMetricsProofs` proves `TypeCorrect`, `Invariance`, `NothingOvercounted` and
`DeltasExact`, for any number of requests, restarts and failures. Its `IInv` ties
each reading (the reply in flight, the base of the next delta) to the process it
came from and to what had been served by then; the counter of a later process
never exceeds what was served since the reading.

`ContactRelayProofs` proves all that the run `contact` checks, for
any submissions, any finite sets of addresses, any windows, any limits of at least
one event, any capacity and any number of ticks to the second: `TypeCorrect`,
`Invariance`, `NothingLostSilently`, `MemoryBounded`, `LimitsHold`, `IdleForgotten`,
`NoSelfPenalty` and `WaitWithinSecond`.
`NothingLostSilently` rests on `DeliveryInv`: a request gets to `"sent"` only from
`"closing"`, where its message was taken, and starts over with both when its
slot is used again. `MemoryBounded` rests on two lemmas: a check inserts a key
without giving stamps to one that had none (`CheckAddsNoStamps`), and a record
leaves no more keys than there is room for, whatever was in the table before
(`RecordMakesRoom`); the table itself may be larger, by the keys that were only
ever checked.

The limits need to know what a deque still says of the past. `accepted` holds all
that was ever recorded, in order (`OrderInv`); `KeptIn` says that a key's deque is an
end of it (`Ends`), and that what was dropped in front is past every window of the
key, or the key was crowded out of the table since. Pruning preserves it
(`CheckKeeps`) because it drops only what is past the longest window, appending and
evicting (`RecordKeeps`) because the evicted key is the one whose last stamp is
oldest, so that every key that stays is one of those that crowded it out.
`LimitInv` then counts, for each window, what was recorded in it and the
submissions of the address that are in flight: together at most the limit and
the other requests. A check that admits finds room in each window that reaches
the present (`AdmittedFindsRoom`), and a record turns a pending submission into a
recorded one. `WaitWithinSecond` looks at the oldest stamp that still counts, which
`RetryAfter` is computed from: there is one by the least number principle
(`LeastNumber`). The told seconds are at most those until it leaves and short of
them by less than one (`WaitIsCut`); once it has left the window is one short of
full (`WaitFreesRoom`), and until then nothing leaves (`FullUntilFirstLeaves`).

`LoginLimiterProofs` proves `TypeCorrect`, `CapHolds`, `BackoffHolds`,
`PurgeDecidesNothing` and `RefusalsEnd`, for any number of logins and any times
that satisfy `LimiterAssumption`, whose only demand beyond types is that attempts
are kept for longer than the window and a login's life. In its `IInv`, `CapInv`
counts, for every window, the failures in it and the logins that may still become
one: together at most the cap and the other logins. A login is admitted only while
its window is short of the cap, and at most all others are pending then; a record
turns one that is pending into a failure. `KeptInv` says that the purge took only
what is past its retention, so that every query counts what it would have counted
without a purge; `CountInv` ties what a login counted to the rows that were there,
`WrongInv` each failure to a wrong password that was tested.

`AnalyticsIngestProofs` proves `TypeCorrect`, `LimitHolds` (by `LimitInv`, of the same
shape as `CapInv`) and `DeduplicationHolds`. The latter rests on `FreshInv`: a page
view that passed the second query repeats no row of its window but those that
committed while it was in service.

`PagesProofs` proves `TypeCorrect`, `AnswersArePresent`, `VisitsAreRecorded` and
`FiguresStay`, for any pages, locales, projects, ranges and bounds. `FlightInv`
says that the requests in flight are those of the effects that ran last and that
an answer is to its question, `AnswerInv` that a hook whose effect has run for the
present question either shows its answer, or an error, or still waits for it.
Without "whose effect has run" it fails between a render and its effects, and
without `FlightInv` it fails when an answer lands. `ProjectInv`, `PageInv` and
`ViewInv` do the same for the views: what the throttle drops has been recorded
already. `HealthInv` says that the figures outlive the renders that show them; that
the error comes from the request of the first load is a fact of the answer's step
alone (`ErrorOfFirstLoad`).

`AnalyticsReportProofs` proves `ReportsMissNothing`, `ReportsGrow` (what one
statement saw, a later one sees again, while nothing in the range is due to be
swept) and `FiguresBounded`. `KeptInv` says that the table lacks nothing younger
than its window, `TimeInv` that a report is no older than its latency: what may be
swept before it ends was due at `SafeSince`. `FiguresBounded` compares sums over
different snapshots. `SeenInv` says that the log is finite and that a statement's
rows are those it asks for; `WholeReport` gathers which statement's rows are among
which other's. The rest is arithmetic on folds: `GroupSum`, that the counts of the
groups of a finite set add up to its size, is proved by a smallest set for which
they would not; from it follow what the days, the hours, the types and the
dimensions add up to (`DaysTogether`, `HoursTogether`, `TypesTogether`,
`DimensionsTogether`). `GreatestExist` says that a list of the top few exists, and
`TopSum` that it adds up to no more than the whole.

`DeploymentProofs` first proves `ConfigurationTyped`, `PublicNeverEnters`,
`CallersKeepTheirAddress` and `NobodyLockedOut`, for any addresses and tokens, as
long as those of visitors and owners are not those inside (`AddressesApart`) and
no token is a marker that anyone can send (`TokensAreSecret`): a visitor sends what it
likes, except a secret that it does not know.
The properties are said of each configuration the types allow, so the types are
the whole of the invariant; what the proofs add is that every chain of headers,
peers and markers is gone through.

It then proves all that the run `deployment` checks of `Schema`, for any number of
runs of the seed: `SchemaInvariance`, `SchemaOfItsRevision`, `LatestIsTheModels`,
`VisitsAreKept`, `StatusesAreSeeded` and `SeedLeavesNothingOut`. The scripts are
finite data, but what they are applied to is not: the rows are whatever visitors
and runs of the seed left, and a command may take any part of the path. `TableAt`
and `TypeAt` say what each revision's schema is, derived from the models by what
later revisions add, and `RowsAt` what its rows satisfy. `Leads(n, ops, m)` says
that a list of operations takes every database at revision `n` to revision `m`,
refusing nothing, keeping the rows of the tables that it does not name and every
visit. It is proved of each of the fourteen scripts (`Up1` to `Up7`, `Down1` to
`Down7`), one operation after the other with a lemma for each kind of operation
(`StepCreate` to `StepMark`). `Executed` puts them together: every command, from
any revision to any other, is carried out and leads to the schema of its revision.
Its induction, as the one over a list of operations (`Performed`), is over a
bounded interval, by a smallest number for which the fact would not hold (`UpTo`).

The properties are not inductive. `SchemaInv` says that the whole database is that
of its revision, with nothing left of what an earlier command created: an upgrade is
refused when the schema differs anywhere, so no part of it can be left out.
`SeedInv` says that a run of the seed has planted all that comes before the entry it
is at, in the table or among its own rows. It survives a migration only because a
command waits for the tables that a run has touched, and so names none of them
(`MigrateKeeps`), and another run's commit because rows only grow (`PlantedStays`).

All assumptions are evaluated by the runs. `TypeOK` of each module and
`ServedOnlyIfLive` are proved and not in the runs; the strengthenings were checked
with TLC on these instances before they were proved.

Only model-checked: liveness (`RequestsAnswered`, `LapsedCollected`,
`ExpiredPurged`, `GovernedRowsGo`, `PagesLoad`, `SignedOutLeavesHealth`), which is out
of the prover's reach with the fairness it rests on. Every invariant and every
action property of a passing run, and the refinement, is proved.

## 6. Disagreements between code and documentation

With a run, listed as a finding in `PROJECT.json`: `sessions_hard_expiry`. A
lookup judges the `expires_at` that its SELECT returned and deletes the row by its
key, so that a renewal committed in between is lost.

Seen while modelling, without a run:

* `auth_service.py:113`: a lookup whose row a logout has just deleted ends in a
  `StaleDataError`, a 500 and not the 401 of `security.py:12-14` (the phase
  `"failed"` of `Sessions`).
* `auth_service.py:37-38`, `architecture.md:757,793,1038` state hard limits for
  logins, events per session and repeated page views; concurrent requests overrun
  each by their number less one (the bounds of `CapWithConcurrency`,
  `LimitWithConcurrency`, `RepeatsOverlapped` are attained).
* `auth_service.py:74` rounds the remaining backoff down, to 0 at the end.
* `rate_limit_service.py:78` promises the seconds that the caller must wait. Line 95
  cuts them to whole seconds, so that a caller that waits just so long is in general
  refused again by the same limit (the second half of `WaitClearsLimit`: the limit
  is still reached up to the end of the wait, and may be for less than a second
  more), and tells them of the burst limit when both are reached.
* `rate_limit_service.py:84` inserts keys that only `record` evicts.
* `useAnalytics.ts:59` compares with the last event only, so alternating events
  are not kept a second apart.
* `rate_limit_service.py:45-47` says one email per five minutes; the limit is
  checked before the await and recorded after it (`contact.py:66`), so that
  submissions in flight together are all mailed (`LimitsWithConcurrency`).
* `network_health.py:35` gives the counts of a sample as those since the previous
  one; the base moves before the INSERT (`monitor.py:109`), so that the counts of
  a sample that was not inserted are in none.
* `metrics.py:17-18` counts all requests and all 5xx responses; after an unhandled
  exception the lines that count (`metrics.py:40`) are not reached.
* `Header.tsx:33-34`: the menu is said to close on a tap of the present page too;
  the effect depends on the path alone.
* `NetworkHealth.tsx:90-91`: the error of a failed first load stays beside the
  figures of later polls, and a refresh that fails before the first answer takes
  the loading message away and leaves the page empty.
* `AdminDashboard.tsx:108`: when the call of a logout is lost, the figures stay on
  the screen.
* `contact.py:58-59` takes a failure to mean that no mail was sent; the context
  manager of `contact_service.py:80` sends QUIT after `send_message` returned, and
  an exception there reports a delivered message as undelivered (`CloseFails`).
* `ProjectDetail.tsx:57-59`: a change of language fetches the open project again
  (`useProjects.ts:47,61`), and a second view of it is recorded.
* `auth.py:36`: a correct login commits its attempt before it creates its session;
  a failure between the two leaves a success that has no session.
* `retention_service.py:104-122`: `oldest_row_ages` gives sessions by `created_at`,
  the sweep goes by `expires_at`; a session in daily use looks overdue.
* `analytics_service.py:336-337`: the referrer is said to come with the first page
  view only; `useAnalytics.ts` sends it with each.
* `AdminDashboard.tsx:26`: the range of 90 days equals the retention window, so that
  the first day of that report is being swept while it is read; `days` may be up
  to 365.
* `models/analytics.py` lacks the indexes on `device_class` and `referrer_host` that
  revision `d7a5e91c2f48` creates.
* `d7a5e91c2f48`: `device_class IS NULL` is said to identify exactly the rows
  written before the column; after a downgrade and an upgrade it holds of all.
* A downgrade past `bf0d8d836407` loses the grants of `noc_writer` with the table,
  and no upgrade gives them back.
* `get_project` falls back to English; `list_projects` does not.
* `Caddyfile:249-250`: the marker and what the backend expects are said not to drift
  apart; they do from a change of `.env` until both containers are created again.
* The pages of `/admin` are the frontend's, which has no second lock: without
  Caddy's rule they are shown to visitors (their calls are refused).
* `backup.sh:55-58`: a failed `pg_dump` fails the script, but restic has then stored
  what it was given. That snapshot is the `latest` of `restore.sh`, and may be the
  one of its day that `forget --keep-daily` keeps.

## 7. Not modelled

* The data in pages, mails and events; hashing and password storage; indexes,
  nullability, defaults and column types other than enums.
* Validation of a single request: schemas, the metadata allowlist, the
  normalisation of paths, the classes of devices and bots. These are pure functions
  of one request.
* The status of the services that the NOC checks and the resources of the host,
  which no cycle hands to the next; the health endpoint, which is one SELECT.
* The backend with retention disabled (`main.py:60-66`), which sweeps nothing, and the
  count of active visitors, one SELECT over minutes that no sweep reaches.
* Filters, ordering and grouping of the content API, whose tables nothing writes
  while it serves.
* Titles of projects, granularities of the report other than the day, rounding.
* Backup and restore, and the contact form, for the reasons of section 2.
* Markup, styles, the menu, the charts and the tables of the admin pages.
* The operator's scripts, which are run once against the host, the certificate
  authority or the mail server, and for which nothing waits.
