# PulseKeeper in TLA+

PulseKeeper probes web sites on a schedule, opens an incident after a number of
consecutive failures, resolves it on recovery, warns of certificates that
expire, and tells the site's owner in the application and through channels
(Discord, Slack, webhook, e-mail). The server is one Node process over MongoDB,
the client a React application that polls it.

This directory holds the models of that program, the TLC configurations that
check them and the TLAPS proofs about them. References such as
`monitoring.service.ts:106` are to `src/server/src/**`, unless they start with
`client/`.

## 1. The system

Two facts shape every module. JavaScript runs to the next `await` without
interruption, so **a step of a model is the code between two awaits**. MongoDB
makes single-document operations atomic and gives no more: the code has no
transactions, so whatever a function read before an await may be stale after it.

| Part | State it keeps | Operations | What is hard |
|---|---|---|---|
| Monitoring engine (`monitoring.service.ts`) | the cached fields of a site: `consecutiveFailures`, `activeIncidentId`, `currentStatus`, `lastCheckedAt`; the health checks | `checkSite`, by a sweep or by "Check Now" | overlapping checks of one site with a snapshot each; edits and deletion meanwhile; calls that fail half-way |
| Incident state machine (`incident.service.ts`, `Incident.ts`) | incidents, one open per site by a partial unique index | `handleFailedCheck`, `openIncident`, `handleSuccessfulCheck` | losers of the index, counts saved on stale documents, notifications after the write |
| Sweep scheduling (`monitoringJob.ts`, `monitor.controller.ts`, `runMonitoringSweep`) | `sweepInProgress`, run records | cron tick, external trigger, `findDueSites` | sweeps longer than a tick, two triggers over one flag, restarts |
| Worker pool (`utils/concurrency.ts`) | the shared cursor, the results | `runWithConcurrency` | a rejection while other workers run on |
| Notification delivery (`notification.service.ts`, `channels/http.ts`) | a channel's `consecutiveFailures`, `enabled`; notifications | `notify`, `deliverToChannel`, `postJson` | parallel sends, auto-disable, destinations that fail, hang or close early |
| Channels (`channel.service.ts`) | the channels, ten per user | create, update, delete, test | count then create; edits and tests against deliveries in flight |
| Certificate warnings (`ssl.service.ts`) | `sslWarnedAtDays` | `shouldWarn`, `handleCertificate`, the site update that keeps its result | ordering of warning and record, overlap, renewal |
| Health probe (`healthCheck.service.ts`, `urlGuard.ts`) | none between probes | `runHealthCheck`: guard, request, redirects, classification | DNS answers that change between check and connection, redirect chains, a timeout that is an idle timeout |
| Sites (`site.service.ts`) | site documents | create, update, delete with its cascade, list | read-then-save edits against checks in flight |
| Retention (`cleanupJob.ts`), settings (`settings.service.ts`) | settings of each account | nightly cleanup, two upserts | windows read once and used for many deletes; a night cut short |
| Accounts (`auth.service.ts`, `User.ts`) | users, settings | register | two registrations of one address; a crash between user and settings |
| Analytics (`analytics.service.ts`), lists | none | aggregation, sorting, paging | outages cut by a range; queries of one answer over a history that is being written |
| Client session (`client/context/AuthContext.tsx`, `client/services/api.ts`) | user, cookie, unread count | probe, sign in, sign out, the 401 interceptor, polls | answers that overtake one another across sessions |
| Client pages (`client/pages`, `client/hooks`) | a copy of the server's rows, a filter, what is in flight | load, poll, filter, optimistic changes | late lists, overlapping checks, failures that must end every skeleton |
| Seed script (`seed.ts`) | none | writes a demonstration history | history, incidents and cached fields derived separately |
| HTTP shell, configuration | none that matters here | routing, validation, logging | shutdown with a sweep in flight |

How they call each other: the cron job or the external trigger starts a sweep;
the sweep asks the database for the due sites and hands them to the worker pool;
each worker runs `checkSite`, which probes, stores the health check, drives the
incident state machine, which calls `notify`, which awaits every channel's
delivery; the certificate the probe saw goes to `handleCertificate`, which may
`notify` too; one `updateOne` then writes the site's cached fields. Users' requests
touch the same documents at any await. On the server only the database and the flag
`sweepInProgress` are shared; there are no callbacks between components. The client
learns of all this by asking: it polls, and every answer is of the past.

What makes each part correct, in one line each: incidents open on the threshold,
are unique, are counted, announced and resolved whatever overlaps or fails; every
due site is checked and none before its time; the pool calls each task once and
has no hole; deliveries are independent, bounded and end; a band on record was
announced, unless its owner had such warnings off, and a renewed certificate is announced again; a probe stays on public
addresses, ends, and reports the whole of what it measured; an address has one account,
whole when its owner is told of it; a health check goes when, and only when, its owner's
window says so; the numbers of one answer agree with the history and with one another; a
tab comes to show what the server has, and knows when its session is over.

`PROJECT.json` lists each component with its status, and under `hazards` the lines
where the code is exposed, with the properties that watch them.

## 2. Modules

| Module | Models | Composition |
|---|---|---|
| `BoundedPool` | what a pool promises: tasks start, at most a limit at a time, finish or are lost, and the caller is answered accordingly (abstract) | refined by `WorkerPool` |
| `WorkerPool` | `runWithConcurrency` (`concurrency.ts:12-38`) | used as a multiset of tasks by `SweepScheduler` |
| `IncidentLifecycle` | what a site's incident is: at most one open, resolved for good (abstract) | refined by `SiteMonitoring` |
| `OutageResponse` | what the engine promises while checks of a site neither overlap nor fail: every stored result is answered in full before the next (abstract) | refined by `SiteMonitoring`, under `Alone` |
| `SiteMonitoring` | `checkSite`, `handleFailedCheck`, `openIncident`, `handleSuccessfulCheck`, create/update/delete of sites | the centre |
| `SweepScheduler` | cron, trigger, flag, `findDueSites`, sweeps and their jobs | a check is its probe and its write here |
| `ChannelDelivery` | channels' CRUD, `notify`, `deliverToChannel`, `postJson` | the inside of `Announce` of `SiteMonitoring` |
| `CertificateWarnings` | `ssl.service.ts` from handshake to site update | the part of `checkSite` that `SiteMonitoring` leaves out |
| `HealthProbe` | `runHealthCheck`, `performRequest`, `urlGuard.ts` | the inside of `Probe` of `SiteMonitoring`, of `ProbeDone` of `SweepScheduler` and of `Handshake` of `CertificateWarnings` |
| `Accounts` | `registerUser`, the upserts of settings, `runRetentionCleanup`, over days | stands alone; of the settings it keeps the retention window; the preferences are taken as on by `SiteMonitoring` and `ChannelDelivery`, and `muted` in `CertificateWarnings` |
| `Analytics` | `analytics.service.ts`, the lists' order and paging, `seed.ts` as initial states | `checkSite` await by await again, with what it reads and writes of one history in place of who is told |
| `ClientSession` | `AuthContext`, `api.ts`, sign-in and sign-out, the badge, and the server's answers to them | the frame around `Pages` |
| `Pages` | every page and the hooks under them, over one document of the server | signed in throughout; what changes the document is `Elsewhere` |
| `MC*` | names for model values and function constants; the configurations use them | |
| `*_proofs` | theorems of the module they extend | |

### SiteMonitoring

`check[c]` is one call of `checkSite` and its program counter the await it stands
at: `probe` → `record` (the health check is stored, `consecutiveFailures` computed
from the **snapshot**) → `find` (`Incident.findOne`) → `resolve` / `count` /
`open` (→ `reuse` for the loser of the unique index) → `notify` → `update`
(`Site.updateOne`). `Sweepers` and `Manuals` are the calls that can be in flight;
a sweep's call takes its snapshot in `SweepSnapshot`, "Check Now" in
`ManualSnapshot`. `site`, `incident`, `stored`, `noted` are the collections;
`cascade[s]` is what `deleteSite` has still to purge (three `deleteMany` calls under one
`Promise.all`, any order). `CallFails` is a rejected database call: `checkSite`
catches it and gives up the rest; `NotifyFails` one inside `notify`, which catches
its own. `Crash` loses every call in flight and keeps the database. `streak` (the
failures that really are at the end of the health-check history) and `alerts`
(what users were told) are history variables: no action reads them to decide. Where `OutageResponse` is
refined, the duty of a site (what its last stored result still asks for) is read off the one
check at work on it: `DutyOf` its program counter and its verdict, `Duty` none if there is no such check.

### SweepScheduler

Time is counted in cron ticks, dates as the ticks since. A tick only queues the
callback; `CronTick` reads the flag. `late` counts ticks that pass while
`findDueSites` is being answered, since it computed its `now` earlier. A job's
`taken` is the age its site had when the query saw it. As ages are whole ticks, a site that
was checked some seconds after a tick is `Due` up to one tick before the code would take it.

### WorkerPool and BoundedPool

A worker takes the cursor and increments it in one step (no await between), calls
its task, and writes the result when that settles. `Promise.all` rejects with the
first rejection while the other workers go on. The refinement hides the workers: what they
hold is `running`, what they rejected on is `lost`.

### ChannelDelivery

One user. `delivery[n][c]` is the delivery of call `n` to channel `c`: `sending`
(in `postJson`), `errorBody` (headers of an error response have come), `sent`/`failed` (its
answer, not yet recorded), `overLimit` (counted, not yet disabled), `done`, `threw` (a
database call rejected) and `hung` (the promise can no longer settle). `creating` counts `createChannel` calls between
the count and the create. `edit` and `test` hold the document an edit or test
loaded. `MaxPerUser` and `FailureLimit` each stand for the code's ten. `Start` is an event
the user's preferences let pass; what they silence ends `notify` there and touches no channel.

### CertificateWarnings

One site. `Certs` are the certificates it presents in turn, each with a lifetime;
`days` is what is left of the current one. `told` counts what users were told, per
certificate and band. `Handshake` gives the certificate of the moment or, when it
has expired, none: verification fails before the response. `overlapped` is history:
whether two checks were ever in flight together.

`muted` is the owner's `onSslExpiry`, which `Mute` switches off and on at any time. `notify`
reads it, returns silently when it is off (`notification.service.ts:121-126`), and
`handleCertificate` returns the band to be recorded all the same. So the step that leaves
`notify` has two forms: `Announce`, which counts in `told`, and `Withhold`, which notes the band in
`withheld`.

### HealthProbe

One call of `runHealthCheck`. `pc` is its await: `assert` (`assertUrlAllowed` of the
configured URL), `request` (`performRequest`, socket not connected), `answer`
(connected, no headers yet), `reassert` (`assertRedirectAllowed` of `next`), `done`. A
name's DNS answer is a set of addresses that may be empty and may change at any await
(`Rebind`); `Public` are the addresses `assertAddressAllowed` lets pass, `Malformed` the
URLs `parseAllowedUrl` refuses by their text. `Connect` looks the name up again, as the
socket does, and is given one address or all of them. `idle` is the socket's idle time, which
connecting and `Trickle` reset, `elapsed` the request's. `reached`, `requests`, `spent` and
`uncertified` are history. A status code is one of five classes; that the certificate of a URL
is the URL's own stands for the verification TLS does.

### Accounts

`request[r]` is one `registerUser`: `exists` → `create` → `settings` → `created`, or
`conflict` (409) or `failed`. An account is named after the request that wrote it, `user`
holds its address, `window` its `dataRetentionDays`. `GetSettings` and `UpdateSettings` are
the upserts, which may be quicker than the registration's own `Settings.create`. `cleanup[k]` is one
`runRetentionCleanup`: `plan` is `usersByRetention` with what is left to do, `DeleteChecks` one
`deleteMany` for one distinct window, `DeleteRuns` the last. Documents go by their own age and
owner alone, so one health check per account, with an age in days, stands for all. `held` is history:
the windows each account has had since a cleanup read them. `UniqueEmail` is a constant
for the reason `UniqueIndex` is one (`config/db.ts:60`).

### Analytics

`check[c]` is a call of `checkSite`, by a sweep or by hand, several of one site if they overlap.
Its program counter is the await it stands at: `probe` → `find` (the check is stored, `failed` is
counted on from the snapshot) → `resolve` or `open` → `update` (`Site.updateOne`); a failure below the threshold
goes from `probe` to `update`, and the `failedChecks` and announcements of `SiteMonitoring` are left out, which
nothing here reads. `Resolve` saves the incident as it was read, resolved now, though another check
may have resolved it before. `Interrupted` is a call that is rejected anywhere, with the `catch` around it, or the
end of the process. Two history variables keep what the code has no means against: `overtaken`,
the sites a tick passed for while a stored check of theirs was on its way, and `cut`, those a stored check of
which was interrupted.

A tick is the least time that passes between two checks of a site being stored, or two incidents of it
begun: this is an abstraction of the model, as the code has no such gap when Check Now meets a sweep. Their
probes may overlap as they like, and so may all that follows the storing, since `Tick` may come at any await.
`Seeded` is what `seed.ts` leaves: the ticks that fail are drawn, the last ones
rewritten as intended, incidents derived from the draws, fields cached from the end. The
script's generator is seeded with constants (`seed.ts:133`, `:197`), and with the numbers it draws no outage
reaches the rewritten checks; `SeedDraws` says so. A request is `SiteAnalytics`,
`PlatformAnalytics` or `DashboardStats`; each of its queries runs as a step of its own
(`Query`), with the engine, deletions and their cascades in between. Values are those of the
code: `Round` is `Math.round`, percentages are kept in hundredths as `round2` does, time
is ticks. Sums are folds over sets, so that a proof can split them; a `Ranking` is any enumeration
by descending counts, as `$sort` has no tie-breaker. A list is asked for page by page, `ListPage`, in any order its sort allows:
`MoreUrgent`, `ActiveThenNewer` and `Newer` are the pairs its sort tells apart, and `Orders` enumerates the lists they leave.
`Rows` are what all pages have shown, by page and place.

### ClientSession

One tab shared by two users. A call is sent with the cookie of that moment, answered by
the server at another, and handed over at a third, when the browser also stores or clears
the cookie; a token is named after its user. `MeAnswered` is the effect of `AuthProvider`,
`RefreshAnswered` a badge request with the interceptor, `SetUser` everything that setting the
user brings about: the route gate, the badge's effect. `TimedOut` is a call without an answer
within 20 seconds, `Expire` the end of a token.

### Pages

One page is mounted and one document followed; the rows of a page do not influence one
another, save through `checkingId` (`CheckAnother`). `row` is the page's copy, `rowFor` the
filter it answers. `Ask`, `ServeLoad` and `Answered` are a list request's three moments;
`ListLoaded` has the `requestId` guard of `useSites`, `Loaded` is every page without it. `Send`,
`ServeCall` and `CallAnswered` are those of a change, with what the page remembers for a rollback.
`Shown` is what the page's JSX tests, in its order: skeleton, error with a way to try again, dead end without
one, empty or rows.

## 3. Runs

Runs expected to pass:

| Run | Bounds | Shows |
|---|---|---|
| `pool` | 5 tasks, 3 workers, any may reject | every pool settles, `BoundedPool` is refined |
| `engine_alone` | one site, one sweep's check at a time, one editor, threshold 2, 4 flips | without overlap the documentation holds to the letter: every stored result is answered in full (`OutageResponse` is refined), incidents count the outage, the site's cache agrees |
| `engine_racing` | one site, a sweep's check and a manual one, deletion, one fault, 2 incidents, fair | whatever overlaps, fails or crashes: `IncidentLifecycle` is refined, every opening and recovery is announced, neither more often than checks can be in flight at once, a lasting recovery resolves, a lasting outage opens |
| `scheduler` | two sites of intervals 1 and 2, one worker, two sweeps at once, one from outside, one fault | flag exact and no overlap with cron alone; none probed early; every due site checked |
| `delivery` | two channels, two racing creates for one place, an edit, a test, one notify, one flip, one fault | the properties of delivery below |
| `certificates` | bands of 1 and 2 days (the code's are 1, 7, 14 and 30), lifetimes 1, 2, 3, one renewal, two checks, one fault, warnings switched off and on at any time | record honest, one warning per band without overlap, next approach announced |
| `probe` | two https names, an address, a refused URL; one redirect, timeout of 2 ticks, slow over 3, one DNS change, one trickle | only public addresses reached, time and certificate right over hops, every probe ends |
| `accounts` | two registrations over two addresses, windows of 1 and 2 days, ages to 3, one cleanup, one fault | one whole account to an address; checks go when, and only when, their owner's window says so |
| `analytics` | two sites, ranges of 2 and 4 ticks, a history of 5 ticks seeded and two more, or empty; two checks side by side, each slow or lost; one write between queries, pages of one row | incidents match the checks, downtime is exact, the queries of an answer agree, pages neither repeat nor skip |
| `session` | two users, two badge requests at once, one fault, one reload | the spinner ends, a tab without a session finds out, the badge catches up |
| `pages` | all eleven pages, one to three calls of the user on each, one fault, the document changing elsewhere | rows answer the filter in force, polled pages catch up, buttons come back, skeletons go |

The largest are `analytics`, with 4.2 million states, and `certificates`, each a minute or two; `accounts` has a million.

The run that contradicts a sentence of the repository (a finding in `PROJECT.json`):

| Run | What TLC shows |
|---|---|
| `scheduler_external` | the first of two overlapping sweeps clears the flag of both, so a tick is not skipped (`MONITORING.md:34`) |

Disagreements met and not given a run:

- a check that overlaps another (Check Now during a sweep) counts on from the streak
  before the other's recorded success, and opens an incident below the threshold
  (`monitoring.service.ts:106`, `MONITORING.md:88`; add a manual check to the configuration
  of `engine_alone` and TLC shows it);
- a site whose name does not resolve is refused by the validation before the request
  (`urlGuard.ts:212`) and so reported as `BLOCKED_URL` (`healthCheck.service.ts:287`), where
  `MONITORING.md:74` has `DNS_ERROR`; that type is left to a name that is lost between the
  validation and the connection;
- a chain of redirects is given the timeout once per hop, and once again per burst of
  headers, so that a check may last longer than its site's timeout (`MONITORING.md:73`);
- a check in flight when a site is paused writes its status over `PAUSED`
  (`monitoring.service.ts:129`, `MONITORING.md:63`);
- a threshold raised during an incident stops its `failedChecks`, since the test on the
  threshold comes first (`incident.service.ts:68`, `MONITORING.md:97`);
- of two checks that race to open an incident, the loser takes the winner's and goes on
  as if it had opened it, so that both announce it (`incident.service.ts:94`,
  `MONITORING.md:135`);
- `deliverToChannel` "Never throws" (`notification.service.ts:64`), but the database
  calls in its `catch` may; `notify` then rejects while other deliveries run on, and
  `checkSite` gives up before its site update;
- a certificate renewed straight into a band, or a site moved to another URL, keeps
  `sslWarnedAtDays`, so nothing is announced of it until it crosses a tighter one
  (`MONITORING.md:117-118`);
- a band crossed while its owner has expiry warnings off is recorded like one announced
  (`notification.service.ts:121-126`, `ssl.service.ts:127`), so switching them on again before the certificate
  reaches a tighter band brings no warning of it (`MONITORING.md:117-118`);
- a check that is cut short after its success is stored, by a rejected call or a restart, leaves
  the incident open over it; the next success resolves it with its own time, so that the
  history shows a success inside the outage (`incident.service.ts:116-129`);
- of two checks of one site that take longer than the gap between them, the later to finish writes last:
  a failing one that was overtaken by a success leaves `consecutiveFailures` at the threshold with
  nothing open (`monitoring.service.ts:106-140`), and a success that read the incident before
  another resolved it moves its `resolvedAt` to a later moment (`incident.service.ts:122-129`);
- overlapping checks can warn of one band twice, or put back a `sslWarnedAtDays` that
  a check of the renewed certificate cleared;
- "Without the cascade, health checks and incidents would outlive their site and skew every
  aggregate that counts them" (`site.service.ts:299-300`): with it, those of a check in flight
  still do, since it stores them after the one-time cascade (`:309`);
- "Delivery never blocks or fails a monitoring sweep" (`API.md:235`): `postJson` settles an
  error response on its `end` alone (`channels/http.ts:85`), so a destination that closes the
  connection inside the body leaves `notify`, `checkSite` and the sweep pending;
- "An already-expired certificate is reported as its own event" (`MONITORING.md:120`): the
  handshake with it fails before the certificate is read (`healthCheck.service.ts:202`), so only
  one that expires during a probe is;
- the All list of notifications is asked for with `unreadOnly=false`, a text that
  `z.coerce.boolean` takes for true (`analytics.validators.ts:33`), so it lists the unread
  ones only (`client/pages/NotificationsPage.tsx:33`; `Understood` in `Pages`);
- the dashboard asks whether it has no sites before it asks whether the list failed
  (`client/pages/DashboardPage.tsx:99`), so a failed first load shows "no sites", where
  `CONTRIBUTING.md:124` wants an error state;
- a site's page that failed to load once, or whose poll failed, stops polling and has no
  retry (`client/pages/SiteDetailPage.tsx:100`), which `ErrorState.tsx` promises;
- a settings change that fails puts back the whole of the settings as they were before it,
  a later change included (`client/pages/SettingsPage.tsx:69`);
- a 401 of the last session that arrives late signs out the user who has signed in since
  (`client/services/api.ts:129`), and so does a late refused probe (`AuthContext.tsx:52`);
- after a sign-out that did not reach the server "a stale cookie the server will reject
  anyway" is left (`AuthContext.tsx:85-87`): the server accepts it until it expires;
- on the analytics page, the answer for an older range that arrives last stays until another
  range is chosen, the page not being polled (`client/pages/AnalyticsPage.tsx:36`);
- `getSiteStats` has an uptime of 0 where there is no check, for which the site's page
  makes up (`client/pages/SiteDetailPage.tsx:301-311`), and `round2` shows 100 % with one failure in more
  than 20000 checks.

**Bounds.** Counters saturate above every threshold (`FailureCap`, `AgeCap`), so
saturation loses no comparison the code makes. Two checks are enough for each race
the code has: all its decisions compare a snapshot with one document. Two incidents
let one be resolved and another opened; three give liveness room to recover after
a fault. Flips and faults bound how often the environment changes, so that
behaviours end in a state where liveness can be judged. `CHECK_DEADLOCK FALSE` is
in every configuration, because a behaviour whose faults, flips or tasks are used
up really stops.

In `accounts` two registrations are the race, two windows tell a user's own from another's, and
an age of 3 is past both. Two cleanups at once, which cron does not exclude, are covered by
the proof alone. In `analytics` a threshold of 2 within 5 ticks has outages that begin before a
range of 2 or 4, end in it, on its edge, or not at all. Two checks begun are the least that race, or that cross the
threshold after a seeded history, which has two ticks left to go on; one write between queries is enough to
have them disagree. What the conditions on `overtaken` and `cut` and on checks half-way are for was seen by leaving each out:
`IncidentsFollowChecks` is then violated within these bounds. `DowntimeIsExact` needs three checks for its
condition on `overtaken`, one more than the run has; there only the proof speaks. In `pages` the calls per page are as many as let a
change, a check and a filter overlap; the rows of a page being independent, one suffices.
In `session` two users tell an answer for one session from another's, and two badge requests
overtake each other.

In `probe` one redirect makes a chain of two hops, the least that tells the first hop from
the last; the threshold of 3 ticks lies between what one hop takes and what two do; one DNS
change is enough to separate a validation from its connection.

**Fairness.** `FairSpec` asks weak fairness of the steps the program itself owes: an
awaited call that has been made returns or rejects, `node-cron` calls back each
minute, the event loop runs what is due. It asks nothing of users, destinations or
faults. The fairness of `scheduler` and of `pool` assumes that every check settles; a
connection that breaks off inside an error body (`ChannelDelivery`, `BodyBreaks`) is the one
case where the code does not keep that, and `NotifyEnds` excepts it.
`ChannelDelivery` counts an error body among what ends in time, by its end or by the
idle timeout of `postJson`, and assumes nothing of a connection that breaks off
(`BodyBreaks`).

`HealthProbe` asks for the clock, the timers and the lookups of validations only: no server is
assumed to accept or to answer, so `ProbeEnds` rests on the timeout alone. It needs the bound
on `Trickle`: a server that sends a header byte by byte resets the idle timer each time.

`Accounts` asks that cron starts a cleanup every night and that the event loop runs it on,
and nothing of users or of days: a server that is asleep at the hour of the cleanup, as a free host may be, cleans
up the next night it is awake, and only an always-on one keeps `ExpiredGoes` as it is stated. `ClientSession` and `Pages` ask that the server answers, that the
browser hands answers over (or the 20-second timeout rejects), and that intervals tick while a
tab is visible: its visibility is a premise of the properties, `[]<>visible`. `Analytics` has no liveness.

**Symmetry.** `certificates` and `analytics`, which check safety alone, use it over their checks
in flight, which nothing tells apart. The others check liveness, where it is not sound.

## 4. Properties

*Engine.* `ImplementsLifecycle`: at most one incident is open and what is resolved stays so;
`AnnouncedWhenQuiet`: when no check is in flight and no fault interfered, each
incident has been announced and its resolution too; `AnnouncementsBounded`: an incident is announced,
and its recovery too, at most once for each check that can be in flight. All hold under all races,
the last one with or without the index. An announcement here is a call of `notify` that tells someone, which assumes the
preferences `onDown` and `onUp` are on, as they are for a new account; with one off the same calls are made
and return.
`ImplementsResponse`, `CacheAgrees` and `FailuresAreCounted` hold while checks of one site neither overlap nor fail
(`Alone`), the last one only as long as no threshold is raised during a check or an
incident (`NoRaise`): under a raised threshold further failures return before they reach the
incident (`incident.service.ts:68`). The
liveness pair `RecoveryResolves` and `OutageOpensIncident` holds across a fault in any
place, because the engine asks the collection for the open incident and not
`activeIncidentId`, and because the threshold is a `>=`.

*Scheduler.* `FlagIsTrue`, `NoSiteTwice` and `OnlyDueSitesProbed` while the cron job is the only
trigger; `DueIsChecked` always.

*Pool.* `PoolSettles`, `ImplementsPool`.

*Delivery.* `DeliveryInv` (of which `OvershootIsBounded`: the count is not atomic with the create: the limit
is exceeded by fewer than the racing requests), `DeletedStaysDeleted`,
`EachChannelAttempted` (no channel waits on another), `DeadChannelNotRetriedForever`,
`NotifyEnds`.

*Certificates.* `RecordIsHonest`: whatever overlaps, fails or restarts, a band in `sslWarnedAtDays` was
announced for some certificate, or came due while the owner had warnings off. `WarnedOncePerBand`, where checks neither
overlap nor fail. `NextApproachAnnounced`: where they do not overlap, a certificate once seen beyond every band and now
recorded in one was announced in that or a tighter one, or came due in it while warnings were off.

*Probe.* `GuardHolds` (the address judged is the address connected to, whatever DNS does
between), `TimeIsWhole`, `CertificateIsOwn` (another site's certificate is
reported only if the configured URL has shown none: an `http` URL that redirects to `https`
has the target's), `ProbeEnds`.

*Accounts.* `AccountsInv`, of which `OneAccountPerEmail`, `ConflictIsTrue` (409 is told only where
there is an account) and `RegisteredIsWhole` (whoever is told of an account has it, with
settings). An account whose registration died between its two writes has none, and its checks are not
cleaned up, until its settings are first read. `OnlyExpiredDeleted`: a check is deleted only past a
window its owner has had since the cleanup began; a user who lengthens the window during a cleanup
may still lose what the old one expired. `ExpiredGoes`: a window left alone is kept.

*Analytics.* `IncidentsFollowChecks`, `DowntimeIsExact`, `AnswersAgree`, `PagesAreWhole`. The first holds
of a site none of whose checks is half-way, and none was, once stored, cut short or overtaken by a tick (`cut`,
`overtaken`): of other sites the code does not keep it, see above. `DowntimeIsExact` holds of sites not overtaken. It, `AnswersAgree`
and, but for checks, `PagesAreWhole`
hold for answers during which nothing is written, as the queries of one answer are not
one snapshot; incidents of one status and start have no tie-breaker
(`incident.query.service.ts:86`), so their list may repeat one and skip another, and only the order of
ongoing before resolved is claimed of it.

*Session.* `SpinnerEnds`, `ExpiryNoticed` (a tab that shows a user without a session finds out by
itself), `BadgeCatchesUp`.

*Pages.* `PagesInv`, of which `RowsAnswerTheFilter` (where `useSites` is used) and `SkeletonIsBacked`,
with the parts its proof needs;
`PolledPageCatchesUp`, `ButtonComesBack`, `SkeletonGoes`.

Each property has a mutant, a small plausible bug next to the definition it changes,
which breaks it.

## 5. Proofs

For every value of the constants, under the assumption named in each module:

| Module | Theorems | Argument |
|---|---|---|
| `SweepScheduler_proofs`, on the pool | `PoolInvariant`, `TasksRunOnce`, `OrderKept`, `NoHoleInResults`, `PoolIsBounded` | `PoolInv` ties the cursor to the calls: every index below it was taken by exactly one worker, none at or above it. The refinement maps take, delivery, rejection and settling to the pool's steps and a worker's return to a stutter; a worker that takes leaves fewer than `Limit` that can hold a task |
| `SweepScheduler_proofs`, on sweeps | `Scheduling`, `FlagExact`, `NoOverlap`, `TicksSkipped`, `ProbesAreDue` | `SchedulerInv`: with no external sweep, at most one sweep is active and the flag says whether; only an active sweep has jobs. `WaitingIsDue` then follows: `lastCheckedAt` of a site that waits in the one sweep is written by nobody |
| `SiteMonitoring_proofs` | `Monitoring`, `OneActiveIncident`, `RecoveryIsResolved`, `ResolvedStaysResolved`, `EngineImplementsLifecycle`, `QuietMeansAnnounced`, `CachedFieldsAgree`, `OpensOnStreak`, `OneAnnouncementEach`, `AloneImplementsResponse`, `OpenIncidentsCount`, `OneCheckAtATime`, `AnnouncementsAreBounded` | `MonitoringInv`, `AlertsAreOwed`, `CacheInv`, `AlertsInTurn`, `CountInv`, `TellersAreBounded`, below |
| `ChannelDelivery_proofs` | `DeliveryTypes`, `OvershootBounded`, `ChannelStaysDeleted` | stored channels plus creates in flight never exceed the limit by the number of requests: a count that sees room is below it, and at most `MaxCreators` passed it since |
| `CertificateWarnings_proofs` | `CertificateInvariant`, `WarnedMeansSettled`, `AnnouncedOncePerBand`, `ApproachIsAnnounced` | what a check carries to its update is a band it has announced or withheld, or a cleared record; `AloneInv`, below |
| `Accounts_proofs` | `AccountsSafe`, `OnlyExpired` | `AccountsInv`, below |
| `Pages_proofs` | `PagesSafe` | `PagesInv`, below |
| `Analytics_proofs` | `HistoryInOrder`, `IncidentsAlwaysFollowChecks`, `DowntimeIsAlwaysExact`, `AnswersAlwaysAgree`, `ListsAreWhole` | `AnalyticsInv`, `ListingInv` and lemmas on sums, runs of failures, rankings and sorted lists, below |
| `HealthProbe_proofs` | `Probing`, `OnlyPublicAddresses`, `RedirectsAreLimited`, `HopsAreSummed`, `CertificateOfTheUrl` | `ProbeInv`: the address of a literal being requested was judged by its text, a name's by the lookup that connects; requests are one more than redirects at most; `spent = total + elapsed`, with nothing elapsed between hops; `FirstHopIsOwn`: the configured URL is the first requested, and once it has answered its certificate is held or known to be missing |

Why `MonitoringInv` has more than the properties: `AtMostOneActive` is kept by the
index alone, but `UpOnlyAfterResolve` needs `InHand` (the incident a check holds
exists, belongs to its site, and is resolved when a recovery is about to be
announced), and `ResolvedIsFinal` needs that `Count` touches an incident through the
modified-paths save and not the whole document. Deletion needs `PurgeAfterDelete`.
The refinement theorem shows, under `UniqueIndex`, that each step opens, resolves or
purges an incident as the lifecycle allows, or stutters. The unique index is a
constant because a production server does not build it (`config/db.ts:60`): the operator
does, once, after the first deployment (`DEPLOYMENT.md:64-73`). Without it two racing
checks do open two incidents, and all but uniqueness and the refinement still hold.

`AnnouncedWhenQuiet` holds under all races: `AlertsAreOwed` says that an announcement still owed is
in the hands of a check at `notify`, and that a check at `resolve` has seen a success. The
check that leaves `notify` pays; nobody else takes the debt away, because an incident that
changes its status does so in the step that brings its check there.

`AnnouncementsAreBounded` counts for each incident the checks that may still announce it as it
stands (`MayTellDown`, `MayTellUp`). Before an incident opens nobody has announced it; from the step
that opens it on, no check joins those that may announce the opening, because a check that looks the
incident up finds it, and no check joins those that may announce the recovery once it is resolved.
So each announcement uses up one of them (`TellersAreBounded`). It is assumed that finitely many
checks can be in flight.

`CachedFieldsAgree`, `OpensOnStreak`, `OneAnnouncementEach`, `OpenIncidentsCount` and
`AloneImplementsResponse` have `[]Alone` as a hypothesis: in no state of the
behaviour are two checks of one site in flight, and no call has failed. It is a hypothesis on
behaviours, not on constants: any number of sweeps, sites and editors may run, and which of
them overlap is the scheduler's business (`NoOverlap` proves of it that sweeps of the cron job
do not). No state records that checks never overlapped, so it cannot be part of an invariant. `CacheInv` says what
each check holds at each await. `CountsTheHistory`: before `Record` the snapshot's
`consecutiveFailures` is the length of the failing streak in the history, after it
`Consecutive` is. `HoldsTheIncident`: the open incidents of its site are those
`activeIncidentId` points to until the check opens or resolves one, and then the one it
holds or none, until `Update` makes the pointer follow; of a deleted site the purge may have taken
them. `AbsentIsBlank`: a site not created yet has no history. The unique
index plays no part: alone, a check finds every open incident and opens none beside it.
`AlertsInTurn` adds that an incident at its announcement has none yet, and one that is
being resolved has its own. These two invariants are what the refinement of `OutageResponse` rests on: the step
of a check that stores its result finds no duty left by an earlier one, since there is no other check,
and each later step of that check discharges its duty or hands it on, so that a behaviour of the engine
is one of `OutageResponse`, step by step. `CountInv` adds that an open incident counts at least the threshold of
its site, so that no further failure stays below it; this is where `NoRaise` is
needed: with thresholds 1 and 3 TLC finds the count left behind when an edit raises one to the
other during the incident, and nothing with `NoRaise` added to the steps. `OneCheckAtATime` shows the hypotheses
are not empty: with one check at a time, no faults and one threshold every behaviour meets
them, which is the case the run `engine_alone` explores on one site.

`AloneInv` of the certificates holds until two checks have overlapped, which the model
records in `overlapped`. A check's snapshot is then still the record when it decides
(`SnapshotsAreFresh`), and what it has seen is the certificate in place or one that was replaced by a certificate of which
nothing is known yet (`FutureUntouched`): a late update can write an old band over a new
certificate's record, but not for one that was seen beyond every band (`VettedIsAnnounced`). The
bands announced of a certificate go down as its days do, and the record is the lowest of
them (`BandsGoDown`), so none comes twice. A failed call may lose a record and have a band
announced again; `WarnedOncePerBand` excepts it, `NextApproachAnnounced` does not.

`AccountsInv` adds to its three properties `RequestInHand`, without which a created account could
be another's when its settings are written, and `PlanWasHeld`: a window a cleanup is about to use is one
its owner has had since it began. The latter holds because every change of a window is noted
for every cleanup in flight and a plan only loses entries; it is all that `OnlyExpired` needs, for
any number of cleanups at once.

`PagesInv` is inductive with two supporting parts. `LatestIsOut`: the request a page takes for its latest is out,
and asked with the filter now in force, so an answer that passes the `requestId` guard answers it.
`Remembers`: a change in flight still has what its rollback puts back. The proof rests on one
observation, that the copy of a page changes in three ways only: a list request goes out, its
answer comes in, or the row alone changes.

`AnalyticsInv` says of an undisturbed site what `IncidentsFollowChecks` says, but for what the check in hand
has still to do (`FollowsSoFar`): an incident may cover the success that is about to resolve it, and the streak may
stand until the success that found nothing open has written its own. It rests on there being one stored check in
hand (`OneInHand`): a tick has room for one, and one that is not through by the next tick, or never, makes the
site a disturbed one. `CheckInHand` is what that check knows: it holds the only check of this tick, what it is about to resolve is
open, and at its update the incident is as its outcome wants it. Of all sites, disturbed or not, two
incidents begin at different times, and of those not overtaken they come one after the other (`IncidentsApart`),
which is all that the downtime needs; it is kept by a stale `Resolve` because, until a tick passes, the incident
it found is still the last (`FoundIsLast`). None starts or ends in the future (`KnownBy`),
and a history nobody has written since the request is that of the request's moment, so that
what was read from it is what would be read now (`AnsweredOf`). TLC finds all of it kept on the bounds of
`analytics`. What its proof and those of the answers need is mostly induction over data, which the
library's theorems offer for predicates only; here it is done on sets: a set of naturals has a least
member (`Least`), what holds of 0 and passes on holds up to a bound (`Upward`), and what holds of
the empty set and passes on to one member more holds of every finite set, as the strict subset is
well founded on those (`Inward`). `RunIs` says what the seed script's recursive counter computes:
the failures since the last success. A sum over a finite set is the sum over its parts, so the
downtime is the size of a union of disjoint intervals and the counts of an answer are those of its
parts; `RankingIs` shows that the rows can be enumerated by descending value, `MeanOfParts` that a
mean is at most the largest of the means of its parts. `ListingInv` is about the lists (TLC finds it
kept too, with pages of one row and of two). An element of a sorted list stands at its `Rank`, the
number of elements that do not come after it, whichever list was sorted (`RankIsPlace`); a page
shows the ranks behind those of the pages before it, so what has been shown is told from the history
alone, without the lists it was cut from (`SitesInPlace`, `OngoingInFront`). A check that comes
later raises the rank of the older ones, which are shown already or still to come
(`OldChecksToCome`). `OrdersAre` says what the recursion of `Orders` enumerates: the sequences of
all the elements in which none stands behind one it comes before. Assumed are finite sets of sites
and windows, and a seeded history no shorter than the threshold, which the script's is
(`seed.ts:44`, `:194`).

`AtMostOneActive`, `UpOnlyAfterResolve`, `ResolvedIsFinal`, `OneAlertPerTransition`,
`OpensOnConsecutiveFailures`, `EachTaskOnce`, `ResultsInTaskOrder`, `ResolvedIsComplete`,
`CronAloneNeverStacks` and `RequestsBounded` are proved and not among the runs' properties: a
theorem for every value of the constants leaves TLC nothing to add.

Out of the provers' reach and left to TLC: all liveness (`PoolSettles`, `DueIsChecked`,
`RecoveryResolves`, `OutageOpensIncident`, `EachChannelAttempted`, `NotifyEnds`,
`DeadChannelNotRetriedForever`, `ProbeEnds`, `ExpiredGoes` and those of the client). Every other
safety and action property of the runs is a theorem.

## 6. Not modelled

- The text rules and address ranges of the guard: `HealthProbe` has a constant set of what it
  refuses. Message formats, masking of credentials, validation messages, logging, routing:
  wording and wiring.
- `rateLimit.ts` and the mail transport: libraries, whose outcomes are failures here.
- The sequence of `server.ts` on a signal: it waits for requests and, ten seconds later, exits. What
  it can cut short is what a crash can, and every module with server state has one.
- Fields of settings other than the window and `onSslExpiry`, and of sites other than those the engine reads;
  `uptimePercentage` of a site, which no decision reads.
- Demonstration sites (`isDemo`) are never due and left out of the engine; of `seed.ts` one
  site's history is modelled, not the removal of old demonstration data.
- The theme and toast contexts, the charts, layout. The adjustment of the badge when a
  notification is read on its page (`client/pages/NotificationsPage.tsx`), which the next poll
  overwrites. Two sign-in forms submitted at once.
- Joins and single-document reads, which give back what was stored.

## 7. What could follow

1. Composition of `SiteMonitoring` with `ChannelDelivery` and `SweepScheduler`, so that a
   pending delivery is seen to stop the sweep it belongs to; edits of URL and threshold during
   an incident; channels edited between the count and the disable (`notification.service.ts:98`).
2. Proofs: that the sweeps of `SweepScheduler` are behaviours of `SiteMonitoring` with `Alone`.
3. The text rules of `urlGuard.ts` as operators checked against a reference.
