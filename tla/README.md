# A formal model of Gatus

Gatus evaluates endpoints on a schedule, keeps the history of their results,
and alerts people when endpoints fail and recover. This directory holds TLA+
modules translated from its Go source, TLC configurations that check them on
small instances, and TLAPS proofs of what matters most.

    tlc -config stores.cfg MCStores     # check a run
    tlapm StoresProofs.tla              # check the proofs of a module

Paths below are relative to the root of the repository; `alert.go` is
`alerting/alert/alert.go`.

## 1. The system and its parts

| Part | State it keeps | Operations | Hard behaviour | Correct when |
|---|---|---|---|---|
| Alerting (`watchdog/alerting.go`, `alerting/alert`) | counters of results in a row and time of the last reminder per endpoint, `Triggered` per alert, persisted rows | handle a failed or a successful result, load at start | calls to providers and to the store fail half-way, the process dies between two of them | an incident is announced once, after the threshold, and closed once; flags, rows and notifications agree; failing endpoints end up announced, healthy ones resolved |
| External endpoints (`api/external_endpoint.go`, `watchdog/external_endpoint.go`) | the same counters, copied to and from a temporary endpoint | push, heartbeat | pushes and heartbeats run concurrently, without a lock | no result is lost from the counters, no alert goes out twice, silence is announced |
| Watchdog and life cycle (`watchdog/*.go`, `main.go`) | context, semaphore, one goroutine per monitor, time of the last load | start, execute, shut down, reload, terminate | goroutines outlive their configuration; the file is edited at any time | permits are returned, everyone gets a turn, nothing runs between stop and start, the latest valid file is used |
| Suites (`config/suite`, `config/gontext`, `watchdog/suite.go`) | context of values, results so far | execute in order, skip, time out, alert | endpoints that are skipped, cleanup that is not | the result says what happened, values belong to this execution, cleanup always runs, alerts go with their own result |
| Stores (`storage/store`) | results, events, uptime, triggered alerts, a cache | insert, page, merge, clean up, delete | overlapping transactions, commits that fail, bounded histories, cache against table | both stores show at least the newest results, events without a gap, and a cache that agrees with the tables |
| API (`api`) | response cache | read statuses, badges, charts; accept pushes | numbers that wrap around, pages while results are inserted | no page misses a result, no slice is out of range |
| Endpoint evaluation (`config/endpoint`, `client`) | none between checks | retrieve, call, evaluate conditions | calls that fail early, late or partly | what a condition uses was retrieved; what was not reached is not healthy by accident |
| SSH tunnels (`config/tunneling`) | an SSH client | dial, reconnect, close | shared by all goroutines, a server that comes and goes, a reload | one connection at a time; a check fails only if the tunnel does |
| Connectivity (`config/connectivity`) | last answer and its time | check | shared by all goroutines without a lock | answers are at most an interval and a timeout old |
| Maintenance (`config/maintenance`) | windows | compare times | midnight, weekdays, clocks that are moved | alerts are held back in the windows of the listed days and at no other time |
| Configuration (`config`) | the parsed file | load, merge, validate, detect modification | defaults and overrides | the latest valid content is used |
| Providers (`alerting/provider/*`) | their configuration, the key of an incident | validate, merge overrides, send | many recipients, answers that cannot be read | sent with the most specific settings, to everyone or reported as failed; a resolution closes what was opened |
| Metrics, security, web server, front-end | library state | — | — | out of scope |

How they interact: `main.start` calls `watchdog.Monitor`, which starts a
goroutine per endpoint, suite and heartbeat. Each execution takes a permit,
evaluates, calls `InsertEndpointResult` or `InsertSuiteResult` of the store,
and then `HandleAlerting`, which calls providers and persists triggered alerts.
Pushes reach `HandleAlerting` from the web server's goroutines instead. The
listener of the configuration file stops all of that, loads the file, closes
and opens the store, loads the triggered alerts back (`initializeStorage`) and
starts a new generation. Endpoints and alerts are shared by pointer; nothing
but the stores, the semaphore, the tunnels and the context of a suite is locked.

## 2. Modules

| Module | Models | Notes |
|---|---|---|
| `Incident` | what alerting promises the people it alerts | abstract: open incidents and notifications |
| `Alerting` | `HandleAlerting`, the rows of triggered alerts, `initializeStorage` on them | one endpoint, any number of alerts |
| `AlertingHistory` | the same with history variables | what really happened, whatever the process forgot |
| `AlertingProofs`, `AlertingHistoryProofs` | theorems about the two | section 5 |
| `ExternalEndpoint` | pushes and the heartbeat of one external endpoint | one alert, any number of concurrent requests |
| `ExternalEndpointProofs` | theorems about it | |
| `Watchdog` | goroutines, contexts, semaphores, the listener of the file | any number of reloads |
| `WatchdogProofs` | theorems about it | |
| `Suite` | one suite, executed over and over | |
| `SuiteProofs` | theorems about it | |
| `StatusHistory` | what a store promises those who ask for a status | abstract: every result, and those kept |
| `ResultLog` | what the two stores have in common | results are numbered |
| `MemoryStore`, `SQLStore` | the two stores | the latter with transactions and its cache |
| `Stores` | the store that `Initialize` has created | composes the three above, implements `StatusHistory` |
| `ResultLogProofs`, `StoresProofs` | theorems about `Stores`; the former has the lemmas about numbered results | |
| `ProviderTable` | what the code of each of the 41 providers says about its settings and incidents | a table of constants |
| `Providers` | one provider from its configuration to the requests it sends | |
| `Uptime` | hourly and daily entries in both stores | |
| `Maintenance` | a window and a clock that runs past it | |
| `Paging` | requests for pages, a reader against an inserter | |
| `Evaluation` | one evaluation of an endpoint | every type of endpoint, one condition |
| `Tunnels` | one tunnel shared by several checks | |
| `Connectivity` | overlapping calls of `IsConnected` | |
| `PartsProofs` | theorems about `Paging`, `Uptime`, `Maintenance`, `Tunnels`, `Connectivity`, `Providers` and `Evaluation` | each with a specification of its own |
| `MCParts` | the modules above from `Providers` on, and `Suite`, side by side | variable `part`: each behaviour is about one of them |
| other `MC*`, `SmallEndpoints` | values of the constants | |

Operators marked *Slip* are mistakes a programmer could plausibly make at that
place; each is an alternative to the definition that follows it and no
specification uses it. They show that a property would notice.

### Alerting

`pc` is where the handler is, `cur` the alert its loop has reached. `Fail` and
`Succeed` are the two entries (`handleAlertsToTrigger`, `handleAlertsToResolve`)
and change the counters. Then each alert is one of `SkipTrigger`, `SendFails`,
`SendSucceeds` followed by `PersistTriggered`; or `SkipResolve`,
`PersistSuccesses`, `Resolve` followed by `ReportResolved`. Each call to a
provider or to the store ends a step, so that `Crash` can come between. `Resolve`
sets `Triggered` and deletes the row in one step: both precede the call to the
provider, and a crash between them is covered by a crash before the step, as
memory is lost either way. `Restart` is the part of `initializeStorage` that
deletes the rows of alerts that are no longer enabled and loads the others;
`EnabledSets` is what a new configuration may enable. Rows are identified by
`Checksum`. A row holds the number of successes, as in the table.
With the memory store (`Persistent = FALSE`) there are no rows.

Time is a `Tick` that makes ages grow; ages and counters saturate at `AgeCap`
and `CounterCap`, beyond which no comparison changes. `refAge` is the age of the
local variable `lastReminderSent`.

### ExternalEndpoint

One `pc` and one copy of the counters per request in flight and for the
heartbeat. `Push` and `Beat` copy the counters (`ToEndpoint`); from there on each
access to the shared alert, the store, the provider and the shared counters is a
step, because nothing locks them. The copied time of the last reminder is always
zero (it is not copied), so a reminder is always due. `silence` is the age of the
newest result in the store, which both kinds of handlers insert.
`disturbed` is a history variable: two handlers have overlapped, or the store
failed to keep or delete a row. What a push and a heartbeat race can lose is not
prevented by the code, so the safety properties are about undisturbed histories;
the liveness property is about all of them.

### Watchdog

A generation is what one call of `Monitor` creates. `loop[g][m]` is the goroutine
of monitor `m` in generation `g`. The loop's `select` watches the context it was
started with (`cancelled[g]`), but an execution reads the package variables, which
nothing synchronises. `Monitor` replaces the context (`ReplaceContext`,
`watchdog.go:28`) and then the semaphore (`ReplaceSemaphore`, `watchdog.go:32,35`); an
execution reads the context (`TickerFires`), the semaphore it acquires from
(`ReadSemaphore`), and, once `Acquire` has returned, the semaphore that its deferred
`Release` will use (`Defer`, `endpoint.go:42`). `ctx`, `sem` and `back` are what it has
read. Each of these is a step, so a goroutine that outlives its generation may see the
new context with the old semaphore, or acquire from one semaphore and release another;
`strayed` is the history of the semaphores to which that happened, and `ReleasedMore`
the panic of a `Release` of more than is held. `Acquire` prefers a cancelled context to
a free permit, as version 0.20 of `golang.org/x/sync`, which `go.mod` requires, does.
`Finish` is the rest of an execution: check, insertion and alerting, whose effects
are in the other modules. `phase` is the goroutine that starts and reloads.
`modified` is what comparing the modification time, in whole seconds, with the
time of the last load says.

### Suite

`at` is the index of the loop. `TimedOut` is the `select` whose `break` leaves
only the select, so the endpoint is evaluated after all. `Evaluate` chooses whether
the conditions hold and which values of `store` can be extracted; `context[k]`
records which execution stored `k`. After `CalculateSuccess` and `Store`, the
second loop pairs endpoint `at` with the result at the same index
(`HandleAlerting`), or leaves it alone (no result, no alerting, maintenance).
`failures` stands for the counters that alerting keeps.

### Stores

A result is a number, `outcome` its success; an event has the number of the result
that caused it, so that `EventsAreTheLatestChanges` can say which results should have
caused one. `MemoryStore` changes a status under its lock in one step (`AddResult`
with both trims). In `SQLStore` a process is a goroutine with at most one transaction:
`Begin`, `Select` (is the endpoint known?), `WriteEndpointResult` or
`WriteSuiteResult`, then a loop over cached keys (`NextKey`, then `Hit`, `NotFound` or
`Miss` and `SetCache`), and `Commit`. `RollBack` is a statement that fails,
`CommitFails` what its name says, `Crash` the end of the process. The statements of an
insertion between the selection and the refresh are one step; under read committed
each sees what others have committed before, and the interesting orders are those
around that step. `Connection` is `SetMaxOpenConns(1)` of SQLite. A read of one status
or of all is the same loop. `SQLInitialize` is what a reload does; it waits for open
transactions, so that the store of an old configuration is never used beside the new
one. The driver stays the same across a reload, caching is on, and a single statement that
fails without the insertion giving up is left out. `Initialize` creates one of three
stores; which one stays the same (`storeType`).

Two history variables name what the code does not promise. `overlapped`: two
insertions for one key at once may both see a change and record it twice.
`unsettled`: after overlapping or failing insertions the cache may hold what the
tables do not, until the next insertion that is alone and commits.

### Uptime

An entry is the set of hours that it sums up, which determines the three sums in the
table. `InsertResult` is `updateEndpointUptime` followed by the merge and the deletion
of old entries. The memory store rounds the window of a question down and sees one
hour more than the SQL store, and a window of several days loses what was merged
into the part of its first day: `UptimeSurvivesMerges` says what is left.

### Providers

`ProviderTable` has a row per provider: settings that are required, optional or built
in, those whose value is checked, what an override may contain, whether recipients
are written to one by one, and what the provider does about incidents
(`incident`: closed by title, by alias, by a key that it chose or that came with the
answer, or not at all). A set-up varies one setting over the four places it can come
from, well formed, malformed or blank; the others are as they should be. Blank is what
`Merge` takes for not set: an empty text or list, zero, false, and numbers that are not
positive where it asks for that. The repository of a client may also be one with the
owner and name of the default on another host (`sameName`), for which the client of the
default is kept (`KeepsClient`). A provider that names all recipients in one request
sends in one step (`Notify`, `Resolve`). One that writes to them one by one does so in a
loop of steps (`StartLoopOver`, `TellNext`, `TellFails`, `EveryoneHandled`), `turn` being
the recipient that it has come to. `open` is the state of the
service, with an incident of a neighbour whose name contains that of the endpoint.

### Maintenance

`Begins` and `Scheduled` read a window the way its owner does, with the wall clock;
`StartDay` and `IsUnderMaintenance` are the code's arithmetic, by the hour. Validation
sets the start of a window, so `Start` is 0 where it is skipped. `AwayFromMidnight` says
of which time zones the module speaks: those whose clock is moved neither over a midnight
nor in the hour before one.

### Paging

Integers wrap at `HalfWord`. `AskForPage` is any request; `BeginReading` and
`ReadNextPage` are a reader, of either store, who turns pages while `InsertOne` moves
them. The memory store keeps `KeptResults` of them; the SQL store keeps `keptRows`, up to
`ResultSlack` more, before it deletes what is above the maximum (`sql.go:34,327`).

### Evaluation

`text` is what the placeholder of the condition stands for and `retrieved` the fields
of the result that were filled in: a condition may well be evaluated on one that was
not. `CallFails` is late where the code sets `Connected` before it fails. A
text is how it is written together with its number, so that `2`, `0x02`, `2.7` and
`2m` compare as in `sanitizeAndResolveNumericalWithContext`. The literals include `0`,
`0x00` and `false`, also inside `any()`. A condition with a placeholder on both sides is
left out.

### Tunnels and Connectivity

`held[c]` is the local variable `client` of `Dial`, which another check may replace in
the tunnel meanwhile. The mutex is held from beginning to end while connecting,
reconnecting and closing: each is a step. In `Connectivity` the two unlocked
assignments happen in either order, as other goroutines may see them.

## 3. What the runs check

| Run | Bounds | Shows |
|---|---|---|
| `alerting` | two alerts with thresholds 1/3 and 3/2 and reminders, one with send-on-resolved, any enabled set per restart, 2 crashes | flags, rows and notifications agree at every step (`RowsMatchTriggered`, `TriggeredMeansAnnounced`); `Alerting` implements `Incident`; in the first process, announced and resolved on exactly the results in a row that they ask for, reminders spaced, nothing open past its threshold |
| `alerting_eventually` | two alerts, one with reminders; store and providers may fail; 1 crash | failing endpoints end up announced, healthy ones resolved, ongoing ones reminded of |
| `external_endpoint` | one pusher and the heartbeat, thresholds 2, failing store, maintenance | nothing lost or sent twice between handlers that do not overlap; silence is announced whatever happened |
| `watchdog_reload` | an endpoint and a heartbeat, 1 permit, 2 edits, valid or not | permits balance wherever a reload has not come between their acquisition and their return, nothing starts while stopped, replaced goroutines end, monitors are served, valid updates resume, the latest content is used |
| `stores` | an endpoint, a suite with an endpoint whose key starts with that of the first, 3 results, at most 1 result and 2 events, slack 1 and 0, two processes, each of the three stores | both stores implement `StatusHistory`; they are bounded, events have no gap, the cache agrees with the tables, every call returns |
| `parts` | see below | 14 properties of the parts that can be looked at by themselves |
| `alerting_shared_checksum` | two alerts with one checksum, 1 crash | **violation**: after a crash, the restart loads an alert that never went out as triggered, because of the row of the other one (`Checksum` leaves the provider override out) |
| `watchdog_invalid_update` | as `watchdog_reload`, 1 edit | **violation**: after a skipped invalid update nothing is monitored (`main.go:238` says the old configuration continues) |
| `suite_timeout` | the suite of the README, 2 executions | **violation**: endpoints are evaluated after the suite's timeout (`suite.go:49`) |
| `suite_wrong_alert` | as `suite_timeout` | **violation**: after a skipped endpoint, results are counted for the wrong endpoint |
| `stores_suite_cache` | as `stores` | **violation**: the result of a suite leaves what is cached of its endpoints as it was (`storage/config.go:31`) |
| `maintenance_unvalidated` | as in `parts` | **violation**: the windows of an endpoint with a DNS or SSH configuration open at midnight (`maintenance.go:66`) |

`parts` puts eight independent models into one state space (954 929 distinct states):

| Part | Bounds | Shows |
|---|---|---|
| `Suite` | the four endpoints of the README's suite, 2 executions | `CleanupRuns`, `StopsAtFirstFailure`, `SuccessMeansAllPassed`, `NoStaleValue` |
| `Providers` | 41 providers, every set-up with at most one peculiar value (malformed, blank, same name on another host), 2 recipients, 4 notifications where the set-up is the usual one | `SentAsConfigured`, `SuccessMeansEveryoneTold`, `ResolutionClosesIncident` |
| `Uptime` | days of 3 hours, retention of 5 days, 8 days, 1 outage | `UptimeSurvivesMerges`: hours are counted once, where they belong, whatever was merged |
| `Maintenance` | days of 4 hours of 2 slots, a week of 3 days, every window, a clock moved by an hour either way | `MaintenanceAsScheduled` |
| `Paging` | both stores, at most 3 results, one more in the SQL store, of up to 7, 4-bit integers, every page and size | `PagesMissNothing` |
| `Evaluation` | 12 types of endpoint, every placeholder, operator and kind of literal, zero and false included | `RetrievedBeforeUse`, `HealthyMeansReached` |
| `Tunnels` | 2 checks, 3 retries, 4 connections, 2 breaks | `TunnelIsShared` |
| `Connectivity` | 2 callers, 8 instants | `AnswersAreFresh` |

**Why the bounds are enough.** Two alerts are what it takes for one to disturb
another (shared counters, shared reminder time, shared checksum), and thresholds of
1 to 3 in different orders put each of them before, at and after each other's. One
crash exercises each row once, the second one a row that a restart has loaded.
Thresholds of 2 make a lost or doubled result visible. With one permit and two
monitors there is contention, with two edits there is an update during a reload and
one after an invalid one, and three generations coexist. Two executions of a suite
are enough for a value to leak from one into the next. Three results pass the limit
of one with its slack, and make two changes, which with the start event pass the
limit of two events. Two processes are what it takes to interleave, one of them with
a suite; a shared prefix makes one insertion refresh what is cached of another key.
The merge threshold of `Uptime` is derived from the shortened day and retention the
way 100 follows from 24 and 30, so merges, deletions and outages happen within eight
days. Six results pass the limit of three with its slack, so the SQL store cleans up and
grows above the limit again, and a page may begin between what the two stores hold. Four bits make every product of page and size wrap that can. Two checks and
four connections let one check replace the client of the other and lose its own.

**Other disagreements** seen with the same modules, not kept as runs:

- With two different reminder intervals `RemindedForEver` fails: the quicker alert
  resets the time the slower one goes by (set `ReminderInterval <- TwoIntervals` in
  `alerting_eventually`).
- After a restart the thresholds and reminder intervals lose their guarantee:
  `LastReminderSent` is not persisted, successes persisted before the last failure
  count again, and `main.go:156` gives an alert that is not triggered the failures of
  one that is. That is why `AlertingHistory` states them for the first process.
- Without the history variable `disturbed`, `SentOnce` fails as soon as two pushes,
  or a push and the heartbeat, overlap (`api/external_endpoint.go:80`).
- `ToEndpoint` forgets `LastReminderSent`, so each failed push to an external
  endpoint whose alert is triggered sends a reminder.
- The heartbeat's own failure counts as a recent result, so the comment at
  `watchdog/external_endpoint.go:49-52` does not hold: "received" may mean that the
  heartbeat found itself.
- Without `blind`, `LatestContentUsed` fails: an edit between the reading of the
  file and the end of the load, or in that second, is never noticed
  (`config/config.go:192,196`).
- Nothing keeps an execution from one semaphore while a reload replaces it
  (`watchdog.go:28-36`, `endpoint.go:37-42`). Old and new semaphore together admit more
  executions than configured. An execution that acquires from the old one and defers the
  release after the replacement leaves the old one a permit short for ever, and returns
  its permit to the new one: if nobody holds a permit there, that is the panic `semaphore:
  released more than held`, which ends the process (`ReleasedMore`); otherwise the new
  semaphore admits one too many. `PermitsBalance` excludes the semaphores in `strayed`
  and says what remains: the one in place never loses a permit, and only goroutines of a
  replaced generation return one elsewhere. `OldLoopsStop` excepts the goroutine that has
  the new context and waits for the lost permit of the old semaphore; in the instance of
  `watchdog_reload` the panic comes before that.
- Gitea and GitHub keep the client of the default for a repository of the same owner and
  name on another host (`gitea.go:55`, `github.go:51`), so that alerts go to the default's host.
- No override can set a value back to zero, to false or to the empty text: `Merge` takes
  these for not set (`pushover.go:95-100`, `ntfy.go:78-83`, `email.go:65`).
- `[CONNECTED] == false` and `has([BODY].errors) == false` (`README.md:490`) are healthy
  without an answer, as is any condition that asks for zero or false: a failed call does
  not make the result a failure. `HealthyMeansReached` excepts them by the literal.
- Deep pages differ between the stores: with a maximum of 100, page 3 of 50 is empty in
  memory and may hold up to 10 results in the SQL store.
- Without `overlapped` and `unsettled`, the properties of the SQL store fail: events
  come twice, and the cache keeps what was rolled back or an older status.
- For an unknown suite the memory store returns `ErrSuiteNotFound`, the SQL store
  neither a suite nor an error.
- PagerDuty: a reminder opens a second incident and replaces the key of the first,
  which a resolution then cannot close (`pagerduty.go:100`). incident.io says
  "Silently fail" where it returns the error and empties the key
  (`incidentio.go:119-124`). ClickUp closes the tasks of every endpoint whose name
  contains that of the one that recovered. Gitea and GitHub go on using the client of
  the default token when an override names another token for the same repository.
  Alerts of the endpoints of a suite are not merged with the default alert.
- `placeholder.go:125` resolves placeholders "case-insensitive", but only capitals
  make `needsToReadBody` and its like retrieve what they stand for.
- A failed SSH call leaves `STATUS` at 0, so `[STATUS] == 0` by itself is healthy;
  `HealthyMeansReached` says when such an accident is possible.
- In the hour in which a window starts, before its minute, the window of the day
  before is forgotten (it shows for windows of nearly a day), and when the clock is
  moved windows are an hour off.
- A check that retries closes the client that other checks are using; a check that
  dials after `Close` connects a tunnel again that nobody will close; OAuth2 or IAP
  together with a tunnel ignores the tunnel (`client/config.go:280-286`).
- A reader of pages may see a result twice while others are inserted.
- Several connectivity checks may run at once, and an answer that is too old is given
  in the instant in which another call stores its own.

## 4. Fairness

- A goroutine whose handler or execution has begun finishes (weak fairness): every
  check, request and store call has a timeout or returns.
- Tickers never stop, time passes, the process is started again after a crash, and
  a reload that has begun goes on (weak fairness). `Fail \/ Succeed` is one formula:
  results keep coming, of either kind. Nobody has to push.
- A loop whose context is cancelled cannot choose its ticker for ever, since `select`
  picks at random (strong fairness of `StopLoop`); the semaphore serves its waiters in
  the order they came (strong fairness of `Acquire`). Nothing is assumed about edits
  or about the termination signal.
- Providers: only `AnnouncedEventually`, `RemindedForEver` and `SilenceIsAnnounced`
  assume that a provider tried over and over for one alert ends up accepting. That is
  about the provider; `ResolvedEventually` does not need it, since the resolution
  report may be refused for ever. `SilenceIsAnnounced` also assumes that maintenance
  windows end.
- Stores: a transaction that has begun goes on (weak fairness of the steps of each
  process together): the database answers every statement, or fails it. That an
  insertion waits for another one of the same key, or a read for the only connection,
  is in the guards, so that `CallsReturn` would notice a deadlock. Nobody has to call.
- The models in `parts` are checked for safety only and assume no fairness.

## 5. Proofs

The theorems hold for every value of the constants that the named assumptions allow:
any number of alerts, endpoints, monitors, goroutines, recipients and keys, all
thresholds and intervals, any number of crashes, edits and reloads. Each one of an
invariant has three parts: it holds at first, every action keeps it, and it implies
what the runs check. The types of a specification are the first conjunct of its
invariant. The invariants were checked with TLC on the bounds of the runs before
they were proved, that of `Evaluation` excepted.

| Theorem | States | Assumes |
|---|---|---|
| `AlertingProofs`: `TypeCorrect` | `TypeOK` | |
| `Consistent`, `RowsAgree`, `TriggeredWasAnnounced` | `RowsMatchTriggered`, `TriggeredMeansAnnounced` | `ReliableStore`, `DistinctChecksums` |
| `Implements` | `Alerting` implements `Incident` | the same |
| `AlertingHistoryProofs`: `StillTypeCorrect`, `NeverOverdue`, `AnnouncedOnlyOnThreshold`, `ResolvedOnlyOnThreshold`, `RemindersAreSpaced` | `TypeOK`, `NotOverdue`, `AnnouncedOnThreshold`, `ResolvedOnThreshold`, `RemindersSpaced` | |
| `ExternalEndpointProofs`: `ConsistentBetweenHandlers`, `AlertSentOnce`, `NothingCountedIsLost` | `ConsistentAtRest`, `SentOnce`, `CountersAccumulate` | |
| `WatchdogProofs`: `PermitsAreBalanced`, `StoppedMeansStopped` | `PermitsBalance`, `NothingStartsWhileStopped` | |
| `SuiteProofs`: `CleanupAlwaysRuns`, `FailureStopsTheRest`, `SuccessIsEarned`, `ValuesAreFresh` | `CleanupRuns`, `StopsAtFirstFailure`, `SuccessMeansAllPassed`, `NoStaleValue` | |
| `StoresProofs`: `StoresTyped`, `NothingPilesUp`, `EventsTellTheChanges`, `CacheShowsTables` | types, `Bounded`, `EventsAreTheLatestChanges`, `CacheMatchesTables` | |
| `ImplementsPromise` | both stores implement `StatusHistory` | |
| `PartsProofs`: `TunnelShared` | `TunnelIsShared` | |
| `AnswersStayFresh` | `AnswersAreFresh` | a timeout is no longer than the interval |
| `ConfigurationApplies`, `EveryoneTold`, `IncidentsAreClosed` | `SentAsConfigured`, `SuccessMeansEveryoneTold`, `ResolutionClosesIncident` | |
| `RetrievedInTime`, `HealthyWasReached` | `RetrievedBeforeUse`, `HealthyMeansReached` | |
| `PagesAreComplete` | `PagesMissNothing` | |
| `HoursAreCountedOnce` | `UptimeSurvivesMerges` | |
| `AlertsHeldBackAsScheduled` | `MaintenanceAsScheduled` | `AwayFromMidnight`: the clock is moved neither over a midnight nor in the hour before one |

The remaining column is empty where only the assumptions on the constants are used,
which every run evaluates.

**Alerting.** `RowsMatchTriggered /\ TriggeredMeansAnnounced` is not inductive: a step
that persists or reports relies on what the step before did to the alert at `cur`.
`HandlerInv` adds it: while persisting, the alert is triggered; while reporting, it is
not and was announced. `Implements` takes for `open` the flags while the process runs
and the rows while it is down (`OpenIncidents`). `Crash` may only forget (`Forget`),
because rows belong to triggered alerts; `Restart` may only forget, because what it
loads were rows; sending, resolving and reporting are the abstract actions of the alert
at `cur`. `ReliableStore` (store calls return no error) and `DistinctChecksums` (the
store can tell the alerts of the endpoint apart) are needed: with a failing delete a
restart re-opens a closed incident, and without distinct checksums
`alerting_shared_checksum` violates even `TriggeredMeansSent`, which asks of the flags
only what `TriggeredMeansAnnounced` asks of flags and rows.

**AlertingHistory.** The thresholds are about what really happened, the code about its
counters, so the invariant of the first process says that they agree (`RunInv`;
`failures` lags behind while a success is handled), that no alert which the loop has
passed is overdue (`OverdueInv`), and that nobody was told anything since the time
that the endpoint remembers (`SpacingInv`; the handler's copy of it says that only of
the alerts that the loop has not come to). No store has to be reliable for that.

**ExternalEndpoint.** While `disturbed` is false at most one handler is at work
(`Alone`). `RestInv` holds between two of them; `CountersInv` and `AlertInv` say of
every step of a handler what it has copied, counted, sent, marked and written so far.
A step of a second handler makes `disturbed` true, which is all there is to its case.

**Watchdog.** `PermitsBalance` needs the executions that hold a permit to be finitely
many (`PermitsInv`), for there may be infinitely many monitors; that generations are
never more than edits (`ReloadInv`), so that each has a semaphore of its own; and the
order in which things are replaced: a generation's semaphore is in place before any of
its goroutines starts (`PlacedInv`), so a goroutine reads semaphores at least as new as
itself, and never an older one than before (`OrderInv`). An execution that acquires from
one and releases another therefore releases a newer one, which is why the semaphore in
place never loses a permit and why no goroutine of the newest generation does this. That
nothing starts while everything is stopped follows from `ContextInv`: all contexts are
cancelled then.

**Suite.** `LoopInv` relates the results so far to the endpoints before `at`: all of
them, or those that always run once one has failed. `ContextInv` says where a value
that the context has now can come from, and `ErrorsInv` that the timeout was seen
once at most.

**Stores.** `ResultLogProofs` has the lemmas about sets of numbered results: which are
the newest, what a trim leaves, which outcomes changed, and how all of that moves when
one result is added. `HistoryInv` says that what is kept is at least the newest part
of the history, `EventsInv` that the events are the end of the list of changes. For a
transaction, `WriterInv` and `QuietInv` say that what it has computed from the tables
(the rows to delete, the events to add) is what it would compute now, unless another
one for the same key came in between; `AloneInv` and `FreshInv` say the same of the
cache, under the name of the insertion that may change it next. The refinement then
follows from the rows alone. Nothing is assumed about the order of transactions: where
two for one key overlap, the history variables `overlapped` and `unsettled` say so.

**Parts.** `TunnelShared` counts trouble against attempts (`TroubleInv`: as much
trouble as attempts, one more if the connection that a check holds is gone).
`AnswersStayFresh` needs that what is stored is at most a timeout older than the time
stored with it, unless a call is between the two assignments (`PairInv`). For the
providers, `TableFacts` checks the 41 rows of the table once; the rest is about any
row that is right: that `GetConfig` is what `MostSpecific` says, that the key of an
incident is that of the one that is open (`KeyInv`) and that the neighbour's is left
alone (`NeighbourInv`). In `Evaluation` the invariant says at each stage what was
retrieved and that a text which was not still reads as its default.
For the loops over recipients, that the first `turn - 1` of them were told is what makes
`SuccessMeansEveryoneTold` inductive.
For the pages, `WrappedFacts` is all that is used of the arithmetic of machine words:
a wrapped integer differs from the true one by a multiple of the word. Unless it wraps, a
page of either store is what that store has `Between` two numbers. What a reader has
read is everything that is kept, down to a number that its page has not passed
(`ReaderInv`); insertions only move pages away from it.

For the uptime, `EntriesInv` says that the hours that an entry sums up lie in one day,
its own, that nothing of the last two whole days has been merged, and that every hour
that a question may still ask for is in one entry: `AddTo`, the merge and the deletion
each keep that, at whatever number of entries the merge begins. For the windows,
`DaysInOrder` and `ClockFacts` describe a week with a day that is an hour longer or
shorter; a window begins at its start, give or take that hour (`BeginsOnTime`), and what
`StartDay` decides by comparing hours is what comparing times would decide, the hour of
the start excepted (`HoursInOrder`). `AwayFromMidnight` is a hypothesis of the theorem, not
something that the code checks; of a country that moves its clock at 0:00 nothing is claimed.

**What the proofs changed.** `MostSpecific` was a `CASE` whose guards overlap, which
TLA+ leaves open and TLC resolves to the first: the proof that `GetConfig` agrees with
it failed until it was written as nested conditions, and the guards of
`SQLStore.Settle` were made disjoint for the same reason. `Tunnels` had no assumption
that there is at least one retry, without which a check gives up without trouble;
`Paging` and `Maintenance` had none on their constants either.

**Only model-checked.** Liveness (`AnnouncedEventually`, `ResolvedEventually`,
`RemindedForEver`, `SilenceIsAnnounced`, `ValidUpdateResumes`, `OldLoopsStop`,
`EveryMonitorServed`, `LatestContentUsed`, `CallsReturn`), since TLAPS does not reason
about `ENABLED`; and the
violations of section 3, which are counterexamples.

## 6. Not modelled

- Metrics, authentication, the web server, the front-end and the parsing helpers
  (`jsonpath`, `pattern`): library code, presentation and strings.
- The protocols of the clients and the wording of notifications: a call is an outcome,
  a notification the settings it was sent with and the people it reached.
- The cache of whole responses in the API, badges and charts: what they show is
  `Uptime` and `Paging`, up to ten seconds old.
- The autosave of the store package: `Initialize` never starts it, and `Save` does
  nothing in either store.
- Validation of the remaining sections of the configuration, remote instances and
  announcements; nested keys and deep copies of the context of a suite.
- A transaction on the store of an old configuration that outlives the reload
  (`main.go:232`).
- `Clear` of both stores, which only tests call.
- A `DELETE` of old rows that fails while the insertion goes on (`sql.go:311,328` only
  log it), so that more rows than the slack allows may be kept.
- Time zones whose clock is moved at midnight: `time.Date` may return 23:00 of the day
  before, and `maintenance.go:114-116` then picks the wrong weekday.
- Services that list no more than a page of issues. Sends that reach some recipients
  before they are refused are in `Providers`, but not in `Alerting`.

## 7. Plan

1. **Composition.** `Stores` with the goroutines of `Watchdog`, so that a reload meets an
   open transaction, and the proof that the promises of both survive it.
2. **Context.** Nested keys, `Set` over a value that is not a map, and the deep copy of
   `gontext.go`, on small trees.
3. **Proofs.** No invariant, action property or refinement of a passing run is left
   without a theorem; what the first two steps add should not be either.
