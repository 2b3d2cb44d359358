# Kufar Monitor: a verification project

Kufar Monitor is a desktop application (Electron, TypeScript, PostgreSQL, pg-boss, grammY). A
worker process runs *monitors*: saved searches on kufar.by that are read on a schedule, whose
new listings are matched against keywords and reported over Telegram. This directory holds TLA+
modules of its control logic, the TLC runs that check them on small instances, and theorems
checked by TLAPS. Paths below are relative to the repository.

## The system

| Component | State it keeps | Operations | Talks to |
|---|---|---|---|
| Run executor (`electron/worker/scheduled-monitor-run.ts`, `monitor-cycle.ts`) | a row of `Run`, an advisory lock | lease, admission, cycle, failure journal | scheduler (calls it), PostgreSQL |
| Lease (`monitor-run-lease.ts`) | a PostgreSQL session per lease | try, release | PostgreSQL |
| Orphan recovery (`monitor-run-recovery.ts`) | none | interrupt unfinished rows at start | lease, PostgreSQL |
| Cold start (`cold-start-*.ts`) | `MonitorCursor`, listings | baseline, verified store | source, PostgreSQL |
| Incremental run (`incremental-monitor-run.ts`, `watermark-traversal.ts`, `monitor-run-persistence.ts`) | watermark and catch-up checkpoint of `MonitorCursor`, listings, matches | traverse, resume, describe, select, commit | source, description cache, PostgreSQL |
| Description cache, budget (`listing-description-cache.ts`, `description-request-budget.ts`) | listing rows, requests in flight, a counter per run | ensureDescription | source, PostgreSQL |
| Monitor configuration (`monitor-config-persistence.ts`, `monitor-config-sync.ts`) | `Monitor` | create, set state, edit | lease, scheduler, PostgreSQL |
| Scheduler (`monitor-scheduler.ts`, `pg-boss-schedule-queue.ts`) | `workerIds`; schedules and queues of pg-boss | start, reconcile, syncMonitor, stop | pg-boss, executor |
| Worker runtime (`runtime.ts`, `worker-application.ts`, `index.ts`) | started, shutdownRequested | serve a message, start, stop | all of the above, main process |
| Worker supervisor (`electron/main/worker-supervisor.ts`) | current worker, restart timer and count, Telegram token, tables of pending calls | spawn, call, configure, restart, shutdown | worker by messages |
| Bootstrap (`infrastructure-bootstrap.ts`, `bootstrap-retry.ts`, `index.ts`) | boot phase | run, retry, report, quit | Docker, migrations, supervisor, renderer |
| Telegram bot service (`telegram-bot-service.ts`, `grammy-telegram-bot.ts`) | token, transport, generation, reconnect timer, candidate, bound chat | configure, resume, bind, send, stop | Telegram, PostgreSQL |
| Telegram outbox (`telegram-outbox-*.ts`) | pg-boss jobs, `notifiedAt`, `notificationSendingAt` | deliver, retry | bot service, PostgreSQL |
| Kufar source (`kufar-http-client.ts`, `kufar-rate-limiter.ts`, `kufar-resilient-source.ts`, `kufar-html-fallback-adapter.ts`) | limiter chain, cadence, cooldown | get, schedule, impose a cooldown, fetchPage, fall back | kufar.by, executor (what a failure does to the job) |
| Local database (`docker-postgres.ts`, `dockerode-postgres-adapter.ts`, `postgres-config.ts`, `prisma-migrations.ts`, `infrastructure-runtime.ts`) | credentials file, container, volume | load or create, inspect, create, start, wait, migrate | Docker, bootstrap |
| Telegram secret (`telegram-secret-store.ts`, `telegram-main-runtime.ts`) | a file with the token and its protection | read, write, configure | settings page, supervisor |
| Boot screen (`app/lib/boot-screen-*.ts`, `app.vue`) | phase shown, a timer, which view | subscribe, ask, forward, hide, show, retry | bootstrap by IPC, pages |
| Pages (`app/pages/index.vue`, `monitors.vue`, `settings.vue`) | lists, request numbers, the field, consent | refresh, change, verify, save | worker and secret by IPC, router |
| Text rules (`kufar-search-normalizer.ts`, `listing-matcher.ts`, `matching-*.ts`, `shared/kufar-url.ts`) | none | pure functions | - |
| Scripts, documentation checks | files | - | - |

What is hard in it:

* **Concurrency.** Every `await` of the worker is a point at which another handler runs: a job,
  a request of the user, the start that is still going on. Two workers may live at once, and
  exclusion between them rests on a PostgreSQL advisory lock that belongs to a session.
* **Crashes.** A worker dies at any point; sessions outlive it for a while; rows say `running`.
* **Moving input.** The feed changes between two pages, has ties, and is cut by a page cap.
* **Messages.** The desktop process and the worker share nothing but messages, some of which go
  down with the process that sent them.
* **Answers that come late.** A page of the window asks again before its last request was answered,
  or is gone when the answer comes; another run of the worker asks for the description a first one loads.
* **Things outside.** Docker, the credentials file and the secret file survive the process, are left half
  written by it, and are shared with a second desktop process that nothing prevents.
* **Time-outs.** Restart delays, the five seconds a worker has to stop, retries of pg-boss.

What makes each component correct is said by the properties below; `PROJECT.json` lists the
hazards at their lines with the properties that watch them.

## The modules

`RunJournal` and `FeedWatch` (specifications of a promise) <- `MonitorRun` and `Traversal` (implement them). `Traversal`,
`MonitorScheduler` and `WorkerSupervisor` each model one level of the program: what a run does,
how runs come about, and how the process that runs them comes about. `TelegramBot` -> `TelegramOutbox`
(extends it) model how a match is reported. `KufarSource` models what runs that overlap ask of the site.
`DesktopBoot`, and `MonitorPages` -> `SettingsPage` (extends it), are composed by `DesktopApp`: the
desktop processes on a host and the window of one of them. `MC*` modules give the constants values; `*Proofs`
modules hold theorems.

### MonitorRun

One action is what the code does between two awaits; a transaction is one action because it
locks the `Monitor` row first. `pc` names the await an invocation stands at, `ctx` its local
variables.

| TLA+ | code |
|---|---|
| `state`, `source`, `cursor`, `run` | `Monitor.state`, `Monitor.query` with `sourceUrl`, the `MonitorCursor` row, the `Run` table |
| `lease` | holder of the advisory lock; `Lingering` is the session of a dead process |
| `StartJob`, `RunStep` | `createScheduledMonitorRunExecutor` from the lease to the release: skipped overlap, admission, cold start or incremental cycle, failure path |
| `StartSetState`, `StartEdit`, `ConfigStep` | `setMonitorStateAndSync`, `updateMonitorConfigAndSync` |
| `Spawn`, `RecoveryStep` | a worker's start and `recoverInterruptedMonitorRuns` |
| `Crash`, `SessionEnds`, `SessionDropped` | the death of a worker; PostgreSQL ending a dead session, or taking the lock back from a living client |

Listings are reduced to the time of the newest one: here only *when* a cursor was taken matters.
`CursorMatchesSource`'s source and `restoredAt` are history that the rows do not carry.
One invocation at most edits a source (`ASSUME OneEditor`). `updateMonitorConfigAndSync` itself has no such restriction
(`monitor-config-persistence.ts:204`); nothing that is deployed calls it with a new source today. What is said of
edits - `CursorMatchesSource` in the run and in its theorem - holds under this assumption.

### Traversal

The reading of the feed by the runs of one monitor, which follow one another. Listings are
numbered by publication, `TimeOf` gives their time with ties. A number is a place in the feed and `listId` says what stands there:
a listing that its seller raises (`Raise`) leaves its place for the next one, with its list id and a newer time, and is to be reported again,
even when it is one of the baseline or was reported before (`watermark-traversal.test.ts:473`); the
match row itself is the one it had, `update: {}`. Within a traversal a list id
is taken once (`Fresh`), and its description is loaded once (`Undescribed`). That a raised listing is also shown at its old place for
a while, as in that test, is not modelled. The opaque page cursor leads to the
listings older than the last one shown or somewhat higher (pages overlap, `MaxSlip`). `BaselinePage`
is `traverseColdStartBaseline`, `IncrementalPage` and its helpers `traverseWatermark`, `FromCheckpoint`
and `CursorRefused` `traverseWithRecovery`, `Describe` the description loop with cache and budget,
`Store` and `StoreBaseline` the commits. A description budget that runs out and a failing request end the run; the cache stays.

`FeedWatch` is what it comes to, and all that the rest of the program relies on: the listings `passed` by the stored
watermark (`Passed`), which no later run looks for, were reported no later than they were passed, belong to the one baseline, or left
their place; a listing is not passed before it is published, and one that is raised is published anew; what is passed stays so; nothing
of the baseline is reported at the place it had.

### MonitorScheduler

`MonitorScheduler.start`, `syncMonitor`, `stop` and `reconcile`, one action per pg-boss call. pg-boss
is external and modelled from its use: `work` makes a poller, `offWork` with `wait` returns when the
poller's job has ended, a schedule leads to a job at any time. A *task* is `start()` (`Starter`),
`stop()` (`Stopper`) or a request of the runtime's listener, which serves before the start has ended.
A monitor's job is the executor: it takes the lease or returns at once. Refused requests are no step.
Monitors do not influence each other but for their order in the start loop; the runs use one.

### WorkerSupervisor

Main process and worker processes with a queue of messages in each direction. `HandleExit` drops what
the dead process had posted and the supervisor had not handled: every loss the event loop permits is a
later `HandleMessage` that does not happen. `boots` are invocations of `runBootstrap`; `UnexpectedFailure`
is `reportUnexpectedFailure`, which shows the error screen and with it the retry button in any state. The
six kinds of calls of the supervisor behave alike and are one `Call`. Restart delays are left out: a timer
fires at any time. After quit nothing happens (`Terminated`), and fairness asks for nothing. A worker that is killed is gone at once.

### TelegramBot and TelegramOutbox

`TelegramBot` has the service's variables (`gen` is `lifecycleGeneration`) and, in `calls`, the calls that wait
at an await: for the old transport to stop, for `getBoundChatId` to read, for its answer. `bots` are the
runners that are alive, so that an old one that is still being stopped is seen beside a new one; its updates
still reach the handlers. A call that has nothing to stop goes on in a microtask and no event comes between
(`NoMicrotask`). What the main process does not do is left out: `configure(null)` is only the first call of
a worker, and bindings follow one another because the settings page waits.

`TelegramOutbox` adds the queue, one action per await of `createTelegramOutboxDelivery` (`Look`, `Check`, `Peek`,
`Check` again after the pause, `MarkSending`, `Send`, `Answer`, `MarkNotified`), and the life of the worker: crash, restart, the
token in answer to `ready`, shutdown in the order of `WorkerApplication.stop`. pg-boss is external:
one job at a time, `RetryLimit` retries, expiry of a job whose process is gone or whose handler takes too
long; the late handler goes on beside the new attempt. `Enqueue` stands for the producer, which is not in
the repository yet. `reasons` is history: why an attempt ended its job for good. A chat that is not the bound one is `elsewhere` if there is a bound
one. If there is none, it is `early` while the service does not know better (`InDoubt`: no token yet, a call of its
lifecycle under way or overlapped, a binding being stored, a setting that could not be read), and else `unbound`.

### KufarSource

The requests of the runs of one worker process; the runs of different monitors overlap, because every queue has
a poller of its own.

| TLA+ | code |
|---|---|
| `queue`, `delay`, `since`, `cooldown` | the promise chain `RateLimiter.tail`, the cadence its first one drew, the time since `lastStartedAt`, what is left of `cooldownUntil` |
| `call`, `Get`, `Take`, `Start`, `Respond`, `Repeat` | one call of `KufarHttpClient.get` per run: queued, its turn, under way, waiting to be repeated, answered; `Retry-After` |
| `PageRead`, `HtmlRead`, `Mark` | `KufarResilientSource.fetchPage`: primary, fallback, `degradedLevel` |
| `Describe`, `Lookup`, `DetailRead`, `Store`; `filler`, `stored`, `spent` | `ListingDescriptionCache` with its table of requests in flight, the listing row, `DescriptionRequestBudget` |
| `Ends` with `Fails` or `Stops`, `tries` | what the executor rethrows or swallows, and what pg-boss does then |

Time is a counter: `Tick` moves `since` and `cooldown` together. `quiet` is history, the pause Kufar itself asked for;
`Paced` compares the limiter with it. A run reads one page: the pages after it are the same calls (Traversal has them). Left out are
the untimed pause before a repetition (it ends when it ends), the date form of `Retry-After`, snapshots on disk, and a crash of the worker,
after which the limiter starts without memory.

### DesktopBoot, MonitorPages, SettingsPage, DesktopApp

`DesktopBoot` is `runBootstrap` in each of several desktop processes, one action per call to the file system or to
Docker, over one `credentials` file, one `container` and one `volume`. What is told apart is the password: in the file, in the
container's environment, in the volume since its first start. The file exists and is incomplete (`Torn`) between its
opening and its writing. Processes die, Docker stops, a user removes the container, then the volume.

`MonitorPages` has the window's `route` and mounted `page`, and the `row` of a monitor: its state, how many runs it had, and whether the last
one is `running`. A page numbers its requests and takes only the
answer to the last (`IsLatest`). `strays` are requests of a home page that has been left: nobody unmounts their continuation,
and it may navigate. `news` is what the worker sent and the window has not handled, events and results in one order;
`change` is the call of `createMonitor` or `setMonitorState` under way. `ReadLive` and `ReadArchived` are the two queries of a list.
Changes of the row that no event announces are actions as well, and `silent` says which part of it they changed since lists were asked
for last: the start of a run (`RunStarts`), the end that only a later worker's recovery records, or another process's worker
(`RunEndsUnheard`), a state changed by another desktop process (`ChangesElsewhere`) or committed and reported as failed
(`CommitsUnannounced`). A state that changes under a running run is let happen though its own worker refuses it: a second one may do it.

`SettingsPage` has the `secret` file, broken from opening to the end of writing, the supervisor's token (`configured`),
and the `saves` on their way: verified, checked, written, configured. A page that was left no longer owns its saves
(`mine`), and they go on. The file is shared: another desktop process writes it, too (`SavesElsewhere`, in `DesktopApp`), and tells only its own
supervisor.

`DesktopApp` puts them together: `mail` are the phases on their way to the window, `asked` its question for the phase, `timer`
and `view` the visibility controller. Showing the boot screen unmounts the page, hiding it mounts the page of the route. A worker that
has given out rejects calls. Left out: the editing of monitors, forms and layout, and the binding of a chat (TelegramBot has it).

## The runs

| run | shows | instance |
|---|---|---|
| `monitor_run` | `OneOwnerPerMonitor`, `LiveRunStaysRunning`, `OutcomeIsFinal`, `WatermarkNeverRegresses`, `LeaseComesFree`, refinement of `RunJournal` (`KeepsRunJournal`) | two workers with a job handler each, three run rows, two feed times |
| `monitor_run_config` | `TraversedMonitorIsActive`, `CursorMatchesSource`, `NoBacklogAfterRestore` | one worker: a job handler, a state request, an edit, two sources (symmetric) |
| `monitor_run_orphans` | *violation* of `StartupRecoversOrphans` | the same; sessions end before a restart |
| `traversal` | `TypeOK`, `NothingMissed`, `BaselineStaysSilent`, `WatermarkGrows`, `CatchesUp`, refinement of `FeedWatch` (`KeepsFeedWatch`) | five listings with two ties, pages of two, two pages and two descriptions a run, two troubles (failures, overlapping pages, listings taken down or raised), cursors that expire |
| `scheduler` | `ScheduleFollowsState`, `RequestsAreAnswered`, `StopEnds` | one monitor, schedules left behind, two requests at once, a failure or crash |
| `scheduler_stale` | *violation* of `ActiveMonitorsAreScheduled` | one request |
| `supervisor` | `OneWorker`, `ReadyMeansServed`, `ConfigurationArrives`, `WorkerIsGone`, `CallsSettle`, `QuitEnds` | two processes, one restart before fatal, two accidents, one unexpected failure, two tokens, one call |
| `telegram` | `OneConnection`, `ShownIsTrue`, `NotifiedMeansSent`, `RepeatsAreExplained`, `DoneMeansHandled`, `JobsSettle`, `ConnectionReturns` | a token, one that Telegram refuses, a chat, a match, one retry, one request of the user, two failures or crashes |
| `telegram_loss` | *violation* of `NoMatchIsLost` | one token, chat and match |
| `kufar_source` | `DetailIsFetchedOnce`, `Paced`, `RunsComplete` | two runs, two listings, two attempts a call, one retry of a job, one description a run, three troubles |
| `kufar_retry` | *violation* of `RefusalEndsTheJob` | one run, one listing |
| `desktop_app` | `OneSetOfCredentials`, `ScreenFollowsPhase`, `PagesShowTheDatabase`, `ConsentIsForTheTokenShown`, `SecretIsConfigured`, `ServedInTheEnd` | two processes, two tokens, at first no monitor, then one and a run of it, three incidents |

Why the bounds suffice. Exclusion, recovery and overlap need two actors on one monitor; a third run row
lets a new run start while an orphan is left and another is being recovered. A revision is reused only
when nobody remembers it, so `MaxRevision` above the number of those who may is no restriction. In the
feed, a cut needs more new listings than pages times page size, a resumed cut one more, and a tie has
to straddle a page; five listings and pages of two have all three. The scheduler's third poller lets
one be on its way out while a second is leaked and a third registered. For the supervisor, one restart
before fatal and two accidents reach fatal, retry, and failure of the retried bootstrap. In the Telegram
modules the configuration of a new worker and one request more (a token saved, a computer woken) already
overlap; two failures are a doubtful send and what befalls the attempt after it. In `kufar_source` a budget
of one description for two listings makes every run start over at least once, two runs share what one of them loads, and three
troubles lose an answer twice, so that the client gives up and falls back, and fail once more. In `desktop_app` an incident is an accident, a
failure, a second process, a navigation, a change of the monitor by the user or another process, the start of a run, or another process's
save; typing, verifying, agreeing, repairing and the end of a run are free. Creating the monitor is one of the three. Three of them let one
process die in the middle of what another one does and a third thing go wrong, and let two lists be asked for and answered in the other order.
Larger instances were run without liveness or with other bounds: two chats, two requests with one failure.

Bounds that shape behaviour: `MaxRuns`, `MaxTop`, `MaxListing` end the world the system works on;
`MaxAsked` and `MaxSaves` count requests of the user; `MaxTrouble`, `MaxUnexpected`, `MaxIncidents` and `MaxSlip` count accidents;
`MaxPollers`, `MaxProcesses`, `MaxPasswords` and `MaxRequests` count things alive
at once; `MaxUnread` and `MaxMail` hold back a call or a retry while messages are unread. `desktop_app` does not check deadlock: with the incidents
used up a window at rest has nothing left to do; nor do the Telegram runs, where every job may be settled and the worker stopped.

**Fairness.** Weak fairness of the steps of an invocation: the event loop runs and every call the code
awaits either returns or fails (the Kufar client has time-outs and bounded attempts, pg-boss and Prisma
fail on a lost connection). Nobody is obliged to make a request, to retry a bootstrap, to crash, or to
publish a listing. In `Traversal`, `Run` is fair as a whole: cron brings the next run, and the source may
fail only `MaxTrouble` times. `WorkerSupervisor` assumes nothing of a worker's start (`Started`) and
end (`Stopped`): quitting ends by the time-out if they never come. Its fairness ends with the process (`~quit /\ ...`): what is unhandled when
the application quits stays so. In `TelegramOutbox`, statements, requests to
Telegram and runners being stopped come to an end, the queue is polled and jobs expire, timers fire, and the
supervisor answers a `ready`; `JobsSettle` and `ConnectionReturns` speak of a worker that stays up. In `KufarSource` time passes, a schedule is
due again and again, and a request has time-outs for connecting, headers and body. In `DesktopApp` the calls of a bootstrap end (each has a time-out), messages
arrive, the timer fires, and a user who sees an error presses its button, after removing a file the error complains about; nothing is assumed
of users otherwise.

## What the properties leave out, and why

* `SessionDropped` - the database ends the session of a living client - takes the lease away under a
  traversal. The ownership properties make an exception for such a monitor (`dropped`); `CursorMatchesSource`
  and `WatermarkNeverRegresses` hold even then, by the revision check.
* `ScheduleFollowsState` excepts a monitor whose last reconciliation failed (`failed`) or that two tasks
  reconciled at once (`contended`): there the code gives no guarantee before the next start or request,
  and `scheduler_stale` shows what can come of it.
* `OneWorker` and `WorkerIsGone` say nothing after an unexpected failure: the retry button then starts
  a second bootstrap over a running worker or an armed timer, and `start()` spawns unguarded
  (`worker-supervisor.ts:572`). `ReadyMeansServed` holds even then.
* `ShownIsTrue` speaks of lifecycle calls that do not overlap (`overlapped`) and a setting that was read
  (`unsure`). When they do overlap, `resume` during `configure`'s read leaves `starting` published over a running
  transport, and a message of a bot that is being stopped publishes `connected` for a service that is not.
  `OneConnection` and `ConnectionReturns` hold even then. What does not: a second call finds no transport, does
  not wait, and starts polling beside a runner that is still being stopped.
* `CallsSettle` speaks of calls as long as the application runs. A call is taken after the shutdown has begun, too
  (`worker-supervisor.ts:618-626` does not look), and the process may quit before its answer or the worker's exit is handled:
  then the call is left without an answer, in the code and in the model.
* `DoneMeansHandled` excepts `early`: a job whose attempt found no bound chat because the service had not read it yet is completed
  without a message, as if the reason were to last (`telegram-bot-service.ts:289`). It is the one passing condition that completes a
  job, and what `NoMatchIsLost` is about (`telegram_loss`). The other passing conditions only ever make a job fail, and only
  after the last of its tries; that its match is not reported then is what the retry limit decides.
* `BaselineStaysSilent` and `NothingMissed` speak of a listing at its place: one that is raised counts as published anew.
* `RepeatsAreExplained` excepts a match whose job expired under a running attempt (`expired`): two attempts then
  overlap, both may look before either marks, and the double is in no journal.
* A checkpoint whose page cursor Kufar has forgotten is asked for again by every later run
  (`traverseWithRecovery` starts over only for an ordering error, `incremental-monitor-run.ts:170`, as
  `docs/tasks/1-4-5-checkpoint-recovery.md:37` has it): `CatchesUp` excepts it (`expired`).
* `PagesShowTheDatabase` excepts what changes without an event, until the page asks again (`silent`), and nothing makes it ask. For the last run that
  is its start (`scheduled-monitor-run.ts:181`: a page at rest does not say that a run is going on), and its end if the worker dies
  before it has said so, which startup recovery records and does not announce (`worker-application.ts:191`), or if the run was another
  process's. For the state it is a change by another desktop process, and one that was committed and reported as failed. An error
  text that the answer of an older refresh removes is not missed either.
* `SecretIsConfigured` excepts, until the next start, saves that overlapped, a write that failed, and another desktop process's save while
  this one runs (`clash`): two saves under way write the file and configure the supervisor in either order, and nobody tells one
  process of another's save. Saves of another process while this one is off are covered.
* `ConsentIsForTheTokenShown` allows the warning to stand without a token: a save that fails after consent
  leaves it, with a button that does nothing (`settings.vue:63`, `:95`).
* Not reached by the models: listings published with a date in the past, an empty baseline taken while
  the local clock runs ahead of Kufar's, a commit that succeeds although its acknowledgement is lost.
* A monitor restored from the archive has its cursor removed; a paused one keeps it and reports what
  was published meanwhile. This is what the code intends and the model follows it.

## Disagreements found

`PROJECT.json` lists them with the quoted lines.

1. A state request served while recovery runs hides an orphan from it (`monitor_run_orphans`).
2. A monitor activated while `start()` works through its list loses its schedule (`scheduler_stale`).
3. A job that is taken before the Telegram configuration has arrived ends as done, and its match is never reported
   (`telegram_loss`). It needs no failure: every restarted worker starts its outbox before it gets its token.
4. A 429 that the HTML fallback meets is wrapped as a failure of the run, so pg-boss sends the job again, where tests and
   contract say that a 429 ends it (`kufar_retry`).

Met while reading, without a run:

* `docs/superpowers/specs/kufar-api-contract.md:441` has the traversals of different monitors follow one another. They overlap: every queue
  has its own poller, and only requests are serialised. `KufarSource` models the overlap.
* A new run does not always start from a new budget, as `docs/tasks/1-5-3*` has it: a run that joins another's request fails with that
  one's exhausted budget. `RunsComplete` holds nevertheless.
* A URL with `cmp=0` and nothing else is built as `/l/bez-posrednikov`, which the parser takes for a region
  (`docs/tasks/2-3-1-seller-type-request.md:52`); and `previewMonitorUrl` (`monitor-create-model.ts:24`) calls URLs valid that
  `buildKufarApiUrl` rejects.
* A home page that was left may still navigate to the monitors (`index.vue:28`): `strays` does, in the model too.

## The proofs

TLAPS proves the following for all values of the constants that satisfy the modules' named assumptions,
in particular for any number of workers, invocations, monitors, calls and accidents.

`MonitorRunProofs`

* `TypesHold`: `TypeOK`. It is not inductive: which steps an invocation may stand at and what its local
  variables hold there (`InRun`, `InSetState`, `InEdit`, `InRecovery`) has to be carried along (`TypeInv`). Every action
  has a lemma that says what it moves (`Effect`), so that the invariants below need not look at actions
  that do not touch them.
* `OneOwner`: `OneOwnerPerMonitor`, from `LeaseNamesHolder`: whoever is past the lease is the one the lock
  names. A crash frees the invocations of a process and its locks together, and the lock of a dead session is
  nobody's until PostgreSQL ends it.
* `LiveRunsStayRunning`, `OutcomesAreFinal`: from `OneOwner`'s invariant, because a row is finished only by the
  invocation that owns it or by a recovery that holds its monitor's lease.
* `TraversedIsActive`: the state read under the lease cannot change while it is held, since state requests
  take the same lease, and an edit writes no state.
* `RunJournalIsKept`: `KeepsRunJournal`, the refinement of `RunJournal`. `Journals` sorts what an executor does to the table into the four things the
  promise knows; the guards of `Begin`, `Finish` and `Interrupt` follow from `LeaseNamesHolder` and `LiveRunStaysRunning`, and that
  an end takes one owner away from `RowHasOneOwner`, which holds with dropped sessions as well.
* `LeasesAreNotLeaked`, `HandlersEnd`: what `LeaseComesFree` rests on. A lease names an invocation that still works under it
  (`NoLeaseIsLeaked`, with dropped sessions as well), and every step of a handler, failures and refusals included, goes to a label from which
  fewer steps are left, keeping the lease or giving it back (`GoesOn`, `HandlersCountDown`). That these steps are taken is fairness.

`MonitorCursorProofs`

* `CursorsMatch`, `NoBacklog`, `WatermarkMovesForward`: `CursorMatchesSource`, `NoBacklogAfterRestore` and `WatermarkNeverRegresses`
  from one invariant, `CursorInv`. A cursor's revision tells by itself what the cursor is: whoever remembers a
  revision that the row still has remembers its source and boundary (`SnapshotIsCurrent`). A baseline begun before a restore
  cannot be stored after it, because a restore takes the lease (`BegunSinceRestore`, with `LeaseNamesHolder`), and an edit or a request that is about
  to commit knows what it would reset (`EditIsCurrent`, `RequestIsCurrent`).

`TraversalProofs`

* `TypesHold`, `NothingIsMissed`, `WatermarkOnlyGrows`: `TypeOK`, `NothingMissed` and
  `WatermarkGrows` from one invariant, `IInv`, for every feed, every order of ties, page size, page cap and budget.
  `NothingMissed` speaks of the stored watermark only. To keep it, a watermark that may be stored one day has to be sound as well: the
  maximum of a traversal passes nothing but what is stored, found, or below the cursor of the next page (`PageIsSound`); the same
  holds for the pending watermark of a checkpoint, where a later run resumes (`Sound`), and for the row a run is about to store
  (`NextIsSound`). A watermark is `Grounded` when it is made of listings that have been published: then a listing published later,
  even at the same time, is not dealt with (`PublishedLater`), and the moving feed does no harm. The baseline is sound because the tie at
  its newest time is closed before it is stored (`BaselineIsSound`): a listing published while it is read is either read, or not dealt with
  (`TieKeepsAccount`), and one on show when it began is dealt with, gone, or still to be read (`BegunIsRead`).
  The lemmas below these say what a page is: the top of what its cursor leads to, so that nothing on show is skipped (`PageIsTop`,
  `NothingIsSkipped`), and that of what overlapping pages show again only list ids not in `seen` are taken up (`Fresh`). Assumed: listings are numbered as they are listed
  (`PublishedInTimeOrder`) and `None` is no record (`NoneIsNoRecord`).
* `BaselineIsSilent`: `BaselineStaysSilent`, from a second invariant about list ids, `FeedInv`. Of two places of one list id the lower has been left,
  and is the older one (`Superseded`). A traversal does not read a listing that stays on show at another place (`ShownOnce`), and one it
  passes over for its list id was raised after it was read, beyond the watermark to come (`RaisedIsNews`): the next run finds it.
  What is reported, or will be, of a listing of the baseline has a later place than it had there (`NewsIsLater`).
* `FeedWatchIsKept`: `KeepsFeedWatch`, the refinement of `FeedWatch`, from `IInv` and `FeedInv`. Publishing, raising, taking down, `StoreBaseline`
  and `Store` are the five things the promise knows; every other step, failures and refused cursors included, leaves it alone.
* `RunsEnd`: every step of a run lowers `StepsLeft`, a number that is `LongestRun` at most: a run ends, also when its checkpoint is
  refused and it starts over from the top. `CatchesUp` rests on it.

`WorkerSupervisorProofs`

* `TypesHold`: every variable and every message on the wires.
* `ReadyScreenIsServed`: `ReadyMeansServed` is inductive on its own.
* `OneWorkerAtATime`: `OneWorker`, from `OneWayToAWorker`: without an unexpected failure there is one bootstrap, or
  one worker, or one timer, or the error screen, and never two of them.
* `WorkerGoneAtQuit`: `WorkerIsGone`, from the above and two facts: a worker that has said `shutdown-complete` has ended
  (`CompleteMeansGone`), and once a worker has been asked to stop there is no bootstrap, timer or error screen left
  from which another could start (`NothingStartsAfterStop`).
* `LatestConfigurationArrives`: `ConfigurationArrives`, from `SentIsLatest`: the last configuration on the wire to a worker is
  the one wanted, and if the wire has none the worker has it, as long as the supervisor counts it as sent.

`TelegramProofs`

* `TypesHold`: `TypeOK` of `TelegramOutbox`. Two facts are carried along: a job that can be handed to a worker has a try
  left (`JobTypes`), and a call that may start a bot has a token (`CallsStand`).
* `OneBotPolls`: `OneConnection`, from `CallsStand`: a lifecycle call takes a generation that no other call has and
  stops what there is, so as long as a call of the current generation waits there is no transport and no timer, and
  the guard after its await lets only that call start one. Assumed: `None` is no bot (`NoneIsNoBot`).
* `SentBeforeMarked`, `DoublesAreExplained`, `CompletedIsHandled`: one invariant for each match by itself (`MatchInv`). An
  attempt at its final mark has sent its message. While no attempt outlived its job there is at most one, and it
  has the job (`Alone`): a job is handed out only when nobody works on one, and a retry comes after the attempt's end
  or the process's. Then a message leaves `notificationSendingAt` or `notifiedAt` behind, and an attempt past its
  look at them has counted every message before its own (`Counted`). `Settled` and `Reached` say what an
  attempt that ends or goes on has to show; `OtherMatches` that it touches no other match.
  That a service at rest takes no job for one of an unbound chat (`"unbound" \notin reasons`) takes what it knows of the binding: a stored
  binding is never removed, a job is for a chat that was bound, and a service that is not in doubt has the stored one (`ShownInv`).
* `WhatIsShownIsTrue`: `ShownIsTrue`, from `ShownInv`. While calls do not overlap there is one of them, of the current generation
  and with the setting as it is stored, and a bot that is alive polls or is being stopped by it (`OneCall`); then what the channel
  last heard is the state there is (`ChannelShown`, `StateShown`). Assumed: `None` is no binding (`NoneIsNoBinding`).

`MonitorSchedulerProofs`

* `SchedulesFollowStates`: `ScheduleFollowsState`, one monitor at a time (`MonitorInv`). As long as no two tasks met at a monitor, one task at most
  has it on its mind (`Alone`). In the middle of its reconciliation that task has seen the state there is and has done what fits it
  (`Scheduled`), and the poller there is, is the one the scheduler knows, but for the moments of starting one and of taking one off
  (`Polled`): a poller that was taken off with a job in hand dies with the job, and the task that waits is the one that took
  it off. `Midway` says this of one task and one monitor, `Done` what a task that leaves has to show, `OthersKeep` that
  whatever else happens leaves a monitor alone. Assumed: there is a name for a poller (`BoundsAreNaturals`).

`KufarSourceProofs`

* `TypesHold`: `TypeOK`. A job that can be sent again has a try left, and a budget is spent only below its limit.
* `RequestsArePaced`: `Paced`, from `Queue`: a run stands in the chain exactly while its call is queued, has its turn or is
  under way, at most once, and only the first has its turn; the cooldown is never shorter than what is left of Kufar's pause.
* `DetailsAreFetchedOnce`: `DetailIsFetchedOnce`, from `Fills`: the table of requests in flight names for each listing the run that loads
  it, whatever ends that run or the runs that wait with it.

`DesktopAppProofs`

* `CredentialsFit`: `OneSetOfCredentials` for any number of processes, from `HostInv`: a process that goes on with a password has the
  one in the file, or is the one writing it, and while a file is not written there is neither container nor volume.
* `ScreenIsRight`: `ScreenFollowsPhase`, from `ScreenInv`: the last message on its way, or what is shown if there is none, is the phase of the process.
* `ConsentIsForWhatIsShown`: `ConsentIsForTheTokenShown`, from `SavesInv`: at most one save belongs to the page there is, and while it is
  under way the page is busy and its field holds that save's token; a page that is left disowns its save. To know which
  page there is takes the rest of the window (`WindowInv`): a result is heard once, by the page that asked, and a
  process that is off has nothing.
* `TokenInUseIsTheOneKept`: `SecretIsConfigured`, from `SecretInv`: until writings meet or fail or another process saves, one save at most is between the opening of the
  file and the supervisor's notice, and while there is none the supervisor has the token of the file. Assumed: the values that
  stand for no page, no change and a broken file are none (`AbsentIsNoPage`, `AbsentIsNoCall`, `AKeptTokenCanBeRead`).
* `PagesAreTrue`: `PagesShowTheDatabase`, from `ListsInv`: unless an event waits, what the last request has
  read agrees with what the database has, but for the part that changed unannounced since (`Agrees`), and a page of monitors that waits
  for no request shows that, or an error, or owns the change whose failure will show one. Assumed: `Absent` is no row and no page of
  monitors (`AbsentIsNoMonitor`, `AbsentIsNoMonitorsPage`).

Only model-checked: liveness (`LeaseComesFree`, `CatchesUp`, `RequestsAreAnswered`, `StopEnds`, `CallsSettle`, `QuitEnds`,
`JobsSettle`, `ConnectionReturns`, `RunsComplete`, `ServedInTheEnd`), which is outside the prover's reach; of `LeaseComesFree` and `CatchesUp`
the part that needs no fairness is proved (`HandlersEnd`, `LeasesAreNotLeaked`, `RunsEnd`). Every invariant and action
property of the passing runs is proved. `TypeOK` of `MonitorRun`, `TelegramOutbox` and `KufarSource` is proved and not run as well. That a
bounded set of numbers has a greatest member (`MaxIsGreatest`) is drawn from the well-foundedness of the naturals; nothing else in the
proofs needs an induction over data.

## Not modelled

* The text rules and URL rules: pure functions on one text at a time with tables of cases among the unit tests. What the rest of the system sees of them is that a page may be
  malformed (`drift`), that a listing matches or not, and that two sources are equal or not.
* Parsing of the messages between processes, which rejects what does not fit before any state changes, and validation of
  requests; the wording of messages and journals, raw response snapshots, delays of the reconnect and restart policies.
* The loss of a complete credentials file (a user deletes it while the volume stays), which fails every later bootstrap
  with a message that says so. Only the storage that does not encrypt is run (`Backend`): the others skip the consent.
* Editing and the form of the monitors page, layout, navigation policy, documentation checks and scripts.

## Plan

1. A crash of the worker in `KufarSource`: the limiter forgets a cooldown that Kufar still counts.
2. Operators for the text rules, against reference definitions over bounded inputs.
3. The safety cores of the remaining liveness properties, in the style of `RunsEnd` and
   `HandlersEnd`: a countdown for the calls of `WorkerSupervisor`, the runs of `KufarSource` and
   the jobs of the Telegram modules. The liveness itself stays with TLC.
4. An abstract specification of at-least-once delivery that the Telegram outbox implements.
