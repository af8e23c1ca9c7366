# Sibyl: specification and verification

Sibyl searches for the fault schedules under which a user's workflow breaks its promises.
A strategy proposes schedules, an orchestrator executes the workflow under each of them
(in the process, or in a Docker container), judges the promises and keeps the worst run; a
worker daemon does the same for runs that come from a queue, and an API stores and shows
the results.

This directory holds TLA+ models of that program, the TLC configurations that check them
on small instances and proofs of their most important properties for every value of the
constants. Paths below are relative to the repository; `core` is `packages/core/src`.

## 1. Inventory

| Component | State it keeps | Operations | Talks to |
|---|---|---|---|
| Search orchestrator (`core/orchestrator.ts`) | slots claimed, attempt counter, results, worst run, dedup cache, per-worker duplicate counter | `run`, `recordRun`, `exportState`/`importState`/`resume`, `replay` | strategy (calls), `executeRun` (awaits), `onRunComplete` (callback) |
| Execution of one run (`executeRun` there, `core/engine.ts`, `core/promise.ts`) | the race, the native timer, the engine with its clock and events, the verdict | create/start the sandbox or call the workflow, time out, clean up, evaluate promises | sandbox, engine, promises |
| Docker sandbox (`core/sandbox/`) | container id and name | `start`, `stop`, `cleanup`, faults | the Docker daemon (commands that outlive their caller) |
| Simulation worker and run lock (`packages/worker/src`, `core/queue`) | the Redis key of the run, one container per handler, the job | `handleRun`, `onFailed`, `dispatchSimulationRun` | BullMQ (deliveries, retries, stalls), Redis, sandbox |
| Virtual clock (`core/clock.ts`) | virtual time, timer queue, and per process: install count, primary clock, context resolver | `install`, `uninstall`, `advance`, `runAll`, timers, the pump | patched globals, every run in the process |
| Search strategies (`core/search/`) | UCB1: statistics, pending counts, the shrink queue; MCTS: a tree; Bayesian: observations | `next`, `feedback`, `exportState` | orchestrator |
| Promises (`core/promise.ts`) | one snapshot file per promise | `executePromise`, `snapshotPromise`, `allOf`, `anyOf` | executed runs, session |
| Session store and API (`packages/api/src`) | session files, two in-memory indexes, live progress | upload, look-ups, retention sweep, load at start, event stream | CLI, dashboard |
| Webhook delivery (`core/api/webhook-worker.ts`) | queue, `processing` flag, retry timers | `dispatch`, `processQueue`, `deliver` | remote endpoints |
| Chaos calendar (`core/calendar.ts`) | sessions, the running set, the tick timer | `start`, `stop`, `tick`, `runSession` | orchestrator |
| CLI (`packages/cli/src`) | last report sent, pending report | `reportProgress`, `flushProgress` | API |
| Investigator agent (`packages/agent/src`) | budget per organisation, cache | `callClaude`: check, await, record | model API |
| Fault drivers (`packages/fault-drivers`) | wrapped clients, transaction tracker, watchdog | `install`, `uninstall`, wrapped calls | the workflow's clients |
| Dashboard (`packages/dashboard`) | live progress per session, settled queries, filter and selection | `applyProgressEvent`, reconnection, `useApiQuery` | API and its event stream |
| Billing, limits, metering (`core/billing`) | counters in an external database | `enforceQueueAdmission`, `consumeRuns` | database |
| Sign-in (`core/auth/sso.ts`) | states pending, each with its tenant and age | `authorize`, `callback`, `sweepExpiredStates` | identity provider |
| Python SDK (`packages/sdk-python`) | reference count of its patches, a context variable with the active clock | `__enter__`, `__exit__`, patched functions | tasks of the workflow |

The other directories (audit, SCIM, telemetry, importers, the other SDKs, editor
extension, infrastructure, the vendored `pgdata`) are in `PROJECT.json` with the reason they are not
modelled.

What is hard, and what has to be true, component by component:

- **Orchestrator.** `concurrency` async workers share counters and a cache and
  give the thread up only while a run is awaited. The budget may not be
  overshot, attempt numbers (hence run ids) may not repeat, `worstRun` must be
  the worst whatever the order of completion, the cache must not go stale, a
  throwing callback or an early exit meets runs already under way, and a state
  exported in the middle of all this has to be resumable.
- **executeRun and the sandbox.** Three parties race: body, timer, daemon. Every
  path has to leave no container, no installed clock and no armed timer, and a
  workflow that hangs must not hang the search.
- **Worker and lock.** A job can be delivered twice at once (stalls), its lock can
  expire under a slow handler, its process can die anywhere. Two handlers must
  not execute the run at once, nobody may take another's lock away, COMPLETED is
  final, usage is not lost in silence, and a run should end somewhere visible.
- **Clock.** FIFO among equal times, `now` monotone while timers fire, clocks of
  concurrent runs not mixed up, globals restored with the last uninstall.
- **Strategies.** Pending counts released, the smallest failure kept while
  shrinking and across an export.
- **Store.** One session per id, look-ups that agree with the files, a sweep that
  removes only what is old, the same answers after a restart.
- **Delivery** (webhooks, CLI progress, dashboard). Nothing lost or delivered
  by two loops, the latest value delivered, nothing shown complete that is not stored.
- **Calendar, agent budget, billing, sign-in.** Check-then-act across an await: no two
  sessions of a project, a bounded excess, one redemption of a state.
- **Fault drivers.** A fault is injected, and recorded, for the run the call
  belongs to, the same in every repetition; it does what it is named for and no more;
  pressure ends with its session whoever ends first.
- **Verdicts.** Exit code, report, summary and replay say the same of one run.
- **Dashboard.** What is on the page is the answer to what is asked for.
- **Python clock.** Each task reads its own clock, and patches go with the last block.

`PROJECT.json` lists each hazard with its line and the properties that cover it.

## 2. Modules

| Module | Models |
|---|---|
| `SearchSession` | what `run()` promises its caller, without workers, retries or deduplication |
| `RunOutcomes` | what one execution of the workflow can amount to: the contract between the next two |
| `Orchestrator` | `SearchOrchestrator` with its concurrent workers; relies on `RunOutcomes` |
| `RunExecution` | one `executeRun` with timer, Docker sandbox and promises; meets `RunOutcomes` |
| `Verdicts` | what is recorded of a run, the summary, exit code, JUnit report and replay |
| `RunLease` | what the Redis key of a run promises its executions: a lease, without queue or sandboxes |
| `RunLock` | the worker's handler, the queue's deliveries of one job, the Redis lock |
| `VirtualClock` | the clocks of one process: timers, pump, patched globals and their routing |
| `Ucb1`, `Mcts`, `Bayesian` | the search strategies under concurrent workers and a resume |
| `FaultRouting` | calls into http, grpc, fs and child_process drivers, and the decisions of the engine |
| `QueryFaults`, `MessageFaults`, `ResourcePressure` | the drivers of databases, queues and resources |
| `Promises` | promises of a session, combined, and the snapshot file they share |
| `PythonClock` | the patches and the context variable of the Python SDK |
| `SessionMap` | what the session store promises its clients: a map, without files, index, sweep or crashes |
| `SessionStore` | the API's session files with their indexes, sweep and restart |
| `ApiServer` | the API's process: demo seeding, retention, shutdown and restart |
| `LiveSession` | a session from the CLI (or the demo) over the API to a dashboard |
| `RunExplorer` | the run explorer page with its two queries |
| `WebhookWorker`, `ChaosCalendar` | webhook deliveries, scheduled sessions |
| `AgentBudget` | the AI commands with their budget file and cache |
| `Admission`, `SignIn` | the limits on queued runs, SSO sign-in |
| `MCServices`, `MCComponents` | the modules above that share no state, side by side: each behaviour is one of one of them |
| `MCExecution` | `RunExecution` and `VirtualClock` side by side in the same way |
| other `MC*` | symmetry sets for TLC |
| `*Proofs` | theorems and their proofs |

**Orchestrator and code.** A step is what a worker does between two awaits, or one pass
through its loop while it has the thread (`pc[w] = "loop"`; `ThreadFree` says that nobody
has it). One `while` pass is one of `Leave` (the condition, or fifty duplicates),
`Malformed`, `Duplicate` (the slot is given back, so `claimed` is unchanged), `Execute`.
What comes back is `Settle`, or `Suspect`, `RetryAgain` and `SettleRetry` for the
confirmation of flakes. `RecordRun` is the code's `recordRun` with its callback, part of
each of those steps. `Return` and `Reject` settle `Promise.all`; after a rejection the
other workers go on, as they do in the code. `ExportState` is possible at any time,
`Resume` starts a new orchestrator, with a configuration of its own, from the last export.
A record keeps the number of failed promises in place of their results, and schedules
appear only through their fingerprint. The strategy proposes any fingerprint at any time,
which includes whatever a real strategy does. The configuration (`iterations`,
`concurrency`, `earlyExit`, `flakeRetries`) is state, chosen at `Init` and anew by each
`Resume`; `pc` is "start" for the workers that `concurrency` allows.

**RunExecution and code.** `main` is where `executeRun` is, `body` where its inner async
function is. `Promise.race`, the `catch` and the `finally` block up to its first await do
not give the thread up, so they are one step (`Decide`) with whichever event decided the
race. `container` is the daemon's view, which changes between the issue of `docker run`
and its exit, whether or not somebody waits. `RecordEvent` is possible from the start of a
local run on, after the workflow ended and the run was judged too: work that the workflow
did not await reaches the engine through the async context.

**RunLock and code.** A delivery `d` is a handler invocation and the token it writes into
the key. `pc[d]` steps through `handleRun` one await at a time. `holder` is the delivery
whose result BullMQ accepts; a stalled job has none, its old handler goes on, and its
result is `Ignored`. `Expire` is Redis dropping the key, at any time, because the TTL has
no relation to the length of a run. The commands on the key wait for Redis; `Publish` goes
over another connection and may reject, which makes a handler that went well throw: its
run is COMPLETED and unmetered, its job is tried again, and the next attempt skips it. The
promise that is left, and proved, is that such a handler throws. It implements `RunLease` (property `ImplementsLease`):
the lease is the key, the executions are the handlers in their section, and an expiry is
marked in `lapsed`. Whatever queue, crashes and stalls do, an execution begins only with a
free key, a key goes back only after its own execution ended or by its TTL, and a completed
run is executed no more.

**VirtualClock and code.** A run is a context and the clock of its engine. `StartSession`
and `EndSession` set and clear the resolver as `SearchOrchestrator.run()` does, `Install`
and `Uninstall` are the two methods with `applyGlobals`, `restoreGlobals` and
`primaryClock`, `Program` is the code of a run, which may outlive its run, and `Pump` is
the immediate that fires the earliest timer; the callback then has the thread until
`CallbackEnds`, in the context the pump was scheduled in. Time is relative: `left` is a
timer's `triggerTime - now`, and `ahead` the timers of its queue with a smaller `seq`.

**SessionStore and code.** An upload goes through `Receive` (`createSession` up to its
await, with the 409), `Rename` (or `WriteFails`) and `Index`; `StartSweep`, `Unlink` and
`Forget` are the parts of `deleteOlderThan` around its awaits, `Restart` is the
constructor. `old` stands for `createdAt` against the cutoff. Two uploads of one id can
both pass the check, because it comes before the await: the second replaces the first,
both are answered 201 (`docs/api.md:23` has 409), and memory and file may even hold
different ones. Nor does the check see another spelling of the id: `sessions.has` compares
exactly, while the file is named by the id in lower case (`fileFor`, `FileFor` in the
model), so an upload of the id in another spelling replaces the file of the first, and a
sweep or a restart then loses one of them. `contested` remembers the names of such files,
and the properties are about all others. A restart takes from each file the session that is
in it, under its own spelling (`Loaded`). The module implements `SessionMap` (property
`ImplementsMap`), where ids count without regard to spelling: what is stored under an
uncontested id is its file, `answered` are the uploads answered 201, `expired` the `old` ones. Index,
sweep, crash and restart are steps that leave the map alone, or removals of what expired.

**Strategies and code.** A job is what a worker has between `next` and `feedback`; a
schedule the orchestrator finds malformed is never reported. Scores are compared exactly
where only counts matter (an unvisited bucket, a bucket that dominates another) and freely
elsewhere. `Ucb1` keeps `pending`, the shrink queue, anchor and smallest failure; its
`pending` leaks for malformed schedules only. `MinimalIsSmallest` is claimed of searches
that were not resumed, because `exportState` omits the smallest failure. A malformed MCTS
leaf is never credited and is selected again.

**Fault drivers and code.** In `FaultRouting` a call is a script of what happens to it
(all or half of the operation, a timer, an answer, an error, a kill), chosen by the fault;
`dice` is what the seed rolls at each position of a stream, so that repetitions of a run
meet the same rolls. `RecordEvent` keeps the fault of an event, and of its payload what no
seed decides: the pid of a killed child (`pids`, chosen by the operating system). `QueryFaults` keeps the tracker of a connection next to the state of
the transaction in the database; `uncertain` marks statements whose outcome the driver
hides. `MessageFaults` keeps where each message is (broker, in flight, handled), with
`ghosts` for handlers that go on after a simulated crash. `ResourcePressure` has the
drivers of one process with their timers and the one watchdog.

**Verdicts and code.** An execution is a status and a timeline. `seeded` are the runs
whose workflow depends on seed and schedules alone, `clocked` those a CLOCK fault meets
under a real-time clock, `killed` those a PROCESS fault meets; the events of the last two
hold times and pids that differ from one execution to the next (`Timelines`). `Confirmed` is the flake confirmation, `Judged` what `sibyl
replay` prints.

**Promises and code.** `Evaluate` runs one sub-promise of `allOf`/`anyOf` for one run:
`EvaluateSnapshot`, where extracting the evidence and each operation on the file may throw
(a failed write leaves `Torn`), or `EvaluateOther`, which gives anything, for each run
anew. `Write` is the snapshot's first writing or its update. `anyOf` rejects on a sub-promise
that throws although a later one would pass; a truthy `passed` that is no boolean counts
in a combinator and is invalid alone; with `--update-snapshots` the file ends up with the
evidence of whichever run was judged last.

**LiveSession and code.** `cli` is where `executeSession` is; `posts` are progress
requests under way, which may arrive in any order (`api-client.ts:61` awaits none);
`flushProgress`, part of `SearchEnds`, drops the value that waits for the throttle. `wire` is what the API wrote to the event
stream, lost if the stream breaks. The CLI may give up on an upload that the API stores.

**WebhookWorker, ChaosCalendar and code.** `queue`, `processing`, and the retry timers
(`backoff`) as in the code; `inFlight` is the delivery being awaited. The calendar's
chains are the timers of `scheduleTick`: `stop()` and `start()` during a tick leave two.

**AgentBudget and code.** A command is a process; `callClaude` is `Ask` (check), the
await, `Answer` (the read of the budget file) and `Record` (its replacement). A record may
be written over another's, or not be written; the bound of the excess accounts for both.

**Admission and SignIn.** The await between the count of the backlog and its comparison,
and those within `authorize` and `callback`, are where concurrent requests interleave.
Nothing in the repository calls the admission functions; their caller is external. A
self-hosted organization (`selfHosted`) has no quota and no usage; its backlog is limited
all the same.

**ApiServer and RunExplorer.** `phase` is where `startServer` is; a crash may come
anywhere, in the middle of seeding too, and each start has an environment of its own (demo
mode, retention). `Seed` may fail for any session, which `seedDemoData` ignores; `missed`
remembers them. In `RunExplorer` a hook is one `useApiQuery`:
`attempt`, the `effect` that was run, its `request` and the `settled` result; rendering is
a function of these.

**PythonClock.** `depth` and `patched` are the module's globals, `active` the context
variable of each task, `blocks` the `with` blocks a task is in. `Overlay` is other code
that patches the same names.

**Composition and refinement.** `Orchestrator` implements `SearchSession` (property
`ImplementsSession`): `tally` is the number of results by status, `after` the number of
results behind the first that did not pass, `saved` the same of the exported state, and
`Overrun` is `concurrency - 1`: that is how many runs an early exit may still count.
`Orchestrator` uses `RunOutcomes!Outcomes` for the value `executeRun` resolves to;
`OutcomeExpected`, proved of `RunExecution` for every number of promises, says that it
resolves to nothing else. `MCServices`, `MCComponents` and `MCExecution` put modules without shared state
side by side: the first variable selects one, all others stay in an initial state, so the
state space is the sum of theirs and not the product. What they share in the program (a
process, a directory, the API) is inside one module in each case.

## 3. Runs

| Run | Instance | Shows |
|---|---|---|
| `orchestrator` | 2 workers, budget 3, 2 fingerprints, limit of 1 duplicate, 2 flake retries, early exit on and off, throwing callback, 1 resume | `BudgetAccounting`, `WorstRunIsWorst`, `SeenIsLatest` and the refinement |
| `orchestrator_duplicates` | as the first, without callback and resume | finding 1 |
| `run_execution` | `MCExecution`: one run with 3 promises, 4 events, with and without sandbox; clocks of 2 runs, 2 sessions one after the other, 2 timers, delays of 0 to 2 ms, intervals of 0 ms | `CleanUnlessTimedOut`, `ExecutionSettles` (`RunSettles`); safety of the globals, `OwnTime`, `TimersFire` |
| `sandbox_leak` | 1 promise | finding 2 |
| `run_lock` | 5 deliveries, 3 attempts, 2 dispatches, 1 crash, 1 stall, 2 expiries, a `createSandbox` that may reject | `OneExecutes`, `SettledIsClean` and the refinement of the lease |
| `run_lock_stuck` | 4 deliveries, 3 attempts, 1 crash, 1 stall | finding 3 |
| `clock_overlap` | 2 runs, 2 sessions that may overlap, 1 timer | finding 4 |
| `session_store` | 3 uploads, 3 ids of 2 files, 2 run ids, 2 crashes | memory against files, durability of what was answered, look-up of runs, and the refinement of the map |
| `replay` | 2 runs, 1 flake retry | finding 5 |
| `progress_flush` | a session of 2 runs | finding 6 |
| `services` | below | what has to go on: searches and queued runs end (`EveryWorkerEnds`, `RunNotStuck`), webhook deliveries settle and are neither lost nor doubled, the calendar keeps on, local file, upload and dashboard agree, AI commands end within a bounded excess |
| `components` | below | one property for each part: `StrategiesCredit` and `ShrunkToMinimal` of the strategies, `FaultsReplay`, `PartialIsHalf`, `OnlyLossLoses` and `PressureIsGuarded` of the drivers, `VerdictsAgree`, `JudgedByItsParts`, `ScopedTime`, `LimitsHold`, `RedeemedOnce`, `ShowsWhatWasAsked`, `DemoApart` |

*Why the bounds suffice.* Workers are symmetric and interact pairwise, through one counter
and one cache: two of them already pass the loop's condition together, execute one
fingerprint together and finish in both orders; a budget of three lets one worker count
twice while the other is under way, so that slots are given back and claimed again and an
early exit overruns. One resume covers "exported in the middle, then resumed": the resumed
state is not distinguished from a first one. `MaxDuplicates` is 50 in the code and counts
identical steps; 1 and 2 reach the limit, and the wrap-around below it. In `RunExecution`
only `NumPromises` and `MaxEvents` are bounded; each is counted up from zero with no other
use. In `RunLock` five deliveries are three attempts, a redelivery of a stalled one, and
one of a second dispatch; two expiries allow a lock to be lost twice in a row. In
`VirtualClock` two runs have clocks come and go in every order, two timers tie or overtake
each other, and an interval of 0 ms, which the code makes one of 1 ms when it repeats,
stands beside a timer of 2 ms; `MaxHolds` counts calls that hold virtual time where it is
(`refresh()`, timers of 0 ms), and two of them let both timers do so. In `SessionStore`
three uploads are two of one id, or of one file, and one beside them, or two sessions that share a run and
the return of a swept id; the second crash hits what the first restart loaded. The
theorems below have none of these bounds, except where noted.

`services`: a search of two workers with one fingerprint and two flake retries, so that
duplicates pile up to the limit and beyond it; three deliveries of one run, two attempts,
one stall, one crash and one expiry, so that a redelivery meets the lock of a handler that
is dead or still at work, and a death hits the last failure; two webhook subscriptions, one of which hears one type only, two events and
three of the eight attempts (an attempt differs from the next by its number alone); two
projects and three chains of ticks, one more than a single `stop` and `start` leaves; a
session of two runs, hence a first, a throttled and a replaced value, and one break of the
stream; two AI commands at once, one more after them, and a budget for one call.

`components`: strategies with two workers, two templates of two buckets, one of them
malformed, and a resume: a report can arrive out of order, during shrinking, or never.
Three drivers of pressure, two of one resource, which is what starting over another's
pressure takes. Transactions of up to five statements hold a `BEGIN`, two statements and an
end with one outside. Two messages overtake each other; two strikes hit a redelivery. Two
repetitions of a run with two calls each permute domains; network and file drivers are
checked apart, since the engine only tells domains. A list limited to one of two runs. Two
Python clocks nested in each of two tasks. Two sessions of up to two runs against a
backlog of three and a month of three. Two sign-in states, two tenants, three callbacks:
two of one state and one of another. Three sessions of promises: a snapshot is written,
compared, updated. Three starts of the API: seeded, crashed in it, started again, each in
any mode. Two pids suffice to differ. The
cfg names workers and runs as symmetric; the run has invariants only.

*Deadlock* is not checked: in each of these systems the search, the run, the job or the
bounded supply of uploads, timers, events and requests ends.

*Fairness.* `Orchestrator`: the event loop serves every worker that is not waiting, and a
run that is awaited settles, because its timer is native and is armed on every path (which
is what `RunSettles` checks in `RunExecution`). `RunExecution`: `executeRun` goes on when
it is not waiting for the race, and an armed timer fires; nothing at all is assumed of the
workflow or of `docker run`, which may hang. That `docker stop`, `docker rm` and the
evaluation of a promise end is assumed: the code puts no limit on them. `RunLock`: each
live handler goes on (a publication settles, well or not), the queue delivers, delays
elapse, a job whose handler is dead is redelivered, a lock expires in the end; that a live
handler's job is taken for stalled is possible and never assumed. `VirtualClock`: a callback returns, and strong
fairness for each clock's immediate, because the event loop runs an immediate in the turn
after the one that queued it, whatever else is ready. `TimersFire` needs `MaxHolds` to be
finite: a program that sets timers of 0 ms for ever never sees virtual time move, in the
code as in the model. `WebhookWorker`: the loop goes on (a delivery
that is awaited settles, by its own timeout at the latest) and each retry timer fires.
`LiveSession`: the CLI alone goes on, because its requests have a timeout of ten seconds;
nothing is assumed of API, network, browser or demo. `AgentBudget`: each command goes on,
because the client library bounds its requests. In `MCServices` and `MCExecution` the same conditions
are stated of the one service or part that goes on. `ChaosCalendar` has no liveness property: that it
is awake while it is not stopped is an invariant. `SessionStore` has none either. It assumes of time that a
sweep ends within the hour until the next one, since `setInterval` does not wait for it,
and that an upload takes less than the retention.

## 4. Findings

1. **Duplicates do consume budget** (`core/orchestrator.ts:246`, run
   `orchestrator_duplicates`). A fingerprint enters the cache when its run is
   over; until then another worker executes and counts it too.
   `ARCHITECTURE.md:169-170` and `docs/cli.md:23` say otherwise. What does hold is
   at most one count per worker (`DuplicatesBounded`).
2. **A timeout can leave a container** (`core/orchestrator.ts:373`, run
   `sandbox_leak`). The timer fires while `createSandbox` or `docker run` is
   pending; the `finally` block has nothing to remove yet, and the container comes
   up afterwards. `CleanUnlessTimedOut` shows that every other path is clean.
3. **A crashed run is stuck** (`packages/worker/src/handler.ts:99`, run
   `run_lock_stuck`). The lock of a dead worker outlives the three attempts of the job;
   the job is then failed, and neither in the dead letter queue nor
   dispatchable again. `handler.ts:24` says that the run is not stuck. What does hold is
   `RunNotStuck`: a run is handled or dead-lettered, unless a redelivery met the lock of the
   handler before it, or a process died between the last failure and its listener. The
   former takes no crash: a slow handler is taken for stalled, its job is delivered again,
   that delivery and its retries meet the lock of the first, and `onFailed` returns early for
   each, although `handler.ts:93` says that "a job whose retries are exhausted goes to the
   dead letter queue" (`ExhaustedIsDeadLettered` in `RunLock`, which a stall alone breaks).
   Should the first handler fail after that, nobody hears of it (`Ignored`).
4. **The end of one session misroutes the runs of another**
   (`core/orchestrator.ts:435`, run `clock_overlap`). `run()` clears the resolver of the
   whole process when it ends; runs of a session still under way then read
   the clock that was installed first. `ARCHITECTURE.md:136-138` says
   that each run reads its own; the chaos calendar does start sessions at once
   (`core/calendar.ts:78`). The trace has code outside of every run read a run's clock; the
   runs of the other session, but for the first, are misled in the same way. While sessions
   do not overlap and none is rejected, `OwnTime` holds and is proved.
5. **Replay blames the workflow for the wall clock** (`core/engine.ts:156`, run `replay`).
   The event of a CLOCK fault holds the times before and after the skew, and `replayRun`
   compares the payloads of events. Under a real-time clock a deterministic run that
   failed under a CLOCK fault is never said to reproduce. `packages/cli/src/session.ts:137`
   wants to "compare what was decided, not when". A PROCESS fault has the same effect: its
   event holds the pid of the killed child (`fault-drivers/process/src/process-wrapper.ts:29`),
   and `replayRun` normalises timestamps and loopback ports but not pids
   (`UnclockedReproduce` in `Verdicts`). `core/orchestrator.ts:283-286` says of both that the
   timeline is reproduced.
6. **The latest progress is dropped** (`packages/cli/src/api-client.ts:75`, run
   `progress_flush`). When the search ends, `flushProgress` clears the value that waits for
   the throttle without sending it; `api-client.ts:61` says "always delivering the latest
   value". What is stored and shown as completed is not affected (`CompletedIsRecorded`).

Divergences met while modelling, stated in the modules but without a run of their own:

- `calendar.ts:134` says a tick never overlaps the next one; after `stop()` and `start()`
  during a tick two chains of ticks overlap (`TicksNeverOverlap`). That a project has one
  session at a time holds all the same, and is checked.
- `fault-drivers/resource/src/index.ts:28` wants the end of pressure recorded; drivers are
  uninstalled outside of every run, so the end is recorded in no timeline (`EndIsRecorded`).
- `useApiQuery.ts:10` defines `isLoading` as a request in flight; after a change of key and
  back, before the other key is answered, one is in flight and nothing loads
  (`LoadingIsShown`).
- Events are recorded for faults that have no effect: PARTIAL_WRITE on streams and renames,
  SLOW_IO on synchronous calls, DUPLICATE_RESPONSE, DNS_FAILURE and TLS_HANDSHAKE_FAILURE.
- A driver instance shared by two sessions (`cli/src/config.ts:63-74` passes instances
  through) is uninstalled by the first that ends.
- When the publication of the usage rejects after a run that went well, its job is retried
  although the run is COMPLETED, and the retry skips it: the run is never metered, and the
  queue may count it as failed if it was the last attempt.
- The events of faults on SQS hold message ids and receipt handles
  (`fault-drivers/mq/src/sqs-wrapper.ts:64`, `:85`), which no seed decides either and replay
  compares as well.
- A client that retries an upload after a crash of the API meets 409 for a session it was
  never told is stored.
- The API listens with a part of the demo data if the creation of a demo session throws.
- Posts of progress may arrive out of order, so the counts
  of a completed session may be stale; a demo session is announced completed even if it
  could not be stored, and the synthetic ones are never stored.
- A malformed schedule is recorded as errored without schedules: its replay runs without
  faults and blames the workflow.
- The Python clock: an instance entered by two tasks raises `ValueError` on the way out and
  stays active; patches of other code made before the first block are overwritten.
- A crash in the middle of seeding leaves partial demo data for good; a store that
  retention emptied is seeded again at the next start; webhooks wait in memory and are
  lost with the process.
- `authorize` leaves its state pending until it expires when the identity provider fails.

## 5. Proofs

All proofs are checked by TLAPS for every value of the constants, from the modules'
assumptions only (`ConstantsAssumption`, `RunAssumption`, `LockAssumption`,
`ClockAssumption`, `StoreAssumption`, `ServicesAssumption`, `ComponentsAssumption`): any
number of workers, promises, deliveries, attempts, runs, sessions, timers, delays, uploads,
crashes, subscriptions, projects, commands, drivers, messages, statements, tasks, sign-ins,
any limit and any budget. The assumptions say of bounds that they are numbers, of sets that
are counted that they are finite, and that `None` is none of their members; beyond that, that
a driver of pressure has one of the two domains, that the drivers modelled are those of the
code, that the Bayesian search has at least one fault template, and that demo sessions are
numbered from one.

**OrchestratorProofs.** Each worker action is first reduced to what it does to the
counters and to the worker's place (lemma `WorkerEffect`), so that the accounting of
`claimed` against `Cardinality(Executing)` is argued once. The inductive invariant has two
more parts than the properties. `StateInv` says of the live state, and of the exported
one, that attempt numbers are distinct and below the counter, `worst` is worst and `seen`
is latest: a resume takes the exported state over, so it must satisfy all of that when it
is exported. `JobsInv` says that the numbers of the jobs under way are below the counter
and differ from each other and from every counted one: without it the next `Settle` could
count a number twice. Proved: `TypeOK`, `BudgetAccounting`, `AttemptsDistinct`,
`WorstRunIsWorst`, `SeenIsLatest`.

- *Refinement* (`ImplementsSession`). The mapping counts results by status and results behind
  the first that did not pass. Both are cardinalities of sets of indices, so what one more
  result does to them (`TallyAppend`, `AfterAppend`) and that the tallies add up to the
  number of results (`TallySum`) need no induction over sequences. `SessionInv` is the
  invariant behind it: while it runs, no worker has thrown; once it returned, every worker
  ended; and with early exit (`EndsEarly`) the late results plus the runs under way stay
  below the number of workers, in the exported state too, since a resume goes on from it.
  The bound on the total comes from `BudgetAccounting`.
- *Duplicates.* Inductive is `CountedOnce`: for each fingerprint, counted runs and runs under
  way together are no more than the workers, in the exported state as well. The sum grows only
  when a worker starts a fingerprint; it does so only if the cache has none of its runs, then
  nothing of it was counted (`SeenIsLatest`), and those under way are at most the workers.
  Proved: `DuplicatesBounded`.
- *Progress.* `WorkersAdvance` says that each step of a worker claims a slot of the budget or
  lowers that worker's rank (its place, the duplicates and the flake retries it has left) and
  sets nobody else back. Ranks are bounded (`RankBounded`), slots are no more than the budget;
  that is the reason `run()` ends, short of fairness, and it is what a pass of the loop
  without effect on either would break.

**RunExecutionProofs.** The inductive invariant ties the places of `main`, `body` and
`timer` together (the timer is armed exactly during the race; the race is open only while
the body is pending) and the verdict to the promises judged. Proved: `TypeOK`,
`OutcomeExpected`, `CleanUnlessTimedOut`, `Quiet`, all of them with a workflow whose
work may go on after it returned.

**RunLockProofs.** `SectionOwns` is the inductive part: a handler in its section whose
lock did not expire is the one the key names. `ContainerInv` relates a container to the
place of its handler, and a removed one of a handler that settled to its metering or its
error. Proved: `TypeOK`, `OneExecutes`, `CompletedWasExecuted`,
`SettledIsClean`, the action properties `CompletedIsFinal` and `LockIsOwn`, and the
refinement `ImplementsLease`. The last needs no more than the types: `SectionMoves` reduces
each action to the handlers that are in their section after it, and the comparison with the
own token in `Complete` and `Release` does the rest.

**VirtualClockProofs.** `TypeOK` is proved with `AheadOrders`, that `seq` orders each
queue totally: from it follows that the earliest timer exists and that no other timer
falls behind `now`. `GlobalsCounted` rests on the installed clocks being finite in number
and changing one at a time, with `GlobalsAreCounted` covering overlapping and rejected
sessions as well. `NoLostPump` is `PumpScheduled`, inductive given the types.
`OwnTimeAlone` proves `OwnTime` under the assumption that sessions neither overlap nor are
rejected, from the invariant that the session of an installed clock is the one under way
and that the resolver is set.

**SessionStoreProofs.** The invariant adds to the properties that an upload of an
uncontested name is alone with it while it is under way (`FlightAlone`), that of the
spellings of one id only one is in memory (`SpellingAlone`), and that what a sweep has
listed stays in memory until it is forgotten (`SweepHolds`), so that neither can overwrite
nor remove what the other has answered. Proved: `TypeOK`, `MemoryMatchesDisk`,
`AnsweredIsDurable`, the action property `FoundStaysFound`, and two more. `RunFound`
(`getRun` finds every run that is listed, unless another session with the run expired or has
a contested name): an index entry moves to a later upload of the same
run and is dropped when that one is swept, so the proof follows, for each action, which
session answers for a run (`FoundFor`). The refinement `ImplementsMap`: the rename of an
uncontested upload meets a free name (`NameIsFree`), and a sweep removes the file of the
session it listed and of no other (`OwnFile`).

The last three modules are about the modules that run side by side. Each part has an
inductive invariant of its own; lemma `EachAlone` says that a step belongs to one part and
leaves the variables of the others alone, so that the conjunction of the invariants is
inductive for the whole. A module taken by `INSTANCE` has its own copy of the operators of the
standard modules; lemma `CountsAlike` says that all copies of `Cardinality` are the same.

**ServicesProofs** (`MCServices`). Types of all parts: those of the orchestrator and of the
run lock come from the theorems above, through `SearchIsSame` and `LockIsSame`.

- *Webhooks.* The four places of a delivery (`queue`, `inFlight`, `backoff`, `settled`) have
  disjoint ids, each id once, and together exactly those that are wanted (`OnePlace`);
  `Attempted` has the number of posts of what is under way agree with its attempts, without
  which a retry could go beyond the limit; `OneLoop` ties the flag `processing` to the one
  delivery in flight and, while it is off, to an empty queue. Proved: `NothingLostNorDoubled`.
- *Calendar.* A chain is armed or ticks, never both (`Apart`), and ends only while the
  calendar is stopped (`Awake`); `RunsOnce` ties the `running` set to the ticks that await a
  session and to the history. Proved: `CalendarKeepsOn`.
- *Live session.* `LivePlaces` says how far the command is when an upload, an answer or a
  message on the stream can exist: what says "completed" was said when the session was
  stored, which comes after the file. Proved: `CompletedIsRecorded`.
- *AI commands.* Money is counted as the pairs of a command and a unit of its cost (`Owed`),
  so that sums are cardinalities. While no record was lost, what was billed is what the file
  has plus what is owed (`AccountsFor`), and what was billed plus an estimate for each call
  under way stays within the limit plus an estimate for each command but one
  (`AdmittedWithin`): a command that passes the check is under way itself and the file may
  lack what the others owe, so `RoomToAsk` counts the others. Proved: `OvershootIsBounded`.

**FaultsProofs** (`MCComponents`).

- *Shrinking of UCB1.* What is queued is one fault smaller than the anchor, and the smallest
  failure no larger (`Orderly`), also in an exported state; every subset of the smallest
  failure without one fault is queued, under way or reported (`PrunedIsTried`). Proved:
  `ShrunkToMinimal`.
- *Sharing of buckets.* A full set that a worker holds is one that was issued, and its
  buckets count as visited (`FullAreIssued`, `Held`); within a process counts and issued sets
  only grow (`Grows`), so that a set issued earlier stays counted when a later one is chosen.
  Proved: `UnvisitedShared`.
- *Tree of MCTS.* Runs are pairs of a node and a number (`RunsOf` in `Mcts`), so that the visits
  of the children are a cardinality and one more run adds one to it. `SoundTree` says of the
  live tree, and of an exported one, that every node has its parent, that the visits of the
  children add up to those of the node, and that no node has more than runs below it earned.
  `LeavesWait` is what makes a backpropagation keep the sums: the leaf of a set that is not
  reported yet has no visit of its own, and no other set was issued for it; `JobsLead` ties a
  set under way to its leaf. Proved: `VisitsAddUp` and `CreditEarned`.
- *Bayesian search.* A set under way has ids of its own, whose templates are still known
  (`JobsKnown`): a report finds them and is counted. `ReportsIssued` bounds what was reported
  by the sets issued that are not under way, which the types of the counters need. Proved:
  `ReportsCount`, and with the two above `StrategiesCredit`.
- *Messages.* `OnlyLossLoses` is inductive given the types.
- *Queries.* Every statement is counted or held back (`QueriesCounted`), and the tracker is
  right or ahead of the database by the one statement that is held back (`TrackerIsAhead`).
  Proved: `PartialIsHalf`.
- *Fault routing.* What a run decided is what the seed rolls at the place of the call in the
  stream of its domain (`AsRolled`), and its events are the faults decided, in order
  (`AsInjected`). Two runs that made the same calls in each domain therefore decided alike,
  whatever order the domains came in. The payloads of their events are not claimed to be
  equal: each event has one (`pids` is as long as `events`), and one without a pid unless
  its domain is PROCESS, so that equal events differ there only. `MCComponents` has the module twice, for drivers of the
  network and of files and processes; `CallIsSame` and `FilesStep` carry the argument from
  the one to the other. Proved: `FaultsReplay`.
- *Python clock.* A block is a task and a level. The patches count the blocks, each clock has
  a token for each of its blocks (`BlocksCounted`), the name patched last is ours if nobody
  else patches (`NameIsOurs`), and unless a clock is shared by tasks the token of a block
  leads to the block around it (`TokensNest`): without the last an exit could restore
  another block's clock. Proved: `ScopedTime`, for a finite number of tasks.
- *Pressure.* The argument is about one value of `pressure` at a time: what `Stopped` and
  `Started` make of a sound one is sound (`StopIsSound`, `StartIsSound`), and every action is
  made of these two and `Released`. A sound value has its owners equal to the active drivers,
  each in its own domain: without the last an uninstall could release a driver that is
  active in the other domain. Proved: `PressureIsGuarded`.

**ServerProofs** (`MCComponents`).

- *Admission.* The usage is the number of runs of the sessions that have paid, or zero of a
  self-hosted organization (`UsageIsPaid`); without a race one session at a time is on its way into the queue, and
  its count of the backlog is not below the queue (`OneUnderWay`). Runs are pairs of a
  session and a number, hence cardinalities again. Proved: `LimitsHold`.
- *Verdicts.* What is recorded of a seeded run that no CLOCK and no PROCESS fault met is its
  one outcome and timeline (`RecordsAreSeeded`), and only other runs are said not to reproduce
  (`ReplaysAreSeeded`); exit code, summary and report are computed from the same records,
  which is shown for each in `VerdictGoal`. Proved: `VerdictsAgree`.
- *API process.* Seeding begins in an empty store, one session after the other, each of
  which is then there or missed, and nothing is uploaded or removed before the last; from
  there on each is there, missed or swept (`SeedingIsOrderly`). Proved: `DemoApart`.
- *Promises.* There are two sub-promises in one of their orders (`TwoPromises`); the results
  of a run are those of the first, none of which but the last ended the evaluation
  (`ResultsFollow`); the file holds something the last session that wrote it wrote last, and
  without `--update-snapshots` every comparison was with that (`SnapshotIsKept`). Proved:
  `JudgedByItsParts`.
- *Run explorer.* Data is kept under its key and an answer is for the key asked
  (`KeyedAlike`); an answer or a settled result of the present attempt has all runs heard of
  so far (`PagesCover`), because the attempt is raised when the page hears of more.
  `ListedShape` says that a page has the runs that match, or is full. Proved:
  `ShowsWhatWasAsked`.
- *Sign-in.* An entry in `pendingStates` is for the tenant its state was issued for, and
  nothing was redeemed while it is there (`EntryIsFresh`); the first callback takes it away,
  and no state is issued twice. Proved: `RedeemedOnce`.
- *Types.* Each invariant of this module and of the one above has the types of its part;
  `TypesHold` puts them together. Proved: `TypeOK` of `MCComponents`.

Every safety property of the runs is proved, the three refinements among them. Only
model-checked are the liveness properties `EveryWorkerEnds`, `RunSettles`, `RunNotStuck`,
`TimersFire`, `EveryDeliverySettles` and `CommandsEnd`: the prover has no rule for fairness or
`ENABLED`. The other way round, `DuplicatesBounded`, `AttemptsDistinct`, `WorkersAdvance`,
`OutcomeExpected`, `Quiet`, `CompletedWasExecuted`, `CompletedIsFinal`,
`LockIsOwn`, `PumpScheduled` and `RunFound` are proved and no run lists them: they are parts of,
or follow from, what the runs do list, or are there for the reader alone.

## 6. Not modelled

- Which schedule fires at which decision: a hash-driven draw without control. Targets and
  time windows of schedules.
- What work that a workflow starts and does not await may do, except for the events it
  records (`RecordEvent`): no component tracks it.
- Failing Redis commands on BullMQ's connection, which retries for ever (`setup.ts:18`). The
  connection for publications has a limit, and `Publish` fails accordingly; the publication
  by the listener of `completed` (`worker/src/index.ts:35-43`), whose rejection nobody
  handles, is left out, and if it ends the daemon that is a `Crash`. Failing `docker
  stop`/`docker rm` (their errors are swallowed by the code); a job that BullMQ
  finds stalled more often than `maxStalledCount`; a daemon that never answers.
- The clock's real-time mode (native timers), numeric timer ids, and what `Date`
  reads (skew, jumps); `advance()` and `runAll()`, which only tests call, but for the
  jump of a CLOCK fault at the start of a run, when the queue is empty. A timer callback
  that advances the clock itself.
- In the store: the lists and trends, which are computed from `sessions` alone;
  temporary files a crash leaves. Of ids that are contested nothing is claimed.
- The scores of MCTS and of the Bayesian strategy: logarithms and roots.
- What promises compute, and threshold promises: data.
- Configuration loading, `init`, `sessions`, `doctor`, printing; prompts, redaction and
  patches of the agent: text.
- Dashboard pages of layout; `LaunchSimulationButton` (a modal around the demo run that
  takes a broken stream for its end) and `ApiStatus`.
- Stripe, SCIM, roles, audit log, telemetry, importers, GitHub app: conversions and calls
  to services that are not in the repository. The SDKs for Node, Go and Java, the editor
  extension, CI integrations and infrastructure: no state of their own.

## 7. Plan

- Time windows and targets of schedules in `FaultRouting`.
- `LaunchSimulationButton` as a second reader of the event stream in `LiveSession`.
