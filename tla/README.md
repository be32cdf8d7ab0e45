# 247-agent: specifications and proofs

TLA+ modules for the `247-agent` daemon and its bundled connectors, TLC configurations
that check them on small instances, and proofs that TLAPS checks for every instance.
`PROJECT.json` lists the components, runs, mutants, hazards and theorems, and maps every
definition to the lines it models. Paths below are relative to `src/packages/core/src`
unless they begin with another package's name.

## 1. The system

The daemon turns *events* into *runs* of configured *tasks*. It is one Node.js thread over
one SQLite file; what is concurrent is everything that meets at an `await`, every
process it starts, and its own restarts.

```
connectors, pollers, API --publish--> events (append-only log, seq)
                                          |  dispatch cursor
cron scheduler --cron.tick-->             v
                                     Dispatcher --insert queued run, hand off--> Executor
                                          |  ^                                     |
                                          |  +----- matchWaitAgainstBacklog -------+ suspend
                                          +-------- endWait (requeue) ------------>|
             events <------ task.<name>.succeeded|failed|cancelled, emit ----------+
                                                                                   |
     agents, llm service, connectors' ops, sequences, waits <------ an attempt ----+
```

| Component | State | Operations | What is hard |
|---|---|---|---|
| Executor (`executor/executor.ts`) | `pending`, `known`, `inFlight`, `perTask`, `backingOff`, `retryReady`, `holds`, `stopping`; rows `runs`, `run_attempts`, `waits` | `enqueue`, `pump`, `execute`, `suspend`, `finish`, `cancel`, `adopt`, `start`, `stop`, `hold`, `configure` | cancel, stop, end of a wait and end of an attempt in any order; a crash or a failing store call between any two writes; six books that must agree |
| Dispatcher, bus (`bus/*.ts`) | `dispatch` cursor, wait index, `reported`, `batchReported`, `wakePending`, health | `publish`, `wake`, `dispatchOnce`, `drain`, `drainStep`, `endWait`, `matchWaitAgainstBacklog`, `explain`; `runTaskManually`, `pauseTask` | a reply racing the wait for it; deadlines and backlog; rollback of a batch with memory beside it; caps counted while runs are inserted |
| Store (`store/*.ts`) | the SQLite tables, `waits.revision`, the file and its copies | transactions, nested as savepoints; migration; backup; retention | rollback undoes rows, not memory; kills and power losses around a copy; what a sweep may delete while everything else goes on |
| Cron (`scheduler/*.ts`) | a timer and a cursor per task | tick, arm, check of missed ticks | cursor moved before the tick is published; late timers; clock changes |
| Core, daemon (`core.ts`, `daemon.ts`, `main.ts`) | config, `reloading`, the socket file | start, reload, stop | all-or-nothing reload under a hold; order of start and stop; a second daemon |
| LLM service (`llm/service.ts`, `llm/batches.ts`, `actions/llm.ts`) | ledger, reservations, batches in flight | call, submit, settle, poll, abandon | check, reserve, await; crash between a provider's answer and the row; day boundary |
| Agents, MCP bridge (`actions/agent.ts`, `connectors/mcp-bridge.ts`) | sessions, turns, counted calls, cost reported so far | open, prompt, permission, charge, cancel, restart | reports of a session that outlives its turn; calls over the end of a run |
| Sequences (`actions/sequence.ts`) | progress row, wait row | step, save, suspend, resume | two checkpoints, either of which may be newer |
| Supervisor (`connectors/supervisor.ts`) | process, spawn in flight, state, epoch, timers per connector | start, apply, restart, kill, health check, backoff, ops | a restart, a reload, an exit and a health check of the same process; which failures may be retried |
| Host, processes, network proxy (`connectors/host.ts`, `stdio-transport.ts`, `acp.ts`, `launchers/`, `net-proxy.ts`) | sessions, process groups, tunnels | connect, launch, abort, stop, tunnel | exits, aborts and stops in any order; orphans |
| Pollers (`connectors/poller.ts`) | timer, poll in flight, seen list | poll, diff and emit, prune | failing call or write; the list at its cap |
| API, metrics listener (`api/*.ts`) | connections, address | routes, close, move | effects committed before the answer; clients that ask again |
| Connectors (`connectors/chat`, `email`, `ftp`, `github`, `jira`, `webhook`; `connector-sdk`) | cursors, questions, UIDs in the core's state | loops, ops, deliveries | crash between the effect and the saved state; retry of what was perhaps done |
| Adapters, sandbox, expressions, configuration, CLI | none that survives a call | | I/O, parsing |

What makes each correct:

* **Executor**: the pool's books agree with each other and with the rows; a run ends
  once and says so once; attempts stay within the policy, an attempt that failed is
  spent and one a stop aborted is not; concurrency and workers are kept; a waiting run has an
  armed wait; a cancel it accepted ends the run; no worker sleeps beside work;
  every queued run settles; every stop completes.
* **Dispatcher**: no reply falls between backlog and cursor, and none ends two waits of
  a run; deadlines are fair to events already stored; the cached index is never stale; caps hold and
  a dropped chain is reported; overlap is skipped; no backlog waits for the
  timer alone; every event is dispatched in the end.
* **Supervisor**: at most one process of a connector at work, none forgotten; a
  connector that should run is up, starting, or has somebody who will start it; a stop returns.
* **What is spent** (llm, agents) is counted before more is spent, and a cap is overshot by
  at most what the code promises.
* **What is done once** (batches, steps, ticks, mails, replies, writes to other services,
  deliveries) is not done twice, beyond what the code cannot know.
* **What came in** (ticks, items, mails, messages, SIGHUP) is not forgotten by a cursor,
  a cap or a sweep.
* **What takes several steps** (reload, sync, backup, migration, take-over of a socket or
  a port) is done wholly or not at all as others see it.
* **What is over** (turn, session, process, tunnel, drain, backup) leaves nothing running;
  **what was not allowed** (tool calls, ops, addresses, deliveries) does not happen.

The hazards behind these, each at its line with the properties that would catch it, are
in `PROJECT.json`.

## 2. Modules

| Module | Models |
|---|---|
| `RunContract` | what the daemon may rely on about a run: its statuses and the lifecycle event its end publishes. Abstract. |
| `BatchContract` | what the llm service promises of a batch it holds a row for. Abstract. |
| `Executor` | `executor/executor.ts` with the rows it keeps |
| `Dispatcher` | `bus/dispatcher.ts`, with publish, triggers, pause, manual runs and the rows it keeps |
| `Supervisor` | one connector of `connectors/supervisor.ts`, with what its launchers do |
| `Llm`, `Agent`, `Bridge`, `Sequence` | what an attempt does: the llm service with its batch poller, agent sessions, the agents' tool bridge, sequences |
| `Shell` | a shell step: the command, its process group, abort and stop |
| `Transcript`, `Output`, `Cycles` | an agent's transcript, what connectors print, the lint for tasks that trigger one another |
| `Cron`, `Poller`, `Retention`, `Reload` | the scheduler, the pollers, the sweep, the reload of the configuration |
| `Host`, `Process`, `NetProxy` | the connector host, a child and its process group, a sandboxed agent's network |
| `Mail`, `Pop3`, `Chat`, `Ops`, `Ftp`, `Webhook` | the bundled connectors, with the core's retries of their ops |
| `Api`, `Scrape`, `Daemon`, `Backup`, `Upgrade` | the API's requests, the metrics listener, start and stop beside other daemons, `oa backup`, the migration |
| `Services` | the 26 modules from `Llm` to `Upgrade` above side by side, and the properties that ask the same of several |
| `ExecutorProofs`, `DispatcherProofs`, `SupervisorProofs`, `LlmProofs` | theorems about one module, for every value of its constants |
| `ServiceProofs`, `ConnectorProofs` | the same for 16 service modules and for the 6 connectors |
| `SystemParts`, `SystemProofs` | theorems about `Services`: the parts put together |
| `MCExecutor`, `MCDispatcher`, `MCSupervisor`, `MCServices`, `MCMail`, `MCCron` | instances for TLC |

A definition whose comment begins "Mutant:" is not part of the model: it stands before the one
it changes, and says what a plausible slip in that code would be. For each property
at least one such mutant, put in place of the original, makes TLC find the property violated.

### 2.1 Executor

One step is one stretch of code between two awaits, cut further only where the
process can die or the store can fail between two transactions. Handlers end in
`pump()`, which does not yield: they set `pumping` (`CallPump`), and while it holds
only the pump's own steps, or a crash, can happen.

| Code | Model |
|---|---|
| `runs.status`, `runs.attempt`, `waits.outcome`, `run_attempts.status`, lifecycle events | `status`, `attempt`, `wait`, `rows`, `published` |
| `pending`, `known`, `inFlight`, `perTask`, `backingOff`, `retryReady` | the same names |
| the reason a slot's `AbortController` was aborted with | `reason` ("stopped", "cancelled"); the first abort counts |
| the `await` an `execute()` stands at | `phase`: performing, parking (suspended, runner cleaning up), backoff (sleep), ready (`workerFor`) |
| `start()`'s loops over running, waiting and queued rows | `Boot`, `RecoverRunning`, `FailInterrupted`, `RecoverWaiting`, `RecoverQueued`, `Booted` |
| `stop()` | `Stop`, `GraceOver`, `Stopped` |
| `hold()` around a reload, and `configure()` | `BeginReload`, `EndReload` |
| `retryFor()`, with a `defaultRetry` that `configure()` changes | between `FewestOf` and `AttemptsOf` |
| two writes of one step, the second of which does not come to pass (725 and 726; `setStatus` and `endAttempt` of a stopped run; the parking of a cancelled one) | `BeginHalf`, `SettleHalf`; `Halfway` when the process dies between them |
| a store call that throws | `StartFails`, `RetryFails`, `SettleFails`, `FailInterruptedFails`, before or after the first of such writes |
| the dispatcher's `handOff()` (453-460), which may not arrive | `HandOff`; `Adopt` is the sweep for those |

Environment: the dispatcher inserts runs (`Queue`) and ends waits (`EndWait`); runners
succeed, fail (retryable or not), suspend, or throw after an abort. The
daemon stops the dispatcher before the executor (`core.ts` 822-830), so both happen only
while `mode` is "up"; so does `cancel()`, as the API closes first (`daemon.ts` 340-344).

Left out: what an action computes, `emit` and `state_updates` (a run that cannot route
its result fails, which is the same step), the config a run is pinned to but for how many attempts
it allows, progress, output and error columns. A task without a `retry` of its own has
`defaultRetry`, read anew at each start of a run: so a run may make up to `Attempts`, and any attempt from `FewestAttempts` on may turn
out to have been its last, also at a recovery. `pinned()` reads the store outside the `try` of `execute()`: when it throws, the rejection is
unhandled and `main.ts` stops the daemon, which is `StartFails` before any write and then `Crash`. Two
branches of recovery (a waiting run without a wait record, or with a wait that is
over; 431-439) are not modelled, as `WaitingHasWait` shows no state the program reaches takes them.

### 2.2 Dispatcher

`log` is the events table, `cursor` the dispatch cursor, `status` and `wait` hold the runs
per (task, event), the key that makes a replay harmless. A batch is one
transaction: `BeginBatch` reads events and wait index once, `DispatchEvent` handles one event
(deadlines before the reply, then depth, overlap and cap for every task), and
`CommitBatch` or `Rollback` ends it. Nothing interleaves with it (`Idle`), since the code
has no `await` there; the cut is there because the store can fail and the process
can die before the commit. `saved` is the store at BEGIN; memory (`index`,
`reported`, `batchReported`, `wakePending`) is not restored, as in the code. `fresh`
stands for "`waitIndex.revision` equals `waits.revision`".

`WakeStep`, `TimerStep` and `DrainStep` are the three callers (macrotask of `wake()`, the
1 s timer, `drain()`); they differ in what a full batch and a thrown batch lead to.
`CaughtUp` is a batch without events: it only ends the waits that are due.

Environment: publishers, ticks, operators, and an executor that begins, suspends and
ends runs. `Suspend` includes `matchWaitAgainstBacklog()`.

Left out: waits and filters that do not compile or throw (no match), limits changed by a reload,
retention, dedup keys of connectors' own events (a duplicate is not stored, and so not an
event), and a clock that goes backwards. The types an event or a wait matches are
a set instead of a pattern with a filter.

### 2.3 Supervisor

Connectors share only `stopping`, so the module is the life of one connector name. A
reload replaces the `Managed` object, which callbacks of the old one still hold: entries
are numbered slots, and so are spawns, each with the process it begins.

| Code | Model |
|---|---|
| `managed.get(name)` | `current` |
| `state`, `launched`, `starting`, `restartTimer`, `healthTimer` of a `Managed` | the same names |
| the await `spawnOnce()` stands at: proxy, launch, `launched.stop()` | `at`: opening, launching, discarding |
| a spawn's process | `proc`: live, stopping (told to go), none |
| `m.epoch` compared with the one a spawn or a health check began at | `stale`, and `stale` in a kill: the entry was killed since |
| what `kill()` awaits, per caller | `kills`: `start` (the aborted spawn), then `stops` (the process) |
| `restarting`, and `reloading` in `core.ts` 811-816 | `Busy`: a restart joins one in flight, reloads queue |
| `start`, `restart`, `apply` (new, gone, changed), `stop` | `Start`, `Restart`, `Add`, `Remove`, `Change`, `Stop` |
| what follows an `await this.kill()` | `RestartGoesOn`, `ApplyGoesOn`, `StopGoesOn`, `HealthGoesOn` |

`kill()` up to its first await is one step with its caller (`BeginKill`). Continuations
(`GoesOn`) run before the thread takes another callback: every other action waits for
`Quiet`. Processes, pings, handshakes, timers, operators and reloads are the environment.

`configure()` with a new `work_dir` is a restart like any other. Left out: the length of a
backoff and the counter behind it (a restart timer may fire at once), the count of missed pings
(any miss may be the last one allowed), connectors without a `health` section (a health timer that
never fires). What happens on a connector that is up is in `Ops`, `Agent`, `Process` and `NetProxy`.

### 2.4 What an attempt does

The executor knows an attempt as something that returns, throws, suspends or is aborted;
these modules open it. In each the run's life is reduced to attempts, aborts and crashes.

**`Llm`.** `spent` is the ledger (usd of a run on a day), `held` what `inFlight` reserves,
`batch` the batches a provider accepted and their rows, `pass` the poller's pass. A call
is `Call` (precheck and reserve, `service.ts` 716-), one await, then `CallReturns`,
`CallFails` or `CallCutOff`; a batched run is `RunBatched` (`actions/llm.ts`: submit, or
read the result of the row it waited for), `Submitted`, `SubmitFails`, `Resume`. The poller is
`StartPass`, `SettleBatch`, `PollAgain`, `StopPass`. `Tick` moves the clock over midnight
and over `BATCH_ABANDON_MS`; `Crash` loses the memory. `Contract` instantiates
`BatchContract` with `fate` and `paid` read off the rows: settling and abandoning happen
once, and the bill comes in the step that ends the batch. Left out: several batches of one run,
retries inside an adapter, models without a price.

**`Agent`.** `phase` is where `runAgent()` stands, `side` what the agent does for the
session, `session` what was reported and charged, `calls` the sets behind
`max_tool_calls`. Reports (`Asks`, `Reports`, `StartsUnasked`) come in any order while a
turn runs, and `AsksBetweenTurns` while none does; `Abort`, `Cancel`, `AfterGrace`, `Restart` are the
ways a turn is cut short, `Stuck` an agent that does not stop. `real` is what the agent
reported in truth, which the ledger must reach. Two instances: one run with tool
calls and retries, and two runs on one agent process, which a restart breaks together.

**`Bridge`.** A connection says hello, lists, calls; the run's abort, the agent's hang-up and
`close()` come at any point of a call. `ran` records what was forwarded and how it ended.

**`Sequence`.** One run of steps `wait, op, batch, op, op`. `progress` and `wait` are the two rows a
resumed attempt chooses between (`SavedIsAhead`). A step may fail before its effect (`Fail`), after it with an error
that is retried (`FailAfter`: an exit code, an unusable output, an error a connector calls transient, a time-out), with
an answer that never came (`OutcomeUnknown`), or for good. A batch that errored, expired or was canceled fails the
attempt that submitted it, and the retry, which gets the same `ctx.resume`, submits a new one (`SubmitsAnew`,
`actions/llm.ts` 121-136). `effects` counts the effects of each step that stand: one that came to an error which is retried, and one
whose outcome was lost before it was saved, is taken off, as repeating it is what the code is for. `lost`
bounds the crashes, stops and failed writes.

**`Shell`.** The command leads a process group and may start a helper that holds its pipes. `Abort` (timeout, cancel
or stop) sends SIGTERM to the group and arms the SIGKILL (`ForceKill`); `Settles` is the subprocess's end, which
waits for the pipes, and `Outcome` what the step then says of it. A helper that leaves the group, and a
daemon that exits within the five seconds before the SIGKILL, are left out.

### 2.5 What runs beside the runs

**`Cron`.** One task. `Arm`, `Fire` (cursor first, then publish, `cron.ts` 123), `Start` with `checkMissed()`,
`Reload`, `Stop`; every store call may fail. `LastFrom` is `lastAtOrBefore()`, the
binary search as it is written, turn by turn, on the set of instants `Due`. What `NoInstantForgotten` says is
that no instant of a downtime falls between a tick and a miss; `excused` collects what other causes make the code pass over:
the instants a late timer skips, a tick whose event was refused or died with the process, those of a check that failed
or that repeats the report of one, and those due at a reload. That the instants of a failed check are reported by
the next start, which `cron.ts` 73 says, is a property of its own (`NextStartReports` in `MCCron`), and violated.

**`Poller`.** The op returns any list (`Results`: any order, any repetition), so that
`SeenNext` (union, newest last, cut to `keep` but never below the current result) is
checked against what a list can do to it. `Purge` is retention removing an event's dedup key.

**`Retention`.** A pass in steps, each a transaction per batch until one is not full (`drain()`: `ABatch`, `Goes`; `PurgeRuns`,
`PurgeLedger`, `PurgeEvents`), then the directories (`LookAt`, `Swept`), with work, ends of runs, late bills and pushes between any
two batches. `git` of `MayHoldWork` is each git call's answer: it can fail as well.

**`Reload`.** One turn at a time (`Configure`, `Apply`, `StopPollers`, `StartPollers`,
`Switch`, `Undo`, `UndoPollers`), queued reloads, edits of the files between reading and
applying, a stop beside it. `broken` says an undo or a switch failed.

**`Host`**, **`Process`**, **`NetProxy`.** Connections are numbered as they come; `Process` is one group
with a leader, a mate, and a stray that left the group and holds the pipes;
`NetProxy` is two connections against one slot, each half of a tunnel ending, failing or stalling on
its own, names an exact entry, a wildcard or nothing covers.

### 2.6 Bundled connectors

**`Mail`.** `fetch_new` over IMAP and POP3. `server` is the mailbox (UIDs, UIDVALIDITY,
deletions by others), `state` what the connector stores with each call, `cursor` what the
task stores when its run succeeds: the two move at different times, which is what the properties
are about. A run may fail at any point. One of these points loses mail, that after the call stored a new UIDVALIDITY:
`FailsAfterReset` says whether it happens. `mail_reset` has it and shows the loss, the run `services` has not. Which UIDLs `MAX_SEEN` drops
is left open (`Kept`). One task whose runs do not overlap.

**`Pop3`.** One session of the client `Mail` takes for granted: the server's lines arrive in chunks of any size, the buffer keeps
what is not yet an answer, and the caller waits for one answer at a time. `meant` and `got` are what the server said and what
the caller heard. Lines that come before STLS must not be taken for answers after it.

**`Chat`.** Both backends share `Item`, `Answers`, `Forget`, `Commit`; `Matrix` selects the cursor (a
sync token of a batch, or an update's id) and the gap handling. `ask()` is `AskPosts`, `AskLoads`,
`AskSaves` beside the loop, with the lock that pairs them (`copy`, `Free`).

**`Ops`.** One run, one op, through supervisor, SDK and forge. `Transient` is `errors.ts` and
`api.ts`; `Answer`, `Breaks`, `TimesOut`, `ArrivesLate` are what a network does; listings are
paged as `paged()` and `JiraOps.search` do while the list changes. Single reads (`Gets`) and writes that
set or add something (`Writes`) differ in what a repetition does.

**`Ftp`.** An op is a `Plan` of steps on the server (the plan of a sync uploads everything to
staging names and then places it, `ops.ts` 331-); each step may be refused, break half way or lose
the connection, and the executor retries what `errors.ts` calls transient.

**`Webhook`.** One delivery posted again and again over the connections of the server: what `HeadersPass` and `BodyPasses`
check depends on the route (none, token, signature, signature with a time). The emit may be stored with its answer lost,
connections close before they are heard, and a stop drains those that are open.

### 2.7 The daemon's edges

**`Api`.** A request is read, routed, answered, lost or asked again; `cancel` and `restart`
await. `made` counts effects, `unsure` the tries whose client cannot know.

**`Scrape`.** Configures queue; `Bind`, `Rebind`, `Restore` and `StopOld` are the moves of the
listener while other programs take and leave addresses.

**`Daemon`.** Several daemons on one path: start, bind, probe, clear, unwinding, SIGHUP, stop, kill.
Two that bind or close in the same moment are left out (`MayAct`; section 5).

**`Backup`**, **`Upgrade`.** Files are none, short (torn), cached or kept, so that a power loss is a step
(`AfterLoss`, `PowerLoss`). `Backup` has the daemon's copy and handler and two clients with one
destination; `Upgrade` every step of `copyBeforeMigration()` and releases that come and go.

### 2.8 Bookkeeping

**`Transcript`.** Units of text and entries are numbered as they arrive; rows, the buffer and `fed` (history)
are sequences of them. `Written` is a write that may throw at any row, after which no other is tried.

**`Output`.** A chunk is its parts between newlines, so that `take` sees the empty ones the code sees. Whether the clock
has passed into a new window is a choice. `LinesOf` is the reference: the lines of the whole text.

**`Cycles`.** Every graph over four tasks; `Search` is the breadth-first loop, a fold over its queue.
`Circles` is the reference, from chains of events.

## 3. What is checked

Deadlock checking is on in the runs of `Executor`, `Dispatcher` and `Supervisor`. It is off in `services`,
`retention_work`, `mail_reset` and `cron_missed`, whose parts are bounded stories that end (a run that succeeded, a clock at its last
reading). Symmetry is not used: runs and tasks are ordered.

| Run | Instance | Properties |
|---|---|---|
| `executor_live` | 2 runs of 2 tasks (2 attempts, or as few as a reload leaves, and 1), pool of 1 or 2 workers, sweep of 1, store may fail (161,000 states) | `TypeOK`, `PoolAgrees`, `PoolMatchesStore`, `WaitingHasWait`, `AttemptsWithinPolicy`, `FailedAttemptIsSpent`, `KeepsContract`, `EveryQueuedRunSettles`, `StopCompletes` |
| `executor_pool` | 3 runs of 2 tasks (concurrency 1 each), 1 worker, store works (2.7 million states) | `ConcurrencyKept`, `NoLostPump`, `StopSpendsNoAttempt`, `CancelEndsRun` |
| `dispatcher_waits` | 4 events, batches of 2, 2 tasks (one cron with overlap: skip), waits with a deadline, 2 clock readings, store may fail | `TypeOK`, `ReplyNotMissed`, `ReplyEndsOneWait`, `DeadlineIsFair`, `IndexIsFresh`, `OverlapKept` |
| `dispatcher_chains` | 4 events, batches of 1, 3 tasks (the end of one triggers two, which trigger each other), depth 1, 2 runs per chain, store may fail | `ChainCapKept`, `DropsReported`, `NoLostWake` |
| `dispatcher_live` | 2 events, batches of 1, waits with and without a deadline, 3 clock readings, store may fail | `EveryEventDispatched`, `DeadlineEndsWait` |
| `supervisor_live` | 2 entries, 2 spawns, processes and external units, no restart while a reload replaces the entry | `TypeOK`, `NoneForgotten`, `OneAtATime`, `NeverStranded`, `ComesUp`, `StopReturns` |
| `supervisor_overwrite` | 2 entries, 3 spawns, with such restarts | `NoneForgotten`, violated |
| `supervisor_stop` | 2 entries, 2 spawns, without such restarts | `StopWaits`, violated |
| `services` | 30 instances of 26 modules: each with the constants of `MCServices.cfg`, and four in a second set-up (`MCServices`: two agents on one process, Telegram, two clients of the API, a forced backup) | `TypeOK`, `SpendIsCounted`, `NothingDoneTwice`, `NothingForgotten`, `AllOrNothing`, `NothingLeftRunning`, `OnlyWhatWasAllowed`, `SecondSetUps`, `KeepsBatchContract`, `NoStepRepeatsOrDrops` |
| `mail_reset` | an IMAP mailbox with `initial: all`, 2 mails, runs that may fail anywhere | `PassedOrHandled`, violated |
| `cron_missed` | 3 instants, checks that may fail | `NextStartReports`, violated |
| `retention_work` | the instance of `Retention` in `services` | `WorkKeptByRetention`, violated |

**Bounds.** `CancelEndsRun` and `StopSpendsNoAttempt` are
run with a store that works, as a step that loses a cancel is indistinguishable from one
whose store call failed. The executor's are the sets `Runs`, `Tasks` and the retry policies; nothing
else is bounded: crashes, stops, reloads, store failures, lost hand-offs and waits may come any
number of times. Two runs suffice for the races of a run with itself and with one
neighbour; three are needed for the pool: one that holds the worker, one backing off,
and one pending behind a concurrency limit. Two attempts separate
the one that may be retried from the last. `AdoptBatch = 1` makes the sweep's batch the
bottleneck that 1000 rows would be. What more workers, runs and attempts could bring is settled by the
theorems of section 4.1, which hold for any number.

The dispatcher's are `MaxEvents` (events the environment publishes; `loop.detected`
comes on top) and `MaxTime` (readings of the clock), guards of the environment's actions only.
For waits four events are a trigger, a full batch behind it and a reply left in the backlog when that
batch commits (the case `DeadlineIsFair` is about), or two replies for two waits of one run; for
chains they are a trigger, two hops of lifecycle events, and a `loop.detected`. `ReportedLimit = 1` makes the clearing of
`reported` happen.

The supervisor's are `Entries` and `Spawns`, slots reused once nothing refers to them, so
nothing is counted: restarts, reloads and crashes go on for ever. Two entries are one
supervised and one replaced or removed; two spawns are a process on its way out or a launch given up, and the
next. In `supervisor_overwrite` a third is one that is overwritten. An action that needs a free slot waits for one.
`SupervisorProofs` has the safety properties for any number of both.

The bounds of the service modules are in `MCServices.tla`, each beside the instance: two or
three actors (runs, connections, clients, questions), caps and lists of one or two so that they overflow,
two attempts so that one is retried and one is the last, and clocks of a few ticks: two
UTC days for `Llm`, retention's cutoffs at one or two ticks and batches of one. Counters of disturbances (`MaxFaults`, `MaxLosses`,
`MaxTries`, `MaxItems`) bound only the environment. Crashes, kills and power losses are not counted.

**Fairness.** For `executor_live`: Node's event loop serves every callback that stays
due (pump, recovery, a stop's grace timer), every attempt ends as its timeout aborts
it, every backoff timer fires, a reload gets through, and systemd starts the daemon
again. An attempt's end and the sweep are strongly fair, as `pumping` and a
stop disable them for a moment again and again; the timers behind them keep running.
Nothing is assumed to make an awaited event arrive. `EveryQueuedRunSettles` also supposes
that disturbances stop (`Undisturbed`: no crash, stop, store failure or new wait for
ever), and leaves out the runs an earlier store failure left `running` outside the
pool, which the code leaves to the next start. A queued run whose hand-off never arrived is not left out: the
sweep must find it. For `dispatcher_live`: the open batch and drain go
on, the timer fires, the clock advances, systemd restarts. `wake()` gets no fairness: the
timer alone must suffice. For `supervisor_live`: the event loop serves every callback that
stays due. The fairness is strong as continuations run between and disable the rest for a
moment. A proxy opens or fails, a handshake or ping ends with its timeout, a process that
was told to go is killed after its grace (5 s), and the restart timer fires. Nothing makes a
launch succeed but that failures end (`Undisturbed` in `ComesUp`: they, restarts and reloads stop
for ever). `StopReturns` assumes nothing of the kind.

**The composite.** The service modules share no state with one another: what connects
them (events, rows, an attempt's outcome) is in each part's environment. `Services`
instantiates each over the same ten variables, picks one in `Init` and lets it run
alone, so one run explores the union of their state spaces (1.8 million states), and each of its properties
is a question asked of every part it concerns, an implication per part. It is no
product: a property of one part says nothing of the others. `MCServices` gives the constants their values and
adds the second set-ups.

| Property | What it asks, by part |
|---|---|
| `TypeOK` | every part: the values its variables may take |
| `SpendIsCounted` | `Llm`: what was spent and is held passes the daily cap by one worst case at most, and a day that reached it was reported; `Agent`: outside a turn the ledger holds what the agent reported, and success means within budget and policy |
| `NothingDoneTwice` | `Llm`: a run that has paid for a batch does not submit it again; `Sequence`: an effect is repeated only once it came to an error that is retried, or what came of it was lost, and results belong to their steps; `Cron`: an instant is run or missed, not both; `Mail`: one successful run gets a mail; `Chat`: what the chat confirms is what the core has; `Ops`, `Ftp`: a retry is one that may be made; `Webhook`, `Api`: an answer says what was done, so asking again is safe |
| `NothingForgotten` | `Cron`: no instant of a downtime falls between a tick and a miss, those `excused` aside (section 2.5); `Mail`: what the cursor passes was handled, where no run fails after a reset (`FailsAfterReset`); `Poller`, `Retention`, `Chat`, `Ops`, `Daemon`: what a cursor, a list or a sweep passes was handled; `Transcript`, `Output`: what was sent or printed is written, or counted; `Cycles`: each circle of tasks is named once; `Shell`: the step tells its command's outcome and has all it printed |
| `AllOrNothing` | `Reload`, `Ftp`, `Backup`, `Upgrade`, `Scrape`, `Daemon`: others see the old or the new, never half; `Pop3`: an answer is heard whole, by who asked for it |
| `NothingLeftRunning` | `Agent`, `Host`, `Process`, `Shell`, `NetProxy`, `Webhook`, `Backup`, `Scrape`, `Daemon`: nothing outlives what it belongs to |
| `OnlyWhatWasAllowed` | `Agent`: calls within the cap; `Bridge`: granted and listed ops, for a live run; `NetProxy`: no private address through a wildcard; `Webhook`: what was emitted was verified |
| `KeepsBatchContract` | `Llm` implements `BatchContract` |
| `NoStepRepeatsOrDrops` | `Poller`: no step emits an item that stayed on its pages again; `Retention`: none deletes a ledger row that a cap still sums |
| `SecondSetUps` | the second set-ups: what the properties above ask of `Agent`, `Chat`, `Api` and `Backup` |

Variables such as `excused`, `waived`, `evicted`, `lost` or `unsure` in these modules are history: they
record the cases a code comment or a limit excuses, so that the property speaks of all others. What they excuse
is named in each module and, where it surprised, in section 6.

**What the runs show.** Every property of a passing run holds. Five runs show where
the code departs from its own comments or docs:

* `supervisor_overwrite`: `apply()` makes the replacement of a changed connector
  current (443) and spawns it once the old entry is killed (444), which may take seconds. A `restart()` of the
  name meanwhile finds the replacement, has nothing to kill, and spawns it;
  then `apply()` spawns it again. `m.starting` and then `m.launched` are overwritten, both processes run,
  and the first is never stopped: what lines 460-461 say joining restarts prevents. With
  `RestartWhileReplacing = FALSE` the other runs find no other such race.
* `supervisor_stop`: `kill()` clears `m.launched` before it awaits the exit, so a `stop()` that comes while
  a restart or a health check is stopping the process finds nothing to wait for and returns while
  the process may still be in its grace. Line 398 says it waits. For the same reason a restart during
  a health check's kill spawns beside a process that is on its way out; `OneAtATime`
  therefore counts only processes nobody has told to go.
* `retention_work`: the sweep asks git whether a directory holds unpushed commits. `unpushedCommits()` takes
  any failure of `git rev-parse --verify` for a branch that is gone (`actions/agent-workspace.ts` 241-247) and
  answers 0, so a git that cannot run or read the repository has the directory deleted with its
  commits, where the comments (224-225; `retention.ts` 174) say it is kept.
* `mail_reset`: `fetchNew()` stores a new UIDVALIDITY with the call (`connectors/email/src/imap.ts` 146), the task its
  cursor only with a run that succeeds. When the run fails, the next call gets the cursor of the old numbering and,
  as the stored UIDVALIDITY is now the server's, uses it with the new one: the mails whose UIDs are at or below it are skipped. Lines 4-6 and
  `docs/connectors/email.md` 124-125 say that the mail of a failed run comes back. With
  `FailsAfterReset = FALSE` no mail is lost, in the run `services` and by proof (`MailPassedOrHandled`).
* `cron_missed`: a start whose missed check fails keeps the cursor, arms the task all the same, and its first tick
  moves the cursor to itself (`scheduler/cron.ts` 123). The next start counts from there, and the instants the failed
  check could not report stay unreported, where line 73 and `docs/internal/store.md` 80 say that it "reports the miss again".

Points that looked doubtful while modelling and that the checks settle:

* A wait that ends while the runner still cleans up is refused by `enqueue()`, and the
  re-read in the `finally` block (832) is all that saves the run; a stop at that
  moment leaves it `queued` for the next start.
* A cancel that meets a parked run (764) may find it `waiting` or already `queued`; both end.
* A run that a failed write left `running` outside the pool is not adopted (the sweep reads
  `queued` rows only) and blocks its task's `overlap: skip` until a restart; this
  is what `LeftForNextStart` says.
* A cancel accepted for a run in flight is not stored: `CancelEndsRun` excludes a crash.
* Clearing `reported` at its limit is safe because the dedup key of `loop.detected`, not the memory, makes it unique.
* Two calls of different runs checked at the same time cannot both overshoot the daily cap: the reservation is made in the
  same stretch as the check (`llm/service.ts` 716-), so it is one worst case, whatever else is awaited.
* A batch abandoned by the poller while its run resumes is neither paid nor settled later (`KeepsBatchContract`).
* A sequence resumed from its wait after a retry saved newer progress takes the newer of the two.
* A poller whose result is longer than `keep` keeps all of it, and an item that stays is not emitted again.
* A new metrics address that clashes with the old one (same port, any host) cannot be bound
  first; closing and binding again, with the old one restored on failure, leaves a listener unless another
  program took the address in between (`lost`).

## 4. What is proved

### 4.1 Executor

`ExecutorProofs`, for every set of runs, tasks, policies, pool size, sweep batch and
store behaviour (the only assumption is `ExecutorAssumption`: those constants have
their types, runs are finitely many):

| Theorem | States |
|---|---|
| `PoolIsSound` | `Spec => []PoolAgrees` |
| `TypesAreCorrect` | `Spec => []TypeOK` |
| `PoolMatchesRows` | `Spec => []PoolMatchesStore` |
| `WaitingRunsHaveWaits` | `Spec => []WaitingHasWait` |
| `EndsPublishOnce` | `Spec => []EndPublishedOnce` |
| `AttemptsAreBounded` | `Spec => []AttemptsWithinPolicy` |
| `ConcurrencyIsKept` | `Spec => []ConcurrencyKept` |
| `PumpIsNeverLost` | `Spec => []NoLostPump` |
| `StartsHaveTheirWorker` | `Spec => StartsHaveWorker` |
| `NoOpenAttemptRemains` | `Spec => []NoOpenAttemptAfterEnd` |
| `FailedAttemptsStaySpent` | `Spec => FailedAttemptIsSpent` |
| `StopsSpendNothing` | `Spec => StopSpendsNoAttempt` |
| `CancelsEndRuns` | `Spec => CancelEndsRun` |
| `ExecutorKeepsContract` | `Spec => KeepsContract`: refinement of `RunContract` |

The argument has two layers. `PoolInv` is about the pool alone: its types, the books of
`PoolAgrees` (`perTask` is the number of runs in flight of a task, which needs the
cardinality lemmas `CountJoin` and `CountLeave`; no queue holds a run twice, which needs the
queue lemmas), and `BackoffsTold`: once a stop began, every run in a backoff was aborted,
so none can come to queue for a worker when `retryReady` has been emptied.

`RowsInv` relates pool and rows: a pending record still says what the row says, and one
read as `running` by recovery has an attempt left; a run that performs or backs off is
`running`, one that parks is `waiting` or `queued`; a backoff is only below the policy; a
`queued` run either never started or has a wait that is over; recovery holds no
run it has yet to look at. The properties need this much: `PumpStart` adds one to an attempt,
which stays in bounds only because a queued run it does not resume never started, and
`AbortStopped` takes one off, which stays a natural number only because a run in flight has
started. `InvHolds` proves `PoolInv /\ RowsInv`. Types, rows, waits, events and attempts
follow at once; `NoLostPump`, `ConcurrencyKept`, `NoOpenAttemptAfterEnd` and
`StartsHaveWorker` take one more step lemma each. For the refinement every action maps to
the one `RunContract` step its store transaction makes, or to a stutter.

Two further layers are about what becomes of attempts. `RunChanges` says once, for every action, how a step may
change one run (`Changed`: it begins an attempt, ends, fails one, gives one back, suspends, parks, is queued again,
recovered, or left half started), so that a statement about one run is checked against ten cases
instead of thirty actions. `SpentInv` then relates the attempt rows to the counter: a failed row is never above the
counter, and below it unless the run is running, so that what a stop gives back (`GivenBack`) is never
a failed one. `ToldInFlight` (only runs in flight carry an abort's reason) is what
`CancelsEndRuns` needs of the past. With these every safety and action property of `Executor` is proved.

### 4.2 Dispatcher

`DispatcherProofs`, for every set of tasks, triggers, limits and batch size, whatever fails:

| Theorem | States |
|---|---|
| `DispatcherTypeOK` | `Spec => []TypeOK` |
| `IndexStaysFresh` | `Spec => []IndexIsFresh` |
| `NoReplyMissed` | `Spec => []ReplyNotMissed` |
| `OneReplyOneWait` | `Spec => []ReplyEndsOneWait` |
| `DeadlinesAreFair` | `Spec => []DeadlineIsFair` |
| `OverlapsAreSkipped` | `Spec => []OverlapKept` |
| `ChainCapHolds` | `Spec => []ChainCapKept` |
| `RunawaysAreTold` | `Spec => []DropsReported` |
| `WakesAreKept` | `Spec => []NoLostWake` |

`StoreInv` is stated of a log, a position in it, statuses and waits, rather than of the variables, since it is needed twice:
of the store as the open batch has it (dispatched up to the event before the next), and of `saved`, which
a rollback or a crash brings back. Its parts: events are stored in the order of time and name chains that exist
(`LogInv`); runs are of dispatched events, and wait exactly while their wait is armed (`RowsInv`); an armed wait has overlooked no reply
the dispatcher passed, and how one with a deadline ended is settled by when events were stored (`WaitInv`); overlap, chain
counts and reports (`OverlapInv`, `ChainsInv`, `DropsInv`). There is one lemma per way to write to a store: `PublishKeeps`,
`SuspendKeeps`, `EndRunKeeps`, `ExpireKeeps`, `DispatchKeeps`.

`BatchInv` relates that to memory. While a batch is open, everything it wrote is newer than what it goes over, its events carry the present clock, the index
holds the pending waits but those the batch ended (`Open`), and every chain in `reported` is told
in the saved log, that is, also after a rollback; those in `batchReported` only in the log. That
difference is why the code needs two memories. `ChainCapHolds` rests on `StartsFit`: the tasks one event starts fit into what is left of the cap,
counted once per event. `WakeInv` adds who runs the open batch, and that a batch that grew the log
has a wake pending, without which `NoLostWake` is not inductive.

### 4.3 Supervisor

`SupervisorProofs`, for every number of entries and spawns, and every mix of processes and external units:

| Theorem | States |
|---|---|
| `SupervisorTypeOK` | `Spec => []TypeOK` |
| `NothingIsForgotten` | `Spec => []NoneForgotten`, if `RestartWhileReplacing = FALSE` |
| `OneIsAtWork` | `Spec => []OneAtATime`, likewise |
| `NoneIsStranded` | `Spec => []NeverStranded`, likewise |

The hypothesis of the last three is no convenience: with `RestartWhileReplacing = TRUE` the code violates `NoneForgotten`, which is the
run `supervisor_overwrite`. The theorems say that this restart is the only way it goes wrong. It is a value of a
constant, and `supervisor_live` checks the model with it.

`IndInv` is a conjunction of seven parts. `SlotsAgree` and `ProcsAgree`: an attached process is live and its owner is the current entry, a
live process that is attached to nobody is with its launch. `OneInFlight`, `StaleAgree`, `StaleAwaited`: at most one spawn is in flight, and one that was
killed or replaced is awaited by whoever spawns the next. `KillsAgree`: who waits for a process has told it to go. `StatesAgree` gives, for each
value of `state`, the one thing that brings the current entry up again; these are equivalences, since an entry that
two would start is how a second process comes about. `TypeInv` and `StopInv` come first and need no hypothesis.
There is one lemma per action (`RestartKeeps`, `ReplaceKeeps`, `CondemnKeeps`, `KillGoesOnKeeps`, ...).

### 4.4 The llm service

`LlmProofs`, for any runs, batches, days, prices and caps (`LlmAssumption`, which `MCServices` evaluates):

| Theorem | States |
|---|---|
| `LlmTypeOK` | `Spec => []TypeOK`: among the types, that a run holds a worst case exactly while a call of its is in flight |
| `LlmCapHolds` | `Spec => []CapOvershootsByOneCall`: concurrent calls, submissions, settlements and midnights overshoot the daily cap by less than one worst case |
| `LlmOverspendIsTold` | `Spec => []NoSilentOverspend`: no day reaches the cap without its `budget.exceeded` |
| `LlmBatchNotRepeated` | `Spec => []ParkedBatchNotRepeated`: a run submits again only after the batch it waited for failed |
| `LlmKeepsBatchContract` | `Spec => KeepsBatchContract`: refinement of `BatchContract` |

The caps are about sums over the ledger and over what runs hold, and the module first proves what it needs of them:
`Total` is the sum whatever the order of its elements (`TotalTake`), grows with the set (`TotalGrows`) and changes by what one
element changes (`TotalChange`). `MapThenFoldSet`, which `Total` is built on, only chooses its iteration, so `SumsExist` shows that there is one.
Inductions on the size of a set are done on a smallest counterexample (`SmallestSet`, from
`WFMin`), since the library's induction theorems take an operator.

`CapOvershootsByOneCall` is inductive over `TypeInv`: a step that holds more was checked in the same step; a step that
enters a bill releases at least as much (`held` is the worst case of its kind, a row is `BatchWorst`);
midnight only lowers `SumSince`. `Booked` names what is reserved for any rows and holds, so that one lemma
serves the state before and after.

`ParkedBatchNotRepeated` is far from inductive. `WaitInv` says that of a run's batches only the last may have a row, or be
one it was parked with that has not failed (`Awaited`), that the run waits for the latter, and is not in a
submission then. `NothingAwaited` is the heart of it: a run that reaches the submission has no row, its wait did not time out
and its result is not to be read, so whatever it waited for failed. `NumbersAgree`, that batches are numbered as they are accepted, makes
the new one the last. The refinement needs `BatchAgrees`: a batch with a row was neither told nor paid.

### 4.5 Upgrade, backup, daemon

These are in `ServiceProofs`:

| Theorem | States, for every value of the constants |
|---|---|
| `UpgradeTypeCorrect`, `UpgradeWayBack` | whatever start is cut off where, the database is what the last migration left, or a copy of that is whole and on disk |
| `BackupTypeCorrect`, `BackupDestIsWhole` | any clients, forced or not: the destination is a whole copy on disk or what it was, and at most one unforced run places its own |
| `BackupNoCopyLeft` | the daemon's copy is gone when its request is over, the client's hidden file when the client has answered |
| `DaemonTypeCorrect`, `DaemonSocketIsKept` | any number of daemons on a path: one that is up accepts and owns the file; a start is refused only for a daemon that was there |
| `DaemonNothingLeftOpen`, `DaemonHupNotLost` | a failed start and a stop leave no core and no server; a SIGHUP during a start is not left over |

`UpgradeInv` adds to `WayBack` what the steps between the sync and the migration know: from
`synced` on the copy of the current schema is on disk, so `Tidy` may remove the others, and
after it that copy is the way back. `MayTidyEarly`, a mutant, is the order that breaks it.

`BackupInv` has three parts. `ClientIsPast` says what the client's step implies of its
hidden file (after `Sync` it is on disk, which a power loss leaves alone); `DestIsPlaced` that
whoever wrote the destination placed a whole file; `CopyIsRemoved` that a request that is over has no
file. `DestIsWhole` alone is not inductive: `Place` needs that a synced file is whole.

`DaemonInv` adds `OneActs` (the assumption `MayAct` carried through the steps), `FileIsAccepted`
(the file's owner accepts, unless it was killed or its close goes on), and `CoreIsStopped`.
A start is refused only when the probe was answered, hence `refused` is within `rival`.

The assumptions on the constants (`BackupAssumption`, `DaemonAssumption`) say that the
names of clients and daemons are none of the reserved ones; the theorems take them as hypotheses, `MCServices` evaluates
them. The properties these theorems state are parts of `AllOrNothing`, `NothingLeftRunning` and
`NothingForgotten`: the run checks them on one instance.

### 4.6 The other service modules

`ServiceProofs` and `ConnectorProofs` instantiate modules, each with its own constants and variables: the first `Agent`, `Host`,
`Process`, `Scrape`, `Bridge`, `Reload`, `Shell`, `NetProxy`, `Retention`, `Sequence`, `Api`, `Cron`, `Poller` and the three
of section 4.5, the second `Webhook`, `Ops`, `Pop3`, `Ftp`, `Mail` and `Chat`. A theorem is about one of them: from that
module's assumption (which `MCServices` evaluates) and its own `Spec`, for every value of its constants. What they state
are the parts that module has in the composite properties of the run `services`.

| Theorem | Part of | For every value of the constants |
|---|---|---|
| `AgentTypeOK` | `TypeOK` | types |
| `AgentLedgerIsReported`, `AgentSucceedsCleanly` | `SpendIsCounted` | outside a turn the ledger holds what was reported; success is within budget and policy |
| `AgentAllowedWithinCap` | `OnlyWhatWasAllowed` | calls the agent asked for stay within `max_tool_calls` |
| `AgentNoUnwatchedTurn` | `NothingLeftRunning` | the agent works only while its run watches |
| `HostOneSession`, `ProcessGoneWhenSaid` | `NothingLeftRunning` | one process per session, over connections that overtake one another; a process said to be gone leaves nothing |
| `ScrapeListenerKept`, `ScrapeClosedStaysClosed` | `AllOrNothing`, `NothingLeftRunning` | the listener is where it was last configured with success; none after `close()` |
| `BridgeOnlyGrantedCalls` | `OnlyWhatWasAllowed` | only granted calls, for a live run |
| `ReloadNoHalfReload` | `AllOrNothing` | at rest everything is of one checked configuration, unless an undo failed |
| `ShellNothingRunsOn`, `ShellOutcomeIsTrue`, `ShellOutputKept` | `NothingLeftRunning`, `NothingForgotten` | what an abort leaves; what the step then says and has |
| `ProxyNothingHalfOpen`, `ProxyNothingCutShort`, `ProxyWildcardStaysPublic` | `NothingLeftRunning`, `OnlyWhatWasAllowed` | tunnels end with both their ends; no private address through a wildcard |
| `RetentionNeededStays`, `RetentionCapsKept` | `NothingForgotten`, `NoStepRepeatsOrDrops` | what a sweep leaves alone, batch by batch |
| `SequenceRepeatedOnlyAfterFailure`, `SequenceResultsBelong` | `NothingDoneTwice` | retries, failed batches, losses, and two checkpoints either of which may be newer |
| `ApiAnswersAreTrue`, `ApiRetryIsSafe` | `NothingDoneTwice` | answers, and clients that ask again |
| `CronNothingForgotten`, `CronTickedOrMissed` | `NothingForgotten`, `NothingDoneTwice` | an instant the cursor passed is ticked, missed or `excused`, and not both of the first two |
| `PollerSeenWasEmitted`, `PollerSteadyEmittedOnce` | `NothingForgotten`, `NoStepRepeatsOrDrops` | lists and results of any length |
| `WebhookAnswersAreTrue`, `WebhookEmittedIsGenuine`, `WebhookDrainsClean` | `NothingDoneTwice`, `OnlyWhatWasAllowed`, `NothingLeftRunning` | answers, checks and the drain |
| `OpsWriteNotRepeated` | `NothingDoneTwice` | a write that is not safe to repeat |
| `Pop3AnswersBelong` | `AllOrNothing` | sessions and mails of any length, cut into any chunks |
| `FtpReadersSeeWhole`, `FtpSyncMirrors`, `FtpRetriesAreClean` | `AllOrNothing`, `NothingDoneTwice` | trees, plans and attempts of any size |
| `MailTypeOK`, `MailPassedOrHandled`, `MailGotOnce` | `TypeOK`, `NothingForgotten`, `NothingDoneTwice` | resets, renumbering and failing runs; the second if `FailsAfterReset = FALSE` |
| `ChatTypeOK`, `ChatCursorPassesHandled`, `ChatQuestionsKept`, `ChatConfirmedIsReply` | `TypeOK`, `NothingForgotten`, `NothingDoneTwice` | timelines, questions and failures without end |

The hypothesis of `MailPassedOrHandled` is like the supervisor's: with `FailsAfterReset = TRUE` the code violates the property, which is
the run `mail_reset`. The theorem says that a run that fails after the call stored a new UIDVALIDITY is the only way mail is lost.

None of the stated properties is inductive. What each needs beside its types:

* `AgentInv`: the ledger equals what the open session reported and was charged for at every await, not only outside turns (`Accounts`); who
  watches a turn (`Watched`); the sets behind the cap bound the calls (`CallsCounted`).
* `HostInv`, `GroupInv` with `CallInv` (`Process`): which awaits a process may still be attached to, and what a signal on its way has still to end.
* `ListenerInv`, `CloseInv` (`Scrape`): where the listener is at each step of a move, with what is to be restored.
* `BridgeInv`, `ConnectionInv`: a call in flight has a live run; the answer a connection waits for is that call's.
* `PollersInv`, `TurnInv`, `RestInv` (`Reload`): which of agents, connectors, pollers and cron jobs are of the old and which of the new
  configuration at each await of a turn, an undo or a stop.
* `AnswerInv` (`Webhook`): what each stage of a delivery has checked, and an emit that may be stored.
* `RunnerInv`, `AbortInv` (`Shell`); `EndsInv` (`NetProxy`): what either end of a tunnel has sent, delivered and closed.
* `RowsInv`, `NeededStays` (`Retention`): cut-offs are in order. That `KeepLedger` covers a UTC day and `KeepRuns` covers
  `KeepLedger`, as the schema demands, is what `RetentionCapsKept` cannot do without.
* `PlaceInv`, `EffectsInv` (`Sequence`): how the two checkpoints and the effects done outside are ordered.
* `TrueOf`, `CountedOf`, `HandlerOf` (`Api`), `OpsCallInv`, `WriteInv` (`Ops`): what a client or a caller may conclude from no answer.
* `TimerInv`, `AccountInv` (`Cron`): the timer is armed for the next instant behind the cursor. `LastIsFound` proves that the binary search
  ends at the last instant, by its loop invariant over the turns (`HalveSearches`), whose existence `TurnsExist` shows.
* `PollerInv`: `SeenNextIs` says what the new list holds of the old one, from what `Picked` makes of any list (`PicksExist`, `PickedIs`).
* `Pop3Inv`: buffer and wire together are the rest of the server's answer (`AnswerWay`, `Says`). A chunk leaves the two together
  as they were (`Chunk`), the end of a mail is its last line (`EndIsLast`), so what is taken once it is complete is all there is (`WholeAnswer`).
* `FtpInv`: between attempts nothing is under way (`Rests`), and until its last step a put or a remove leaves the target as it was (`PlainInv`).
  `SyncInv` is about a plan of any length: no target is ever partial (`NonePartial`), at each step the files up to it are staged or placed
  (`Progress`, `FirstTry`), nothing goes missing or is pruned before all is in place (`Kept`, `Surpluses`), and a sync that is done mirrors the tree (`Mirrored`).
* `MailInv`: UIDs grow (`UidsGrow`), and what each backend's cursor or list claims of the mails it covers (`ImapKept`, `Pop3Kept`), under the condition
  that the cursor belongs to the numbering it is compared with (`SureCursor`: no run failed after a reset, or there was no reset yet). `Once` is `GotOnce`
  with the run in flight.
* `ChatInv`: a batch is a stretch of the timeline in order (`BatchInOrder`); of `ask()` and the loop one holds a copy of the pending list at a time
  (`OneHolder`); the pending questions are the open ones without a reply (`PendingIsOpen`); what is passed became an event or a reply (`PassedIsSettled`);
  the first answer to a question is the one stored and confirmed (`FirstCounts`).

Proving changed the models in a few places. `Scrape`'s `Bind` closes the old listener first only where there is one: `Off` has port 0,
which nothing kept an address from having; the assumptions of `NetProxy`, `Sequence` and `Poller` now say that
names and keys are none of the reserved values; and `Cron`'s search and `Poller`'s filters are written as functions of
the turn or the place, as the provers know neither `RECURSIVE` nor the library's filter.

### 4.7 The composite

`SystemParts` and `SystemProofs` carry these theorems, and those of `LlmProofs`, over to `Services` as it stands, from `ServicesAssumption` (the
conjunction of the parts' assumptions):

| Theorem | States |
|---|---|
| `NothingIsDoneTwice` | `Spec => []NothingDoneTwice` |
| `SpendIsAlwaysCounted` | `Spec => []SpendIsCounted` |
| `AllOrNothingHolds` | `Spec => []AllOrNothing` |
| `NothingStaysRunning` | `Spec => []NothingLeftRunning` |
| `OnlyTheAllowedHappens` | `Spec => []OnlyWhatWasAllowed` |
| `BatchContractKept` | `Spec => KeepsBatchContract` |
| `NothingRepeatedOrDropped` | `Spec => NoStepRepeatsOrDrops` |

`PartsBegin`, `PartsStep`, `OthersBegin` and `OthersStep` say that `Services` starts and steps as the part it picked does. For each part one lemma
(`SameAgent`, ...) shows that the module as `Services` instantiates it and as its proofs do are the same formulas, and one
(`AgentHolds`, ...) brings the invariant over. What the composite adds is that no part of a property is missing from its theorem.

### 4.8 Only model-checked

* All liveness (`EveryQueuedRunSettles`, `StopCompletes`, `EveryEventDispatched`, `DeadlineEndsWait`, `ComesUp`, `StopReturns`), as
  TLAPS does not reason about `ENABLED` and fairness here.
* `NoneForgotten`, `OneAtATime` and `NeverStranded` where a restart may reach the entry a reload replaces: the first is violated there,
  as `WorkKeptByRetention`, `PassedOrHandled` with `FailsAfterReset`, `NextStartReports` and `StopWaits` are in their runs.
* `NothingForgotten` as a whole: its parts for `Cron`, `Poller`, `Retention`, `Mail`, `Chat`, `Shell` and `Daemon` are proved; those for
  `Transcript`, `Output`, `Cycles` and of `Ops` that a listing is whole (`SucceedsWithAll`) are not, as they speak of what a recursive function
  computes or count over sequences. `SecondSetUps` asks the same of constants the theorems cover already, and is not proved apart from them.
* The type invariants of the service modules but `Llm`, `Agent`, `Upgrade`, `Backup`, `Daemon`, `Mail` and `Chat`: the invariants above have the types
  their proofs need. `TypeOK` of the composite is therefore checked only.

## 5. Not modelled, and why

* **LLM provider adapters, sandbox command lines, configuration (but `Cycles`), expressions and templates**: parsing
  and translation without state. Models abstract them to what they decide (a call's
  outcome, a launch that fails, a version that is valid, a task that matches).
* **Secrets, state and dry run**: single key-value reads and writes; those that matter to an order
  (`Mail`, `Chat`, `Poller`, `Api`'s put and delete) are in the modules that make them.
* **Command line**: a client that prints what it gets; `oa backup` is `Backup`.
* **The action runner `decide.ts`**: an attempt that returns, throws or is aborted, as in `Executor`.
* **Time zones and cron expressions**: the instants of a schedule are a constant of `Cron`.
* **Real time.** Timeouts may fire at any moment, or the clock has a few readings; no property is about durations.
* **Wire formats**: signatures, IMAP and FTP dialects, encryption of Matrix rooms, JSON-RPC framing.
* **Several daemons binding or closing in the same instant**, and systemd notification (see section 6).

Parts of modelled components that are left out are named in section 2 and in `PROJECT.json`.

## 6. Met while modelling

Where the code and its comments or docs disagree beyond the five runs of section 3, or where a
property had to excuse a case. None of these is claimed by a run; each was read in the
source.

* `connectors/email/src/imap.ts` 146: the key of the stored UIDVALIDITY is not per folder, so two folders on one connector reset each other.
* `connectors/email/src/pop3.ts`, `MAX_SEEN`: a mailbox with more mails than that forgets the oldest UIDLs, which then
  come back as new ones before newer mail.
* `connectors/chat`: an answer that arrives between posting a question and saving it is dropped (tap) or
  relayed as a message; after a give-up or a gap the confirmation may name another choice than the stored reply.
* `connectors/github/src/api.ts` 29-34: any failing answer with `x-ratelimit-remaining: 0` is transient, also one to
  a request that may have been carried out.
* `connectors/ftp`: where a rename does not replace, the old file is removed first; a refused rename and the
  clean-up of the staging name leave neither.
* `connectors/webhook`, `routeName`: `/hooks/github` and `/hooks-github` give one dedup prefix; ids are cut at 200 characters.
* `llm/service.ts` 228-236: a submission accepted by the provider whose suspension's store write fails is
  submitted again on retry (`docs`' model-actions.md names it as an accepted gap; `ParkedBatchNotRepeated` starts at
  the parked row). The sum since midnight has no upper bound and settling uses the check's clock, so a call over
  midnight may report yesterday as exceeded.
* `scheduler/cron.ts` 123: the cursor moves before the tick is published. Where the publish then fails, the tick is neither published nor counted as
  missed (`excused`), though `docs/tasks/triggers.md` 55 counts missed ticks "from the last tick it published".
* `config/retention.ts` 34-43: the row of a batch settled after its run ended is of today and goes with its run.
* `core.ts` 200 and 644 ("All or nothing"): `switchTo` writes cursors while it arms cron jobs; a store that fails there leaves the later ones
  unarmed (`broken`). A stop does not wait for a reload begun by SIGHUP.
* `connectors/host.ts`: a third connection during a drop does not wait for the old process; `stop()` resolves before its process is gone.
* `connectors/supervisor.ts`: a restart that joins one in flight does not see a secret rotated after that one resolved it.
* `POST /v1/runs`: publish and drain are two commits; when the second throws the answer is 500 with the event stored (`RetryIsSafe`
  speaks of emits only).
* `daemon.ts` 318: the core starts before the socket is bound, so a second daemon recovers the first one's runs
  before it learns the socket is taken. Two daemons that meet over a stale file, or one whose `close()` removes the path after another
  bound it, can remove a live daemon's file (`MayAct`).
* `store/db.ts`: a daemon killed during a backup leaves its hidden copy beside the database.

## 7. Plan

1. *(done)* `RunContract`, `Executor`, `ExecutorProofs`, `Dispatcher`, `Supervisor`.
2. *(done)* The service modules, their composite run, `BatchContract`.
3. *(done)* `DispatcherProofs`, `SupervisorProofs`, `LlmProofs`, the remaining safety and action properties of `Executor`.
4. *(done)* `ServiceProofs` (16 of the service modules), `ConnectorProofs` (the 6 connectors).
5. *(done)* `SystemParts`, `SystemProofs`: the composite properties as they stand in `Services`.
6. Proofs of `Transcript`, `Output`, `Cycles` and `Ops`' listings, after which `NothingForgotten` is a theorem as a whole.
7. Composition: `Executor` with `Dispatcher` over the rows they share, on an instance small enough for both.
