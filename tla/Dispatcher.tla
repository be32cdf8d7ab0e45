------------------------------ MODULE Dispatcher ------------------------------
(***************************************************************************)
(* The dispatcher (packages/core/src/bus/dispatcher.ts): it reads the      *)
(* append-only event log past its cursor, ends the waits an event answers  *)
(* or comes too late for, and starts a run for every task the event        *)
(* triggers.  Batches of events are one store transaction each.            *)
(*                                                                         *)
(* A batch runs on the one thread of the daemon without an await: while    *)
(* one is open, or drain() loops over them, nothing else steps.  It is cut *)
(* into one step per event because the store may fail, or the process die, *)
(* before it commits; what it wrote until then is taken back.              *)
(*                                                                         *)
(* The executor is environment here: it begins, suspends and ends runs     *)
(* (module Executor has the attempts behind that), and its runs publish.   *)
(***************************************************************************)
EXTENDS Naturals, Sequences, FiniteSets, SequencesExt

CONSTANTS
  Types,           \* event types connectors and runs publish
  Tasks,           \* tasks, numbered in config order
  Triggers,        \* the event types that trigger a task
  CronTasks,       \* tasks a cron.tick of their own triggers
  OverlapSkip,     \* cron tasks with overlap: skip
  Emits,           \* event types a run of a task may emit when it succeeds
  Operated,        \* tasks an operator pauses, resumes and runs by hand
  Awaited,         \* event types a run of a task may wait for
  Timeouts,        \* deadlines a wait may have, from its start; 0 is none
  BatchSize,       \* events per transaction
  MaxDepth,        \* limits.max_event_depth
  MaxChainRuns,    \* limits.max_runs_per_chain
  ReportedLimit,   \* size at which the memory of reported chains is cleared
  StoreCanFail,    \* whether a transaction may fail to commit
  MaxEvents,       \* bound: events the environment publishes
  MaxTime          \* bound: readings of the clock

ASSUME DispatcherAssumption ==
  /\ Tasks \subseteq Nat \ {0} /\ IsFiniteSet(Tasks)
  /\ OverlapSkip \subseteq CronTasks /\ CronTasks \subseteq Tasks /\ Operated \subseteq Tasks
  /\ Triggers \in [Tasks -> SUBSET (Types \cup {"loop.detected", "task.ended"})]
  /\ \A t \in CronTasks : Triggers[t] = {}
  /\ Emits \in [Tasks -> SUBSET Types] /\ Awaited \subseteq Types
  /\ Timeouts \subseteq Nat
  /\ {BatchSize, MaxChainRuns} \subseteq Nat \ {0}
  /\ {MaxDepth, ReportedLimit, MaxEvents, MaxTime} \subseteq Nat
  /\ StoreCanFail \in BOOLEAN

VARIABLES
  \* The store.
  log,             \* events, in seq order
  cursor,          \* the "dispatch" cursor: the last event dispatched
  status,          \* runs.status per (task, event), the key runs are unique by
  wait,            \* the run's waits row
  paused,          \* task_pauses
  \* The dispatcher's memory.
  index,           \* waitIndex: the pending waits it last read
  fresh,           \* waitIndex.revision is still the revision of the waits
  reported,        \* chains loop.detected was committed for
  batchReported,   \* those of the batch in flight
  wakePending,     \* a drain is scheduled on the next macrotask
  healthy,         \* the last drainStep() did not throw
  \* The transaction in flight.
  batch,           \* where dispatchOnce() is, or NoBatch
  draining,        \* drain() is looping
  saved,           \* the store as it was at BEGIN
  \* The process and the clock.
  mode,
  clock

storeVars == <<log, cursor, status, wait>>
memoryVars == <<index, fresh, reported, batchReported, wakePending, healthy>>
batchVars == <<batch, draining, saved>>
vars == <<storeVars, paused, memoryVars, batchVars, mode, clock>>

Builtin == {"cron.tick", "manual.run", "loop.detected", "task.ended"}
Seqs == 1 .. 2 * MaxEvents     \* bound: room for one loop.detected per published event
Runs == Tasks \X Seqs
Active == {"queued", "running", "waiting"}
RunStatus == Active \cup {"none", "ended"}

NoWait == [outcome |-> "none", type |-> "none", expires |-> 0, event |-> 0, consumed |-> {}]
NoBatch == [at |-> 0, last |-> 0, by |-> "none", ended |-> {}]
Nothing == [log |-> <<>>, cursor |-> 0, status |-> <<>>, wait |-> <<>>]

InBatch == batch.by # "none"

\* Nothing else runs while a batch or a drain does.
Idle == ~InBatch /\ ~draining

\* Runs execute and connectors publish until the process is gone.
Serving == Idle /\ mode \in {"up", "stopping"}

-----------------------------------------------------------------------------
(***************************************************************************)
(* Events.                                                                 *)
(***************************************************************************)

\* publishEvent(): a root starts a chain of its own; a child goes one deeper in its
\* parent's.  "about" is the task the payload of a cron.tick or manual.run names.
NewEvent(type, task, parent, about) ==
  [type |-> type, task |-> task, ts |-> clock, about |-> about,
   depth |-> IF parent = 0 THEN 0 ELSE log[parent].depth + 1,
   root |-> IF parent = 0 THEN Len(log) + 1 ELSE log[parent].root]

\* loop.detected: a root, whose dedup key is the chain it is about.
LoopDetected(l, chain) ==
  [type |-> "loop.detected", task |-> 0, ts |-> clock, about |-> chain, depth |-> 0,
   root |-> Len(l) + 1]

\* task.matches(): events of the task's own runs never trigger it.
Matches(t, e) ==
  /\ e.task # t
  /\ \/ e.type = "manual.run" /\ e.about = t
     \/ e.type = "cron.tick" /\ t \in CronTasks /\ e.about = t
     \/ e.type \in Triggers[t]

\* Mutant: a waiting run is not taken for an active one.
HasQueuedOrRunning(t) == \E s \in Seqs : status[<<t, s>>] \in {"queued", "running"}
HasActive(t) == \E s \in Seqs : status[<<t, s>>] \in Active

\* Runs the events of a chain have started.
ChainRuns(chain) ==
  {r \in Runs : status[r] # "none" /\ r[2] \in DOMAIN log /\ log[r[2]].root = chain}

-----------------------------------------------------------------------------
(***************************************************************************)
(* Waits.                                                                  *)
(***************************************************************************)

Armed(r) == wait[r].outcome = "pending"

\* listPending(), as the index keeps it.
PendingWaits ==
  {[run |-> r, type |-> wait[r].type, expires |-> wait[r].expires] : r \in {q \in Runs : Armed(q)}}

\* A deadline that has passed at "time".
Expired(expires, time) == expires # 0 /\ expires <= time

\* listExpired(now).
ExpiredNow == {r \in Runs : Armed(r) /\ Expired(wait[r].expires, clock)}

\* endWait(): only a wait still armed ends; its run is queued again.
EndWaits(late, answered, seq) ==
  wait' = [r \in Runs |->
             IF ~Armed(r) THEN wait[r]
             ELSE IF r \in late THEN [wait[r] EXCEPT !.outcome = "timeout"]
             ELSE IF r \in answered THEN [wait[r] EXCEPT !.outcome = "matched", !.event = seq]
             ELSE wait[r]]

Requeued(rs) == [r \in Runs |-> IF r \in rs /\ Armed(r) THEN "queued" ELSE status[r]]

-----------------------------------------------------------------------------
(***************************************************************************)
(* What the environment does between two batches.                          *)
(***************************************************************************)

\* bus.publish(): appends, and schedules a drain.
Publish(type) ==
  /\ Serving /\ Len(log) < MaxEvents
  /\ log' = Append(log, NewEvent(type, 0, 0, 0))
  /\ wakePending' = TRUE
  /\ UNCHANGED <<cursor, status, wait, paused, index, fresh, reported, batchReported, healthy,
                 batchVars, mode, clock>>

\* A tick of the cron scheduler.
Tick(t) ==
  /\ Serving /\ mode = "up" /\ t \in CronTasks /\ Len(log) < MaxEvents
  /\ log' = Append(log, NewEvent("cron.tick", 0, 0, t))
  /\ wakePending' = TRUE
  /\ UNCHANGED <<cursor, status, wait, paused, index, fresh, reported, batchReported, healthy,
                 batchVars, mode, clock>>

\* runTaskManually(): refused for a paused task, else published and drained at once.
RunManually(t) ==
  /\ Serving /\ mode = "up" /\ t \in Operated \ paused /\ Len(log) < MaxEvents
  /\ log' = Append(log, NewEvent("manual.run", 0, 0, t))
  /\ wakePending' = TRUE /\ draining' = TRUE
  /\ UNCHANGED <<cursor, status, wait, paused, index, fresh, reported, batchReported, healthy,
                 batch, saved, mode, clock>>

\* pauseTask() and resumeTask().
Pause(t) ==
  /\ Serving /\ mode = "up" /\ t \in Operated
  /\ paused' = IF t \in paused THEN paused \ {t} ELSE paused \cup {t}
  /\ UNCHANGED <<storeVars, memoryVars, batchVars, mode, clock>>

\* explain() reads the index too, and builds it when it is stale.
Explain ==
  /\ Serving /\ mode = "up" /\ cursor < Len(log) /\ ~fresh
  /\ index' = PendingWaits /\ fresh' = TRUE
  /\ UNCHANGED <<storeVars, paused, reported, batchReported, wakePending, healthy, batchVars, mode,
                 clock>>

\* The executor starts or resumes a queued run.
Begin(r) ==
  /\ Serving /\ status[r] = "queued"
  /\ status' = [status EXCEPT ![r] = "running"]
  /\ UNCHANGED <<log, cursor, wait, paused, memoryVars, batchVars, mode, clock>>

\* Mutant: the consumed events are not skipped.
WholeBacklog(r, type, consumed) == {s \in r[2] + 1 .. cursor : log[s].type = type}

\* Mutant: off by one.
BacklogBeforeCursor(r, type, consumed) ==
  {s \in r[2] + 1 .. cursor : s < cursor /\ log[s].type = type /\ s \notin consumed}

\* The events dispatched since the run's trigger that its new wait may end on at once.
Backlog(r, type, consumed) ==
  {s \in r[2] + 1 .. cursor : log[s].type = type /\ s \notin consumed}

\* suspend(): records the wait, parks the run, and lets matchWaitAgainstBacklog() end it
\* on the first event already there, in one transaction.
Suspend(r, type, timeout) ==
  /\ Serving /\ status[r] = "running" /\ clock + timeout <= MaxTime
  /\ LET consumed == wait[r].consumed \cup ({wait[r].event} \ {0})
         new == [outcome |-> "pending", type |-> type, event |-> 0, consumed |-> consumed,
                 expires |-> IF timeout = 0 THEN 0 ELSE clock + timeout]
         there == Backlog(r, type, consumed)
     IN IF there = {}
        THEN /\ wait' = [wait EXCEPT ![r] = new]
             /\ status' = [status EXCEPT ![r] = "waiting"]
        ELSE /\ wait' = [wait EXCEPT ![r] = [new EXCEPT !.outcome = "matched", !.event = Min(there)]]
             /\ status' = [status EXCEPT ![r] = "queued"]
  /\ fresh' = FALSE
  /\ UNCHANGED <<log, cursor, paused, index, reported, batchReported, wakePending, healthy,
                 batchVars, mode, clock>>

\* Mutant: removing a wait does not move the revision.
EndRunKeepingIndex(r, emitted) ==
  /\ Len(log) + 1 + Len(emitted) <= MaxEvents
  /\ status' = [status EXCEPT ![r] = "ended"]
  /\ wait' = [wait EXCEPT ![r] = NoWait]
  /\ log' = Append(log, NewEvent("task.ended", r[1], r[2], 0)) \o emitted
  /\ wakePending' = TRUE
  /\ UNCHANGED <<cursor, paused, index, fresh, reported, batchReported, healthy, batchVars, mode,
                 clock>>

\* finish() and finishCancelled(): the row ends, the wait goes, the lifecycle event and
\* what the run emits are published, as children of its trigger.
EndRun(r, emitted) ==
  /\ Len(log) + 1 + Len(emitted) <= MaxEvents
  /\ status' = [status EXCEPT ![r] = "ended"]
  /\ wait' = [wait EXCEPT ![r] = NoWait]
  /\ fresh' = FALSE
  /\ log' = Append(log, NewEvent("task.ended", r[1], r[2], 0)) \o emitted
  /\ wakePending' = TRUE
  /\ UNCHANGED <<cursor, paused, index, reported, batchReported, healthy, batchVars, mode, clock>>

Finish(r) ==
  /\ Serving /\ status[r] = "running"
  /\ \/ EndRun(r, <<>>)
     \/ \E type \in Emits[r[1]] : EndRun(r, <<NewEvent(type, r[1], r[2], 0)>>)

Cancel(r) ==
  /\ Serving /\ mode = "up" /\ status[r] \in Active
  /\ EndRun(r, <<>>)

ClockTicks ==
  /\ Idle /\ clock < MaxTime
  /\ clock' = clock + 1
  /\ UNCHANGED <<storeVars, paused, memoryVars, batchVars, mode>>

-----------------------------------------------------------------------------
(***************************************************************************)
(* dispatchOnce()                                                          *)
(***************************************************************************)

\* Mutant: the batch is taken to be full.
LastOfFullBatch == cursor + BatchSize
LastOfBatch == Min({cursor + BatchSize, Len(log)})

\* Mutant: the chains reported by a batch that rolled back are kept.
BeginBatchKeepingReported(by) ==
  /\ cursor < Len(log)
  /\ batch' = [at |-> cursor + 1, last |-> LastOfBatch, by |-> by, ended |-> {}]
  /\ saved' = [log |-> log, cursor |-> cursor, status |-> status, wait |-> wait]
  /\ index' = (IF fresh THEN index ELSE PendingWaits) /\ fresh' = TRUE
  /\ UNCHANGED <<storeVars, reported, batchReported, healthy, draining, mode>>

\* BEGIN: the events of the batch and the waits it looks at are read once.
BeginBatch(by) ==
  /\ cursor < Len(log)
  /\ batch' = [at |-> cursor + 1, last |-> LastOfBatch, by |-> by, ended |-> {}]
  /\ saved' = [log |-> log, cursor |-> cursor, status |-> status, wait |-> wait]
  /\ index' = (IF fresh THEN index ELSE PendingWaits) /\ fresh' = TRUE
  /\ batchReported' = {}
  /\ UNCHANGED <<storeVars, reported, healthy, draining, mode>>

\* Mutant: deadlines are looked at only when there are events.
CaughtUpIdle(by) ==
  /\ cursor = Len(log)
  /\ batchReported' = {}
  /\ healthy' = (by = "step" \/ healthy)
  /\ draining' = FALSE
  /\ mode' = IF mode = "booting" THEN "up" ELSE mode
  /\ UNCHANGED <<storeVars, index, fresh, reported, batch, saved>>

\* No event is left: the deadlines the clock has reached end their waits.
CaughtUp(by) ==
  /\ cursor = Len(log)
  /\ EndWaits(ExpiredNow, {}, 0) /\ status' = Requeued(ExpiredNow)
  /\ fresh' = (fresh /\ ExpiredNow = {})
  /\ batchReported' = {}
  /\ healthy' = (by = "step" \/ healthy)
  /\ draining' = FALSE
  /\ mode' = IF mode = "booting" THEN "up" ELSE mode
  /\ UNCHANGED <<log, cursor, index, reported, batch, saved>>

\* The caller of a batch that throws: a drain gives up (and a start with it), a step
\* leaves it to the timer.
Throws(by) ==
  /\ StoreCanFail
  /\ fresh' = FALSE
  /\ healthy' = (by = "drain" /\ healthy)
  /\ draining' = FALSE
  /\ UNCHANGED <<paused, index, reported, mode, clock>>

\* BEGIN, or a read, fails before an event was looked at.
Fails(by) ==
  /\ Throws(by)
  /\ batchReported' = {}
  /\ UNCHANGED <<storeVars, batch, saved>>

Dispatch(by) ==
  /\ BeginBatch(by) \/ CaughtUp(by)
  /\ UNCHANGED <<paused, clock>>

\* A woken drain, one batch of it.
WakeStep ==
  /\ Idle /\ mode = "up" /\ wakePending
  /\ wakePending' = FALSE
  /\ Dispatch("step")

\* Mutant: the timer gives up after a batch that threw.
TimerStepIfHealthy ==
  /\ Idle /\ mode = "up" /\ healthy
  /\ Dispatch("step")
  /\ UNCHANGED wakePending

\* The periodic drain.
TimerStep ==
  /\ Idle /\ mode = "up"
  /\ Dispatch("step")
  /\ UNCHANGED wakePending

\* The next batch of drain().
DrainStep ==
  /\ draining /\ ~InBatch
  /\ Dispatch("drain")
  /\ UNCHANGED wakePending

StepFails ==
  /\ Idle /\ mode = "up"
  /\ Fails("step")
  /\ wakePending' \in {wakePending, FALSE}

DrainFails ==
  /\ draining /\ ~InBatch
  /\ Fails("drain")
  /\ UNCHANGED wakePending

Report(chain) ==
  /\ Len(log) + 1 \in Seqs
  /\ log' = Append(log, LoopDetected(log, chain)) /\ wakePending' = TRUE

\* Mutant: loop.detected has no dedup key.
DropWithoutKey(chain) ==
  IF chain \in reported \cup batchReported
  THEN UNCHANGED <<log, batchReported, wakePending>>
  ELSE /\ batchReported' = batchReported \cup {chain}
       /\ Report(chain)

\* drop(): loop.detected, unless the chain was reported (or its dedup key is taken).
Drop(chain) ==
  IF chain \in reported \cup batchReported
  THEN UNCHANGED <<log, batchReported, wakePending>>
  ELSE /\ batchReported' = batchReported \cup {chain}
       /\ IF \E s \in DOMAIN log : log[s].type = "loop.detected" /\ log[s].about = chain
          THEN UNCHANGED <<log, wakePending>>
          ELSE Report(chain)

\* Mutant: the runs this event has started so far are not counted.
EarlierUncounted(S, t) == {}

\* Tasks before t, in config order.
Earlier(S, t) == {u \in S : u < t}

\* One event of the batch: it ends waits, then starts runs, at most what its chain has left.
DispatchEvent ==
  /\ InBatch /\ batch.at <= batch.last
  /\ LET seq == batch.at
         e == log[seq]
         open == {w \in index : w.run \notin batch.ended}
         late == {w \in open : Expired(w.expires, e.ts)}
         answered == {w \in open \ late : w.type = e.type}
         ids(W) == {w.run : w \in W}
         deep == e.depth > MaxDepth
         ready == {t \in Tasks \ paused : Matches(t, e)
                     /\ (e.type = "cron.tick" /\ t \in OverlapSkip => ~HasActive(t))}
         new == {t \in ready : status[<<t, seq>>] = "none"}
         room(t) == Cardinality(ChainRuns(e.root)) + Cardinality(Earlier(new, t)) < MaxChainRuns
         starts == IF deep THEN {} ELSE {t \in new : room(t)}
     IN /\ EndWaits(ids(late), ids(answered), seq)
        /\ status' = [r \in Runs |-> IF r[2] = seq /\ r[1] \in starts THEN "queued"
                                     ELSE Requeued(ids(late \cup answered))[r]]
        /\ fresh' = (fresh /\ late \cup answered = {})
        /\ batch' = [batch EXCEPT !.at = seq + 1, !.ended = @ \cup ids(late \cup answered)]
        /\ IF deep \/ \E t \in ready : ~room(t)
           THEN Drop(e.root)
           ELSE UNCHANGED <<log, batchReported, wakePending>>
  /\ UNCHANGED <<cursor, paused, index, reported, healthy, draining, saved, mode, clock>>

\* As many events were there as a batch takes.
Full == batch.last - cursor = BatchSize

\* Mutant: the next batch is scheduled when there were more events than a batch takes.
WakesWhenOverfull == batch.last - cursor > BatchSize
WakesNext == Full

\* Mutant: deadlines are looked at while events may still be left to dispatch.
DueInAnyBatch == ExpiredNow

\* With the last events dispatched, the clock ends waits.
DueAtCommit == IF Full THEN {} ELSE ExpiredNow

\* COMMIT: the cursor moves; a full batch has the next one follow.
CommitBatch ==
  /\ InBatch /\ batch.at > batch.last
  /\ EndWaits(DueAtCommit, {}, 0) /\ status' = Requeued(DueAtCommit)
  /\ fresh' = (fresh /\ DueAtCommit = {})
  /\ cursor' = batch.last
  /\ batch' = NoBatch /\ saved' = Nothing
  /\ reported' = IF Cardinality(reported) + Cardinality(batchReported) > ReportedLimit
                 THEN batchReported ELSE reported \cup batchReported
  /\ batchReported' = {}
  /\ healthy' = (batch.by = "step" \/ healthy)
  /\ wakePending' = (wakePending \/ (batch.by = "step" /\ WakesNext))
  /\ draining' = (draining /\ Full)
  /\ mode' = IF mode = "booting" /\ ~Full THEN "up" ELSE mode
  /\ UNCHANGED <<log, paused, index, clock>>

RestoreSaved ==
  /\ log' = saved.log /\ cursor' = saved.cursor /\ status' = saved.status /\ wait' = saved.wait
  /\ batch' = NoBatch /\ saved' = Nothing

\* ROLLBACK: a store call threw.
Rollback ==
  /\ InBatch
  /\ RestoreSaved /\ Throws(batch.by)
  /\ UNCHANGED <<batchReported, wakePending>>

-----------------------------------------------------------------------------
(***************************************************************************)
(* The process.                                                            *)
(***************************************************************************)

\* start(): drains the backlog before the timers run.
Boot ==
  /\ mode = "down"
  /\ mode' = "booting" /\ draining' = TRUE
  /\ UNCHANGED <<storeVars, paused, memoryVars, batch, saved, clock>>

\* stop(): no drain any more; the executor finishes what runs.
Stop ==
  /\ Idle /\ mode = "up"
  /\ mode' = "stopping" /\ wakePending' = FALSE
  /\ UNCHANGED <<storeVars, paused, index, fresh, reported, batchReported, healthy, batchVars, clock>>

Forgotten ==
  /\ mode' = "down"
  /\ index' = {} /\ fresh' = FALSE /\ reported' = {} /\ batchReported' = {}
  /\ wakePending' = FALSE /\ healthy' = TRUE /\ draining' = FALSE
  /\ UNCHANGED <<paused, clock>>

\* A start that failed, or the end of a stop.
Exit ==
  /\ Idle /\ mode \in {"booting", "stopping"}
  /\ Forgotten
  /\ UNCHANGED <<storeVars, batch, saved>>

\* The process dies; a transaction not committed is as if it had never begun.
Crash ==
  /\ mode # "down"
  /\ Forgotten
  /\ IF InBatch THEN RestoreSaved ELSE UNCHANGED <<storeVars, batch, saved>>

-----------------------------------------------------------------------------

Init ==
  /\ log = <<>> /\ cursor = 0
  /\ status = [r \in Runs |-> "none"]
  /\ wait = [r \in Runs |-> NoWait]
  /\ paused = {}
  /\ index = {} /\ fresh = FALSE /\ reported = {} /\ batchReported = {}
  /\ wakePending = FALSE /\ healthy = TRUE
  /\ batch = NoBatch /\ draining = FALSE /\ saved = Nothing
  /\ mode = "down" /\ clock = 0

Environment ==
  \/ \E type \in Types : Publish(type)
  \/ \E t \in Tasks : Tick(t) \/ RunManually(t) \/ Pause(t)
  \/ Explain \/ ClockTicks
  \/ \E r \in Runs : Begin(r) \/ Finish(r) \/ Cancel(r)
  \/ \E r \in Runs, type \in Awaited, timeout \in Timeouts : Suspend(r, type, timeout)

Drain == WakeStep \/ TimerStep \/ DrainStep \/ DispatchEvent \/ CommitBatch

StoreFault == StepFails \/ DrainFails \/ Rollback

Next == Environment \/ Drain \/ StoreFault \/ Boot \/ Stop \/ Exit \/ Crash

Spec == Init /\ [][Next]_vars

\* The timer and the loops of a drain go on, time passes, and systemd starts the daemon again.
Fairness ==
  /\ WF_vars(DispatchEvent \/ CommitBatch \/ DrainStep)
  /\ WF_vars(TimerStep) /\ WF_vars(ClockTicks)
  /\ WF_vars(Boot \/ Exit)

LiveSpec == Spec /\ Fairness

-----------------------------------------------------------------------------
(***************************************************************************)
(* Properties.                                                             *)
(***************************************************************************)

Event ==
  [type : Types \cup Builtin, task : Tasks \cup {0}, ts : 0 .. MaxTime, about : Nat, depth : Nat,
   root : Seqs]
WaitRow ==
  [outcome : {"none", "pending", "matched", "timeout"}, type : Awaited \cup {"none"},
   expires : 0 .. MaxTime, event : Seqs \cup {0}, consumed : SUBSET Seqs]

\* The types of the store, the memory, the transaction and the process.
TypeOK ==
  /\ log \in Seq(Event) /\ Len(log) <= 2 * MaxEvents
  /\ cursor \in 0 .. Len(log)
  /\ status \in [Runs -> RunStatus]
  /\ \A r \in Runs : wait[r] \in WaitRow
  /\ paused \subseteq Tasks
  /\ \A w \in index : w.run \in Runs
  /\ fresh \in BOOLEAN /\ wakePending \in BOOLEAN /\ healthy \in BOOLEAN /\ draining \in BOOLEAN
  /\ reported \subseteq Seqs /\ batchReported \subseteq Seqs
  /\ InBatch => cursor < batch.at /\ batch.at <= batch.last + 1 /\ batch.last <= Len(log)
  /\ mode \in {"down", "booting", "up", "stopping"}
  /\ clock \in 0 .. MaxTime

\* The last event dispatched, by a batch in flight included.
Dispatched == IF InBatch THEN batch.at - 1 ELSE cursor

\* No reply falls between the backlog a new wait looks at and the events dispatched after
\* it: a wait is still armed only if no dispatched event since the run's trigger answers
\* it, save those that ended an earlier wait of the run.
ReplyNotMissed ==
  \A r \in Runs : Armed(r) =>
    \A s \in r[2] + 1 .. Dispatched : log[s].type = wait[r].type => s \in wait[r].consumed

\* One reply never ends two waits of a run.
ReplyEndsOneWait == \A r \in Runs : wait[r].event # 0 => wait[r].event \notin wait[r].consumed

\* The deadline is judged by when an event was stored, not by when it is dispatched: a
\* reply stored in time beats the timeout however long the backlog is, one stored late never
\* ends the wait.
DeadlineIsFair ==
  \A r \in Runs :
    /\ wait[r].outcome = "timeout" =>
         \A s \in r[2] + 1 .. Len(log) :
           log[s].type = wait[r].type /\ s \notin wait[r].consumed
             => wait[r].expires <= log[s].ts
    /\ wait[r].outcome = "matched" /\ wait[r].expires # 0
         => log[wait[r].event].ts < wait[r].expires

\* The cached index is used only while it holds exactly the waits still armed.
IndexIsFresh == fresh => index = PendingWaits

\* No causal chain starts more runs than its cap, however its events spread over tasks and
\* batches.
ChainCapKept ==
  \A s \in DOMAIN log :
    Cardinality({r \in Runs : status[r] # "none" /\ log[r[2]].root = s}) <= MaxChainRuns

\* A runaway chain is told of: once an event too deep is dropped, loop.detected is in the
\* log, through rollbacks of the batch that published it, and only once per chain (one that
\* somebody else publishes names none), through restarts that forget what was reported.
DropsReported ==
  /\ \A s \in 1 .. Dispatched : log[s].depth > MaxDepth =>
       \E u \in DOMAIN log : log[u].type = "loop.detected" /\ log[u].about = log[s].root
  /\ \A s, u \in DOMAIN log :
       /\ log[s].type = "loop.detected" /\ log[s].about # 0
       /\ log[u].type = "loop.detected" /\ log[u].about = log[s].about
       => s = u

\* With overlap: skip, no two ticks of a cron task have a run active at once, waiting and
\* restarted runs included.
OverlapKept ==
  \A t \in OverlapSkip :
    Cardinality({s \in DOMAIN log : status[<<t, s>>] \in Active /\ log[s].type = "cron.tick"}) <= 1

\* A backlog never waits for the timer alone, unless a batch failed: whoever publishes
\* schedules a drain, and wakes that coalesce or meet a running drain are not lost.
NoLostWake == Idle /\ mode = "up" /\ cursor < Len(log) => wakePending \/ ~healthy

Undisturbed == <>[][~(StoreFault \/ Stop \/ Crash)]_vars

\* Every event stored is dispatched in the end, after whatever failed, was stopped or died.
EveryEventDispatched == Undisturbed => \A s \in Seqs : s <= Len(log) ~> s <= cursor

\* Every wait with a deadline ends: answered, timed out, or with its run.
DeadlineEndsWait == Undisturbed => \A r \in Runs : (Armed(r) /\ wait[r].expires # 0) ~> ~Armed(r)
=============================================================================
