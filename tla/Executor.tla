------------------------------ MODULE Executor ------------------------------
(***************************************************************************)
(* The executor (packages/core/src/executor/executor.ts): the worker pool  *)
(* that takes runs the dispatcher queued through their attempts, retries,  *)
(* waits, cancels, stops and restarts, together with the rows it keeps in  *)
(* the store (runs, waits, run_attempts and the lifecycle events).         *)
(*                                                                         *)
(* The daemon is one Node.js thread.  A step here is a piece of code that  *)
(* runs between two awaits, cut further only where the process can die     *)
(* between two store transactions.  Handlers end by calling pump(), which  *)
(* starts every run it can before anything else gets the thread: they set  *)
(* "pumping", and while it holds only the pump (or a crash) can step.      *)
(*                                                                         *)
(* The dispatcher is environment here: it inserts runs (Queue) and ends    *)
(* waits (EndWait).  A runner is environment too: what an attempt comes to *)
(* is any outcome perform() can report.                                    *)
(***************************************************************************)
EXTENDS Naturals, Sequences, FiniteSets, SequencesExt

CONSTANTS
  Runs,            \* ids of the runs rows, numbered in creation order
  Tasks,           \* task names
  TaskOf,          \* the task of a run
  Limit,           \* concurrency of each task
  Attempts,        \* the most retry.attempts a task has over reloads ...
  FewestAttempts,  \* ... and the fewest, 0 if a reload may remove the task
  WorkerCounts,    \* values "workers" may take over reloads
  AdoptBatch,      \* ADOPT_BATCH: how many oldest queued runs a sweep looks at
  StoreCanFail     \* whether a store call may throw (disk full, locked, read-only)

ASSUME ExecutorAssumption ==
  /\ Runs \subseteq Nat /\ IsFiniteSet(Runs)
  /\ TaskOf \in [Runs -> Tasks]
  /\ Limit \in [Tasks -> Nat \ {0}]
  /\ Attempts \in [Tasks -> Nat \ {0}]
  /\ FewestAttempts \in [Tasks -> Nat]
  /\ \A t \in Tasks : FewestAttempts[t] <= Attempts[t]
  /\ WorkerCounts \subseteq Nat \ {0} /\ WorkerCounts # {}
  /\ AdoptBatch \in Nat \ {0}
  /\ StoreCanFail \in BOOLEAN

VARIABLES
  \* The store: what a restart finds.
  status,          \* runs.status
  attempt,         \* runs.attempt
  wait,            \* the run's waits row: "none", or its outcome
  rows,            \* run_attempts.status per attempt number
  published,       \* lifecycle events in the log, per run
  \* The pool: what a crash loses.
  pending,         \* runs taken and not started, first in first out
  known,           \* ids the executor holds
  inFlight,        \* runs some execute() call is working on
  perTask,         \* how many of those each task has
  backingOff,      \* runs in flight that wait out a backoff and hold no worker
  retryReady,      \* those whose delay is over, in order
  reason,          \* why the slot's stop signal was aborted
  phase,           \* the await execute() stands at
  pumping,         \* pump() is running
  \* The process around it.
  mode,            \* where start() and stop() are
  scan,            \* rows start() has yet to look at
  holds,           \* open hold()s: a reload is being applied
  workers          \* size of the pool

storeVars == <<status, attempt, wait, rows, published>>
poolVars == <<pending, known, inFlight, perTask, backingOff, retryReady, reason, phase, pumping>>
hostVars == <<mode, scan, holds, workers>>
vars == <<storeVars, poolVars, hostVars>>

Active == {"queued", "running", "waiting"}
Terminal == {"succeeded", "failed", "cancelled"}
OpenRow == {"running", "waiting"}
RowStatus == OpenRow \cup Terminal \cup {"interrupted", "none"}
Resolved == {"matched", "timeout"}
Stopping == {"draining", "aborting"}

\* The RunRecord copies "pending" holds: the id, and the status it was read with.
Record == [run : Runs, status : {"queued", "running"}]
RecordOf(r, s) == [run |-> r, status |-> s]

\* retryFor(), read anew at each start of a run: a task without a retry of its own has
\* defaultRetry, which configure() changes under its runs.  So a run may get the most
\* attempts, and any attempt from the fewest on may turn out to have been its last.
AttemptsOf(r) == Attempts[TaskOf[r]]
FewestOf(r) == FewestAttempts[TaskOf[r]]
Ids(q) == {q[i].run : i \in DOMAIN q}

\* Mutant: cancel() forgets to splice the run out of the queue.
WithoutSplice(q, r) == q

\* The sequence without r's entry, if it has one (findIndex, then splice).
Without(q, r) ==
  IF r \in Ids(q) THEN RemoveAt(q, CHOOSE i \in DOMAIN q : q[i].run = r) ELSE q

-----------------------------------------------------------------------------
(***************************************************************************)
(* Store transactions.                                                     *)
(***************************************************************************)

\* Mutant: a parked attempt is not taken for an open one.
CloseRunning(row, s) == [n \in DOMAIN row |-> IF row[n] = "running" THEN s ELSE row[n]]

\* attempts.closeOpen: ends whatever attempt of the run is still open.
CloseOpen(row, s) == [n \in DOMAIN row |-> IF row[n] \in OpenRow THEN s ELSE row[n]]

\* Mutant: the run's waits row is left behind.
EndRunKeepingWait(r, outcome) ==
  /\ status' = [status EXCEPT ![r] = outcome]
  /\ rows' = [rows EXCEPT ![r] = CloseOpen(@, outcome)]
  /\ published' = [published EXCEPT ![r] = Append(@, outcome)]
  /\ UNCHANGED <<attempt, wait>>

\* Mutant: the lifecycle event is left to a later transaction.
EndRunSilently(r, outcome) ==
  /\ status' = [status EXCEPT ![r] = outcome]
  /\ wait' = [wait EXCEPT ![r] = "none"]
  /\ rows' = [rows EXCEPT ![r] = CloseOpen(@, outcome)]
  /\ UNCHANGED <<attempt, published>>

\* finish() and finishCancelled(): the terminal status, the end of the wait
\* and of the open attempt, and the lifecycle event, in one transaction.
EndRun(r, outcome) ==
  /\ status' = [status EXCEPT ![r] = outcome]
  /\ wait' = [wait EXCEPT ![r] = "none"]
  /\ rows' = [rows EXCEPT ![r] = CloseOpen(@, outcome)]
  /\ published' = [published EXCEPT ![r] = Append(@, outcome)]
  /\ UNCHANGED attempt

\* The head of execute()'s loop: the run is running its n-th attempt, whose
\* row is new, replaced, or (a resume) opened again.
BeginAttempt(r, n) ==
  /\ status' = [status EXCEPT ![r] = "running"]
  /\ attempt' = [attempt EXCEPT ![r] = n]
  /\ rows' = [rows EXCEPT ![r][n] = "running"]
  /\ UNCHANGED <<wait, published>>

SetRow(r, n, s) == rows' = [rows EXCEPT ![r][n] = s]

\* These are two transactions.  What is stored when the second does not come to pass:
\* of starting an attempt, the run's row ...
BeginHalf(r, n) ==
  /\ status' = [status EXCEPT ![r] = "running"]
  /\ attempt' = [attempt EXCEPT ![r] = n]
  /\ UNCHANGED <<wait, rows, published>>

\* ... of a stop, the attempt given back; of a run cancelled while it parked, its parking.
SettleHalf(r) ==
  /\ \/ /\ phase[r] = "performing" /\ reason[r] = "stopped"
        /\ attempt' = [attempt EXCEPT ![r] = @ - 1]
        /\ UNCHANGED rows
     \/ /\ phase[r] = "parking" /\ reason[r] = "cancelled"
        /\ SetRow(r, attempt[r], "waiting")
        /\ UNCHANGED attempt
  /\ UNCHANGED <<status, wait, published>>

-----------------------------------------------------------------------------
(***************************************************************************)
(* The pool.                                                               *)
(***************************************************************************)

\* Nothing else runs while pump() does.
Idle == ~pumping

\* pump() returns at once while stopping or held.
CallPump == pumping' = (mode = "up" /\ holds = 0)

\* enqueue(): takes the runs the executor does not hold yet.
Enqueue(q) ==
  /\ pending' = pending \o q
  /\ known' = known \cup Ids(q)

\* Mutant: enqueue() does not look whether it holds the run.
TakeAgain(r, s) == Enqueue(<<RecordOf(r, s)>>)

\* enqueue() of one run: skipped when it is already held.
Take(r, s) ==
  IF r \in known THEN UNCHANGED <<pending, known>> ELSE Enqueue(<<RecordOf(r, s)>>)

\* Mutant: the task's count is given back on both the catch and the finally path.
LeavePoolTwice(r) ==
  /\ inFlight' = inFlight \ {r}
  /\ backingOff' = backingOff \ {r}
  /\ perTask' = [perTask EXCEPT ![TaskOf[r]] = @ - 2]
  /\ reason' = [reason EXCEPT ![r] = "none"]
  /\ phase' = [phase EXCEPT ![r] = "idle"]
  /\ CallPump

\* The finally block of execute(), for a run that leaves the pool.
LeavePool(r) ==
  /\ inFlight' = inFlight \ {r}
  /\ backingOff' = backingOff \ {r}
  /\ perTask' = [perTask EXCEPT ![TaskOf[r]] = @ - 1]
  /\ reason' = [reason EXCEPT ![r] = "none"]
  /\ phase' = [phase EXCEPT ![r] = "idle"]
  /\ CallPump

Leave(r) ==
  /\ LeavePool(r)
  /\ known' = known \ {r}
  /\ UNCHANGED <<pending, retryReady>>

BusyWorkers == Cardinality(inFlight) - Cardinality(backingOff)
\* Mutant: off by one.
HasWorkerOrOneMore == BusyWorkers <= workers
HasWorker == BusyWorkers < workers

\* Mutant: off by one.
AtOrBelowLimit(i) == perTask[TaskOf[pending[i].run]] <= Limit[TaskOf[pending[i].run]]

\* pending[i] may start: its task is below its concurrency.
BelowLimit(i) == perTask[TaskOf[pending[i].run]] < Limit[TaskOf[pending[i].run]]

\* The first run pump() starts, scanning "pending" from the front.
NextToStart(i) ==
  /\ i \in DOMAIN pending /\ BelowLimit(i)
  /\ \A j \in 1 .. i - 1 : ~BelowLimit(j)

\* A run whose wait ended goes on with its parked attempt.  A record read as
\* "running" (recovery) is a new attempt, whatever its waits row says.
Resuming(rec) == rec.status = "queued" /\ wait[rec.run] \in Resolved
\* Mutant: a resume counts as an attempt.
AttemptForResumeToo(rec) == attempt[rec.run] + 1
AttemptFor(rec) == IF Resuming(rec) THEN attempt[rec.run] ELSE attempt[rec.run] + 1

\* A retry waits for a free worker like a new run, but goes first.
PumpRetry(r) ==
  /\ pumping /\ retryReady # <<>> /\ r = Head(retryReady).run /\ HasWorker
  /\ retryReady' = Tail(retryReady)
  /\ backingOff' = backingOff \ {r}
  /\ phase' = [phase EXCEPT ![r] = "performing"]
  /\ BeginAttempt(r, attempt[r] + 1)
  /\ UNCHANGED <<pending, known, inFlight, perTask, reason, pumping, hostVars>>

\* execute() up to the await of the runner.
PumpStart(i) ==
  /\ pumping /\ retryReady = <<>> /\ HasWorker /\ NextToStart(i)
  /\ LET rec == pending[i] IN
       /\ pending' = RemoveAt(pending, i)
       /\ inFlight' = inFlight \cup {rec.run}
       /\ perTask' = [perTask EXCEPT ![TaskOf[rec.run]] = @ + 1]
       /\ phase' = [phase EXCEPT ![rec.run] = "performing"]
       /\ BeginAttempt(rec.run, AttemptFor(rec))
  /\ UNCHANGED <<known, backingOff, retryReady, reason, pumping, hostVars>>

\* pump() finds no worker, or nothing that may start.
PumpDone ==
  /\ pumping
  /\ HasWorker => retryReady = <<>> /\ \A i \in DOMAIN pending : ~BelowLimit(i)
  /\ pumping' = FALSE
  /\ UNCHANGED <<storeVars, pending, known, inFlight, perTask, backingOff, retryReady, reason,
                 phase, hostVars>>

-----------------------------------------------------------------------------
(***************************************************************************)
(* What the dispatcher does to runs, and the sweep for runs it could not   *)
(* hand over.                                                              *)
(***************************************************************************)

\* The dispatcher hands over a run it committed; a hand-off may also never arrive.
HandOff(r) ==
  \/ Take(r, "queued") /\ CallPump
  \/ UNCHANGED <<pending, known, pumping>>

\* A dispatch batch commits a new run.
Queue(r) ==
  /\ Idle /\ mode = "up"
  /\ status[r] = "none" /\ \A q \in Runs : q < r => status[q] # "none"
  /\ status' = [status EXCEPT ![r] = "queued"]
  /\ HandOff(r)
  /\ UNCHANGED <<attempt, wait, rows, published, inFlight, perTask, backingOff, retryReady,
                 reason, phase, hostVars>>

\* The awaited event was dispatched, or the deadline passed: the wait ends and
\* the run is queued again.  The hand-off of a run still leaving the pool is refused.
EndWait(r, outcome) ==
  /\ Idle /\ mode = "up" /\ wait[r] = "pending"
  /\ wait' = [wait EXCEPT ![r] = outcome]
  /\ status' = [status EXCEPT ![r] = "queued"]
  /\ HandOff(r)
  /\ UNCHANGED <<attempt, rows, published, inFlight, perTask, backingOff, retryReady, reason,
                 phase, hostVars>>

\* Mutant: the sweep looks at runs never started only.
OldestNew ==
  {r \in Runs : /\ status[r] = "queued" /\ attempt[r] = 0
                /\ Cardinality({q \in Runs : status[q] = "queued" /\ q < r}) < AdoptBatch}
\* The oldest queued rows, at most a batch of them.
OldestQueued ==
  {r \in Runs : /\ status[r] = "queued"
                /\ Cardinality({q \in Runs : status[q] = "queued" /\ q < r}) < AdoptBatch}

\* The records of a set of runs in creation order.
InOrder(S) ==
  {q \in [1 .. Cardinality(S) -> [run : S, status : {"queued"}]] :
     /\ Ids(q) = S
     /\ \A i, j \in DOMAIN q : i < j => q[i].run < q[j].run}

\* The adoption sweep (every 10 s): takes over queued runs nobody handed over.
Adopt ==
  /\ Idle /\ mode = "up" /\ OldestQueued \ known # {}
  /\ \E q \in InOrder(OldestQueued \ known) : Enqueue(q)
  /\ CallPump
  /\ UNCHANGED <<storeVars, inFlight, perTask, backingOff, retryReady, reason, phase, hostVars>>

-----------------------------------------------------------------------------
(***************************************************************************)
(* An attempt comes to its end.                                            *)
(***************************************************************************)

Performing(r) == Idle /\ phase[r] = "performing"

\* The runner returned (it may do so in spite of an abort), or failed for good:
\* not retryable, out of attempts, or its result could not be routed.
Finish(r, outcome) ==
  /\ Performing(r)
  /\ EndRun(r, outcome) /\ Leave(r)
  /\ UNCHANGED hostVars

\* Mutant: the worker a backoff frees is not offered to the queue.
RetryWithoutPump(r) ==
  /\ Performing(r) /\ reason[r] = "none" /\ attempt[r] < AttemptsOf(r)
  /\ mode \notin Stopping
  /\ SetRow(r, attempt[r], "failed")
  /\ backingOff' = backingOff \cup {r}
  /\ phase' = [phase EXCEPT ![r] = "backoff"]
  /\ UNCHANGED <<status, attempt, wait, published, pending, known, inFlight, perTask, retryReady,
                 reason, pumping, hostVars>>

\* The attempt failed and the policy has another: back off without a worker.
Retry(r) ==
  /\ Performing(r) /\ reason[r] = "none" /\ attempt[r] < AttemptsOf(r)
  /\ mode \notin Stopping
  /\ SetRow(r, attempt[r], "failed")
  /\ backingOff' = backingOff \cup {r}
  /\ phase' = [phase EXCEPT ![r] = "backoff"]
  /\ CallPump
  /\ UNCHANGED <<status, attempt, wait, published, pending, known, inFlight, perTask, retryReady,
                 reason, hostVars>>

\* Mutant: the failed attempt is given back like an aborted one.
FailWhileStoppingUnspent(r) ==
  /\ Performing(r) /\ reason[r] = "none" /\ attempt[r] < AttemptsOf(r)
  /\ mode \in Stopping
  /\ attempt' = [attempt EXCEPT ![r] = @ - 1]
  /\ SetRow(r, attempt[r], "failed")
  /\ Leave(r)
  /\ UNCHANGED <<status, wait, published, hostVars>>

\* The same during a stop: the next start makes the next attempt.
FailWhileStopping(r) ==
  /\ Performing(r) /\ reason[r] = "none" /\ attempt[r] < AttemptsOf(r)
  /\ mode \in Stopping
  /\ SetRow(r, attempt[r], "failed")
  /\ Leave(r)
  /\ UNCHANGED <<status, attempt, wait, published, hostVars>>

\* The runner threw after cancel() aborted it.
AbortCancelled(r) ==
  /\ Performing(r) /\ reason[r] = "cancelled"
  /\ EndRun(r, "cancelled") /\ Leave(r)
  /\ UNCHANGED hostVars

\* Mutant: the aborted attempt is not given back.
AbortStoppedSpent(r) ==
  /\ Performing(r) /\ reason[r] = "stopped"
  /\ SetRow(r, attempt[r], "interrupted")
  /\ Leave(r)
  /\ UNCHANGED <<status, attempt, wait, published, hostVars>>

\* The runner threw after stop() aborted it: the attempt is given back.
AbortStopped(r) ==
  /\ Performing(r) /\ reason[r] = "stopped"
  /\ attempt' = [attempt EXCEPT ![r] = @ - 1]
  /\ SetRow(r, attempt[r], "interrupted")
  /\ Leave(r)
  /\ UNCHANGED <<status, wait, published, hostVars>>

\* ctx.suspend(): one transaction records the wait, parks the run and looks at
\* the events already dispatched; a match ends the wait on the spot.  The
\* hand-off is refused, as the run is still held.  An abort does not prevent it.
Suspend(r, outcome) ==
  /\ Performing(r)
  /\ wait' = [wait EXCEPT ![r] = outcome]
  /\ status' = [status EXCEPT ![r] = IF outcome = "pending" THEN "waiting" ELSE "queued"]
  /\ phase' = [phase EXCEPT ![r] = "parking"]
  /\ UNCHANGED <<attempt, rows, published, pending, known, inFlight, perTask, backingOff,
                 retryReady, reason, pumping, hostVars>>

\* The runner is done cleaning up after suspend(): the run leaves the pool.  If
\* its wait ended meanwhile it is taken from the store, unless stopping; if it
\* was cancelled meanwhile the wait it armed ends with it.
Park(r) ==
  /\ Idle /\ phase[r] = "parking" /\ reason[r] # "cancelled"
  /\ SetRow(r, attempt[r], "waiting")
  /\ LeavePool(r)
  /\ IF mode = "up" /\ status[r] = "queued"
     THEN pending' = Append(pending, RecordOf(r, "queued")) /\ UNCHANGED known
     ELSE known' = known \ {r} /\ UNCHANGED pending
  /\ UNCHANGED <<status, attempt, wait, published, retryReady, hostVars>>

ParkCancelled(r) ==
  /\ Idle /\ phase[r] = "parking" /\ reason[r] = "cancelled"
  /\ EndRun(r, "cancelled") /\ Leave(r)
  /\ UNCHANGED hostVars

\* The delay is over: workerFor() queues for a worker.
BackoffOver(r) ==
  /\ Idle /\ phase[r] = "backoff" /\ reason[r] = "none"
  /\ phase' = [phase EXCEPT ![r] = "ready"]
  /\ retryReady' = Append(retryReady, [run |-> r])
  /\ CallPump
  /\ UNCHANGED <<storeVars, pending, known, inFlight, perTask, backingOff, reason, hostVars>>

\* Mutant: any abort of a backoff is taken for a stop.
BackoffAbandoned(r) ==
  /\ Idle /\ phase[r] \in {"backoff", "ready"} /\ reason[r] = "cancelled"
  /\ Leave(r)
  /\ UNCHANGED <<storeVars, hostVars>>

\* The sleep or the wait for a worker was aborted.
BackoffCancelled(r) ==
  /\ Idle /\ phase[r] \in {"backoff", "ready"} /\ reason[r] = "cancelled"
  /\ EndRun(r, "cancelled") /\ Leave(r)
  /\ UNCHANGED hostVars

BackoffStopped(r) ==
  /\ Idle /\ phase[r] \in {"backoff", "ready"} /\ reason[r] = "stopped"
  /\ Leave(r)
  /\ UNCHANGED <<storeVars, hostVars>>

-----------------------------------------------------------------------------
(***************************************************************************)
(* cancel()                                                                *)
(***************************************************************************)

\* Nothing executes the run: it is ended at once, then forgotten.
CancelIdle(r) ==
  /\ Idle /\ mode = "up" /\ status[r] \in Active /\ r \notin inFlight
  /\ EndRun(r, "cancelled")
  /\ pending' = Without(pending, r)
  /\ known' = known \ {r}
  /\ UNCHANGED <<inFlight, perTask, backingOff, retryReady, reason, phase, pumping, hostVars>>

\* Its slot is aborted; the first abort of a signal is the one that counts.
CancelInFlight(r) ==
  /\ Idle /\ mode = "up" /\ r \in inFlight /\ reason[r] = "none"
  /\ reason' = [reason EXCEPT ![r] = "cancelled"]
  /\ retryReady' = Without(retryReady, r)
  /\ UNCHANGED <<storeVars, pending, known, inFlight, perTask, backingOff, phase, pumping, hostVars>>

-----------------------------------------------------------------------------
(***************************************************************************)
(* A store call throws: execute() gives up on the run where it stands      *)
(* (run.bookkeeping_failed) and its finally block runs.                    *)
(***************************************************************************)

\* While starting: before the run's row changed, or after it and before the attempt's.
\* (pinned() reads outside the try: there the rejection is unhandled and main.ts stops
\* the daemon, so that step is followed by a Crash.)
StartFails(i) ==
  /\ StoreCanFail /\ pumping /\ retryReady = <<>> /\ HasWorker /\ NextToStart(i)
  /\ LET rec == pending[i] IN
       /\ pending' = RemoveAt(pending, i)
       /\ known' = known \ {rec.run}
       /\ UNCHANGED storeVars \/ BeginHalf(rec.run, AttemptFor(rec))
  /\ UNCHANGED <<inFlight, perTask, backingOff, retryReady, reason, phase, pumping, hostVars>>

RetryFails(r) ==
  /\ StoreCanFail /\ pumping /\ retryReady # <<>> /\ r = Head(retryReady).run /\ HasWorker
  /\ retryReady' = Tail(retryReady)
  /\ LeavePool(r)
  /\ known' = known \ {r}
  /\ UNCHANGED storeVars \/ BeginHalf(r, attempt[r] + 1)
  /\ UNCHANGED <<pending, hostVars>>

\* While settling.
SettleFails(r) ==
  /\ StoreCanFail /\ Idle /\ r \in inFlight
  /\ phase[r] \in {"performing", "parking"} \/ reason[r] = "cancelled"
  /\ Leave(r)
  /\ UNCHANGED storeVars \/ SettleHalf(r)
  /\ UNCHANGED hostVars

StoreFault ==
  \/ \E i \in DOMAIN pending : StartFails(i)
  \/ \E r \in Runs : RetryFails(r) \/ SettleFails(r)

-----------------------------------------------------------------------------
(***************************************************************************)
(* start(), stop(), reload, crash.                                         *)
(***************************************************************************)

\* start(): subscribes, then goes through the active rows.
Boot ==
  /\ mode = "down"
  /\ mode' = "booting"
  /\ scan' = {r \in Runs : status[r] \in Active}
  /\ workers' \in WorkerCounts
  /\ UNCHANGED <<storeVars, poolVars, holds>>

\* Rows are looked at by status: running, then waiting, then queued.
Scanning(r, s) ==
  /\ mode = "booting" /\ r \in scan /\ status[r] = s
  /\ s \in {"waiting", "queued"} => \A q \in scan : status[q] # "running"
  /\ s = "queued" => \A q \in scan : status[q] # "waiting"
  /\ scan' = scan \ {r}

UntouchedByBoot == <<inFlight, perTask, backingOff, retryReady, reason, phase, pumping, mode,
                     holds, workers>>

\* An attempt was cut short and the policy has another.
RecoverRunning(r) ==
  /\ Scanning(r, "running") /\ attempt[r] < AttemptsOf(r)
  /\ rows' = [rows EXCEPT ![r] = CloseOpen(@, "interrupted")]
  /\ Take(r, "running")
  /\ UNCHANGED <<status, attempt, wait, published, UntouchedByBoot>>

\* It was the last one, by the policy of this start: the run fails as interrupted.
FailInterrupted(r) ==
  /\ Scanning(r, "running") /\ attempt[r] >= FewestOf(r)
  /\ EndRun(r, "failed")
  /\ UNCHANGED <<pending, known, UntouchedByBoot>>

\* finishOnStart: the store refused; the run keeps its status for the next start.
FailInterruptedFails(r) ==
  /\ StoreCanFail
  /\ Scanning(r, "running") /\ attempt[r] >= FewestOf(r)
  /\ UNCHANGED <<storeVars, pending, known, UntouchedByBoot>>

\* A wait still armed stays armed.
RecoverWaiting(r) ==
  /\ Scanning(r, "waiting")
  /\ UNCHANGED <<storeVars, pending, known, UntouchedByBoot>>

RecoverQueued(r) ==
  /\ Scanning(r, "queued")
  /\ Take(r, "queued")
  /\ UNCHANGED <<storeVars, UntouchedByBoot>>

\* Every row was looked at; the adoption timer runs and the pool pumps.
Booted ==
  /\ mode = "booting" /\ scan = {}
  /\ mode' = "up" /\ pumping' = TRUE
  /\ UNCHANGED <<storeVars, pending, known, inFlight, perTask, backingOff, retryReady, reason,
                 phase, scan, holds, workers>>

\* The runs a stop() aborts are told why, unless they were told already.
AbortAll(S) ==
  reason' = [r \in Runs |-> IF r \in S /\ reason[r] = "none" THEN "stopped" ELSE reason[r]]

\* Mutant: pending runs are kept.
StopKeepingPending ==
  /\ Idle /\ mode = "up"
  /\ mode' = "draining"
  /\ AbortAll(backingOff)
  /\ retryReady' = <<>>
  /\ UNCHANGED <<storeVars, pending, known, inFlight, perTask, backingOff, phase, pumping, scan,
                 holds, workers>>

\* stop(): no new runs; pending ones are forgotten and runs in a backoff aborted.
Stop ==
  /\ Idle /\ mode = "up"
  /\ mode' = "draining"
  /\ known' = known \ Ids(pending)
  /\ pending' = <<>>
  /\ AbortAll(backingOff)
  /\ retryReady' = <<>>
  /\ UNCHANGED <<storeVars, inFlight, perTask, backingOff, phase, pumping, scan, holds, workers>>

\* The grace window is over (it may be zero): everything in flight is aborted.
GraceOver ==
  /\ Idle /\ mode = "draining"
  /\ mode' = "aborting"
  /\ AbortAll(inFlight)
  /\ UNCHANGED <<storeVars, pending, known, inFlight, perTask, backingOff, retryReady, phase,
                 pumping, scan, holds, workers>>

\* idle() resolves.
Stopped ==
  /\ Idle /\ mode \in Stopping /\ inFlight = {} /\ pending = <<>>
  /\ mode' = "down" /\ holds' = 0
  /\ UNCHANGED <<storeVars, poolVars, scan, workers>>

\* What a half-done step has written when the process dies under it.
Halfway ==
  \/ Idle /\ \E r \in inFlight : SettleHalf(r)
  \/ /\ pumping /\ HasWorker /\ retryReady # <<>>
     /\ LET r == Head(retryReady).run IN BeginHalf(r, attempt[r] + 1)
  \/ /\ pumping /\ HasWorker /\ retryReady = <<>>
     /\ \E i \in DOMAIN pending :
          NextToStart(i) /\ BeginHalf(pending[i].run, AttemptFor(pending[i]))

\* The process dies, between two steps or halfway through one: only the store is left.
Crash ==
  /\ mode # "down"
  /\ mode' = "down" /\ scan' = {} /\ holds' = 0
  /\ pending' = <<>> /\ known' = {} /\ inFlight' = {} /\ backingOff' = {} /\ retryReady' = <<>>
  /\ perTask' = [t \in Tasks |-> 0]
  /\ reason' = [r \in Runs |-> "none"]
  /\ phase' = [r \in Runs |-> "idle"]
  /\ pumping' = FALSE
  /\ UNCHANGED storeVars \/ Halfway
  /\ UNCHANGED workers

\* A reload holds the pool while connectors are respawned (reloads are serialised) ...
BeginReload ==
  /\ Idle /\ mode = "up" /\ holds = 0
  /\ holds' = 1
  /\ UNCHANGED <<storeVars, poolVars, mode, scan, workers>>

\* ... then switches (or fails, and changes nothing) and releases it.
EndReload(w) ==
  /\ Idle /\ holds = 1
  /\ holds' = 0 /\ workers' = w
  /\ pumping' = (mode = "up")
  /\ UNCHANGED <<storeVars, pending, known, inFlight, perTask, backingOff, retryReady, reason,
                 phase, mode, scan>>

-----------------------------------------------------------------------------

Init ==
  /\ status = [r \in Runs |-> "none"]
  /\ attempt = [r \in Runs |-> 0]
  /\ wait = [r \in Runs |-> "none"]
  /\ rows = [r \in Runs |-> [n \in 1 .. AttemptsOf(r) |-> "none"]]
  /\ published = [r \in Runs |-> <<>>]
  /\ pending = <<>> /\ known = {} /\ inFlight = {} /\ backingOff = {} /\ retryReady = <<>>
  /\ perTask = [t \in Tasks |-> 0]
  /\ reason = [r \in Runs |-> "none"]
  /\ phase = [r \in Runs |-> "idle"]
  /\ pumping = FALSE
  /\ mode = "down" /\ scan = {} /\ holds = 0 /\ workers \in WorkerCounts

Pump ==
  \/ PumpDone
  \/ \E i \in DOMAIN pending : PumpStart(i)
  \/ \E r \in Runs : PumpRetry(r)

\* What perform() reports for an attempt.
Settle(r) ==
  \/ \E outcome \in {"succeeded", "failed"} : Finish(r, outcome)
  \/ \E outcome \in {"pending", "matched"} : Suspend(r, outcome)
  \/ Retry(r) \/ FailWhileStopping(r) \/ AbortCancelled(r) \/ AbortStopped(r)

Unwind(r) == Park(r) \/ ParkCancelled(r) \/ BackoffOver(r) \/ BackoffCancelled(r) \/ BackoffStopped(r)

Recover ==
  \/ \E r \in Runs :
       \/ RecoverRunning(r) \/ FailInterrupted(r) \/ FailInterruptedFails(r)
       \/ RecoverWaiting(r) \/ RecoverQueued(r)
  \/ Booted

Dispatcher(r) == Queue(r) \/ \E outcome \in Resolved : EndWait(r, outcome)

Cancel(r) == CancelIdle(r) \/ CancelInFlight(r)

Next ==
  \/ Pump \/ Adopt \/ Boot \/ Recover \/ Stop \/ GraceOver \/ Stopped \/ Crash
  \/ BeginReload \/ \E w \in WorkerCounts : EndReload(w)
  \/ \E r \in Runs : Settle(r) \/ Unwind(r) \/ Dispatcher(r) \/ Cancel(r)
  \/ StoreFault

Spec == Init /\ [][Next]_vars

\* The event loop serves every callback that stays due: an attempt ends (its timeout
\* aborts it), timers fire, a stop's grace runs out, a reload gets through, and
\* systemd starts the daemon again.  Nothing makes an awaited event arrive.
Fairness ==
  /\ WF_vars(Pump \/ Boot \/ Recover \/ GraceOver \/ Stopped)
  /\ WF_vars(\E w \in WorkerCounts : EndReload(w))
  /\ SF_vars(Adopt)
  /\ \A r \in Runs : SF_vars(Settle(r) \/ Unwind(r))

LiveSpec == Spec /\ Fairness

-----------------------------------------------------------------------------
(***************************************************************************)
(* Properties.                                                             *)
(***************************************************************************)

\* The types of the rows, the pool and the host.
TypeOK ==
  /\ status \in [Runs -> Active \cup Terminal \cup {"none"}]
  /\ attempt \in [Runs -> Nat]
  /\ wait \in [Runs -> {"none", "pending"} \cup Resolved]
  /\ rows = [r \in Runs |-> rows[r]]
  /\ \A r \in Runs : rows[r] \in [1 .. AttemptsOf(r) -> RowStatus]
  /\ published \in [Runs -> Seq(Terminal)]
  /\ pending \in Seq(Record)
  /\ known \subseteq Runs /\ inFlight \subseteq Runs /\ backingOff \subseteq Runs
  /\ perTask \in [Tasks -> Nat]
  /\ retryReady \in Seq([run : Runs])
  /\ reason \in [Runs -> {"none", "stopped", "cancelled"}]
  /\ phase \in [Runs -> {"idle", "performing", "parking", "backoff", "ready"}]
  /\ pumping \in BOOLEAN
  /\ mode \in {"down", "booting", "up"} \cup Stopping
  /\ scan \subseteq Runs /\ holds \in {0, 1} /\ workers \in WorkerCounts

\* The executor's own books agree: it knows exactly the runs that are pending or in
\* flight, holds none twice, and counts its tasks and its backoffs right.  A run
\* missing here would never start; one held twice would be executed twice.  A stop, like
\* a crash, leaves nothing behind to confuse the next start.
PoolAgrees ==
  /\ known = Ids(pending) \cup inFlight
  /\ Ids(pending) \cap inFlight = {}
  /\ \A i, j \in DOMAIN pending : pending[i].run = pending[j].run => i = j
  /\ inFlight = {r \in Runs : phase[r] # "idle"}
  /\ backingOff = {r \in Runs : phase[r] \in {"backoff", "ready"}}
  /\ \A t \in Tasks : perTask[t] = Cardinality({r \in inFlight : TaskOf[r] = t})
  /\ \A i, j \in DOMAIN retryReady : retryReady[i].run = retryReady[j].run => i = j
  /\ Ids(retryReady) = {r \in Runs : phase[r] = "ready" /\ reason[r] = "none"}
  /\ mode = "down" => known = {}

\* No task runs more of its runs at once than its concurrency, whatever mixture of
\* first starts, resumes, retries, recovered and adopted runs filled the pool.
ConcurrencyKept == \A t \in Tasks : perTask[t] <= Limit[t]

\* No attempt starts without a worker for it (a reload may shrink the pool under
\* attempts that already run).
StartsHaveWorker ==
  [][\A r \in Runs : phase'[r] = "performing" /\ phase[r] # "performing"
       => Cardinality(inFlight') - Cardinality(backingOff') <= workers']_vars

\* The pool's copy of a run and the await its execute() stands at never contradict
\* the run's row: a run that ended is not in the pool, a run that performs is running,
\* and a pending record still says what the store says.
PoolMatchesStore ==
  /\ \A i \in DOMAIN pending : status[pending[i].run] = pending[i].status
  /\ \A r \in Runs :
       /\ phase[r] \in {"performing", "backoff", "ready"} => status[r] = "running"
       /\ phase[r] = "parking" => status[r] \in {"waiting", "queued"}

\* A waiting run always has an armed wait that can end it, and an armed wait always
\* has a waiting run: no run waits for ever on a wait already over or deleted.
WaitingHasWait == \A r \in Runs : status[r] = "waiting" <=> wait[r] = "pending"

\* A run that ended has said so exactly once, and one that has not ended has not.
EndPublishedOnce ==
  \A r \in Runs : published[r] = IF status[r] \in Terminal THEN <<status[r]>> ELSE <<>>

\* Through crashes, stops that give attempts back, resumes and recoveries, a run
\* never makes more attempts than its policy allows.
AttemptsWithinPolicy == \A r \in Runs : attempt[r] <= AttemptsOf(r)

\* A run that ended leaves no attempt open in its history, even one parked in a wait or
\* left behind by a crash or a failed write.
NoOpenAttemptAfterEnd ==
  \A r \in Runs : status[r] \in Terminal => \A n \in DOMAIN rows[r] : rows[r][n] \notin OpenRow

\* An attempt that failed is spent: no stop, restart or resume runs it again.
FailedAttemptIsSpent ==
  [][\A r \in Runs : \A n \in DOMAIN rows[r] : rows[r][n] = "failed" => rows'[r][n] = "failed"]_vars

\* The pool never sleeps on work: once pump() is done, a free worker means no retry is
\* ready and every pending run's task is at its concurrency.
NoLostPump ==
  Idle /\ mode = "up" /\ holds = 0 /\ HasWorker =>
    retryReady = <<>> /\ \A i \in DOMAIN pending : ~BelowLimit(i)

\* A cancel the executor accepted for a run in flight ends it: unless the store fails
\* or the process dies, the run leaves the pool only into a terminal status, and
\* starts no further attempt.
CancelEndsRun ==
  [][\A r \in Runs : reason[r] = "cancelled" /\ mode' # "down" /\ ~StoreFault =>
       /\ r \notin inFlight' => status'[r] \in Terminal
       /\ phase[r] # "performing" => phase'[r] # "performing"]_vars

\* A stop spends no attempt: a run that leaves the pool and is still running (the stop
\* abandoned it while it performed, after it failed, or in its backoff) has an attempt
\* left, so the next start goes on with it rather than failing it as interrupted.
StopSpendsNoAttempt ==
  [][\A r \in inFlight \ inFlight' :
       mode' # "down" /\ ~StoreFault /\ status'[r] = "running"
         => attempt'[r] < AttemptsOf(r)]_vars

\* Once the daemon stays up, the store works and no run parks any more, every queued run
\* comes to an end: a dropped hand-off is adopted, a retry gets its worker, no run
\* starves behind another.  It may wait for an event, or have been left running outside
\* the pool by an earlier store failure, for the next start.
Undisturbed ==
  <>[][~(Crash \/ Stop \/ StoreFault \/ \E r \in Runs, o \in {"pending", "matched"} : Suspend(r, o))]_vars
LeftForNextStart(r) == status[r] = "running" /\ r \notin known
EveryQueuedRunSettles ==
  Undisturbed =>
    \A r \in Runs :
      status[r] = "queued" ~> status[r] \in Terminal \cup {"waiting"} \/ LeftForNextStart(r)

\* A stop always completes: whatever the runs in flight were doing, each leaves the pool.
StopCompletes == mode = "draining" ~> mode = "down"

Contract == INSTANCE RunContract
  WITH Runs <- Runs, status <- status, published <- published
\* The executor, its store failures and restarts included, keeps the contract of a run.
KeepsContract == Contract!Spec
=============================================================================
