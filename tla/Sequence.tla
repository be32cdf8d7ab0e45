------------------------------ MODULE Sequence ------------------------------
(***************************************************************************)
(* One run of a `sequence` action (packages/core/src/actions/sequence.ts): *)
(* steps run one after the other, each finished step is saved as progress, *)
(* a `wait` step or a batched `llm` step parks the run.  Where an attempt  *)
(* goes on is chosen from two rows, the saved progress and the run's last  *)
(* wait, which attempts, waits, failures and crashes leave behind in any   *)
(* combination.                                                            *)
(***************************************************************************)
EXTENDS Naturals, Sequences

CONSTANTS
  Kinds,        \* the steps: "op" (an effect), "wait", "batch" (an effect that parks)
  MaxAttempts,  \* the task's retry policy
  MaxLosses     \* bound: crashes, stops and failed store writes

Steps == 1 .. Len(Kinds)

SequenceAssumption ==
  /\ Kinds \in Seq({"op", "wait", "batch"})
  /\ MaxAttempts \in Nat \ {0} /\ MaxLosses \in Nat

VARIABLES
  status,    \* the run's row
  attempt,   \* the attempts counted
  at,        \* the step the runner is in, 0 without a runner
  did,       \* whether the step of the runner has had its effect and is not saved yet
  results,   \* the runner's results of the steps before it
  resume,    \* whether the step of the runner gets the ended wait back
  progress,  \* the row's progress; step 0 without one
  wait,      \* the run's wait row
  effects,   \* the effects of each step that stand (an op, an armed wait, a submitted batch):
             \* those no error came of and nothing lost before they were saved
  lost       \* what was done to the run from outside

vars == <<status, attempt, at, did, results, resume, progress, wait, effects, lost>>

\* A checkpoint: the steps finished (the code's index of the next) and their results.
Checkpoint(s, r) == [step |-> s, steps |-> r]
NoWait == [step |-> 0, steps |-> <<>>, data |-> 0, by |-> 0, outcome |-> "none"]
\* How a wait ends: "errored" is the event of a batch that errored, expired or was canceled.
Outcomes == {"matched", "errored", "timeout"}
WaitEnded == wait.outcome \in Outcomes

TypeOK ==
  /\ status \in {"queued", "running", "waiting", "succeeded", "failed"}
  /\ attempt \in 0 .. MaxAttempts /\ at \in 0 .. Len(Kinds) + 1
  /\ did \in BOOLEAN /\ resume \in BOOLEAN /\ lost \in 0 .. MaxLosses
  /\ progress.step = Len(progress.steps)
  /\ wait.outcome \in {"none", "pending"} \union Outcomes

Init ==
  /\ status = "queued" /\ attempt = 0 /\ at = 0 /\ did = FALSE /\ results = <<>>
  /\ resume = FALSE /\ progress = Checkpoint(0, <<>>) /\ wait = NoWait
  /\ effects = [j \in Steps |-> 0] /\ lost = 0

Running(j) == at = j /\ j \in Steps /\ ~did
Gone == at' = 0 /\ did' = FALSE /\ results' = <<>> /\ resume' = FALSE

-----------------------------------------------------------------------------

\* Mutant: the ended wait is preferred.
SavedWithoutWait == ~WaitEnded

\* Progress past the wait: an earlier attempt already took the wait's outcome.
SavedIsAhead == ~WaitEnded \/ progress.step > wait.step

\* The runner starts, for a new attempt or to continue the parked one.
Begin ==
  /\ at = 0 /\ status \in {"queued", "running"}
  /\ LET resuming == status = "queued" /\ WaitEnded
     IN IF resuming THEN UNCHANGED attempt
        ELSE attempt < MaxAttempts /\ attempt' = attempt + 1
  /\ status' = "running"
  /\ LET from == IF SavedIsAhead THEN progress ELSE Checkpoint(wait.step, wait.steps)
     IN at' = from.step + 1 /\ results' = from.steps
  /\ resume' = ~SavedIsAhead
  /\ UNCHANGED <<did, progress, wait, effects, lost>>

\* A run recovered with no attempt left ends.
Interrupted ==
  /\ at = 0 /\ status = "running" /\ attempt = MaxAttempts /\ status' = "failed"
  /\ UNCHANGED <<attempt, at, did, results, resume, progress, wait, effects, lost>>

\* The step is finished: its result is pushed, and saved with the ones before it.
Finish(value) ==
  /\ results' = Append(results, value)
  /\ progress' = Checkpoint(at, Append(results, value))
  /\ at' = at + 1 /\ did' = FALSE /\ resume' = FALSE

\* `when` is falsy; a resumed step passed it before it parked.
Skip(j) ==
  /\ Running(j) /\ ~resume /\ Finish(0)
  /\ UNCHANGED <<status, attempt, wait, effects, lost>>

\* Mutant: a retry submits again whatever came of the batch.
SubmitsAnewAlways == wait.data # 0 /\ wait.by # attempt

\* The attempt that submitted a batch fails on its error; the retry, which gets the same
\* wait back, submits a new one.
SubmitsAnew == wait.outcome = "errored" /\ wait.by # attempt

\* The op of a step takes effect, or its batch is submitted (or found still in flight, after
\* what came of submitting it was lost); what came of it is yet to be saved.
Effect(j) ==
  /\ Running(j) /\ Kinds[j] # "wait" /\ (resume => SubmitsAnew)
  /\ did' = TRUE /\ resume' = FALSE /\ effects' = [effects EXCEPT ![j] = @ + 1]
  /\ UNCHANGED <<status, attempt, at, results, progress, wait, lost>>

Save(j) ==
  /\ at = j /\ did /\ Kinds[j] = "op" /\ Finish(j)
  /\ UNCHANGED <<status, attempt, wait, effects, lost>>

\* ctx.suspend: the run is parked on a wait with the checkpoint, for a batch also with what
\* it stored: its id and the attempt that submitted it.
Parks(j, data) ==
  /\ wait' = [step |-> j - 1, steps |-> results, data |-> data, by |-> attempt,
              outcome |-> "pending"]
  /\ status' = "waiting" /\ Gone
  /\ UNCHANGED <<attempt, progress, lost>>

Suspend(j) ==
  \/ /\ Running(j) /\ Kinds[j] = "wait" /\ ~resume
     /\ Parks(j, 0) /\ effects' = [effects EXCEPT ![j] = @ + 1]
  \/ /\ at = j /\ did /\ Kinds[j] = "batch"
     /\ Parks(j, j) /\ UNCHANGED effects

\* The dispatcher ends the wait and queues the run; a batch may have come to an error.
WaitEnds(outcome) ==
  /\ status = "waiting" /\ wait.outcome = "pending"
  /\ status' = "queued" /\ wait' = [wait EXCEPT !.outcome = outcome]
  /\ IF outcome = "errored"
     THEN wait.data # 0 /\ effects' = [effects EXCEPT ![wait.data] = @ - 1]
     ELSE UNCHANGED effects
  /\ UNCHANGED <<attempt, at, did, results, resume, progress, lost>>

\* The resumed step: a wait takes the event or the time-out, a batch its result.
Resumed(j) ==
  /\ Running(j) /\ resume
  /\ \/ Kinds[j] = "wait" /\ Finish(j)
     \/ Kinds[j] = "batch" /\ wait.outcome = "matched" /\ Finish(wait.data)
  /\ UNCHANGED <<status, attempt, wait, effects, lost>>

Ends(s) == status' = s /\ Gone /\ UNCHANGED <<attempt, progress, wait, effects>>

\* The last step is finished: the run succeeds with the results.
Succeed == at = Len(Kinds) + 1 /\ Ends("succeeded") /\ UNCHANGED lost

\* The executor retries an error that is retryable while attempts are left.
Retried == status' = (IF attempt < MaxAttempts THEN "running" ELSE "failed")

\* A retryable error before the effect, that of the batch the step was parked on included.
Fail(j) ==
  /\ Running(j) /\ Gone /\ Retried
  /\ UNCHANGED <<attempt, progress, wait, effects, lost>>

\* The effect itself came to an error that is retried: the exit code of a command, an output
\* of a model that cannot be used, an error a connector calls transient, a time-out.
FailAfter(j) ==
  /\ at = j /\ did /\ Gone /\ Retried
  /\ effects' = [effects EXCEPT ![j] = @ - 1]
  /\ UNCHANGED <<attempt, progress, wait, lost>>

\* An error that is not retried: on_timeout: fail, a batch that took too long or was refused,
\* a checkpoint that cannot be read.
FailForGood(j) == Running(j) /\ Ends("failed") /\ UNCHANGED lost

\* Mutant: an answer that never came is an error like any other.
UnknownIsRetried == IF attempt < MaxAttempts THEN "running" ELSE "failed"

\* An answer that is not retried (a refusal), or none of a connector (OutcomeUnknownError): the
\* effect may have happened, so no retry.
AfterUnknown == "failed"
OutcomeUnknown(j) ==
  /\ at = j /\ did /\ status' = AfterUnknown /\ Gone
  /\ UNCHANGED <<attempt, progress, wait, effects, lost>>

\* The process dies or is stopped (a stop gives the attempt back), or the write of the
\* progress or of the wait fails; the next attempt starts from the rows.
Lose ==
  /\ at # 0 /\ lost < MaxLosses /\ lost' = lost + 1 /\ Gone /\ status' = "running"
  /\ attempt' \in {attempt, attempt - 1}
  /\ effects' = IF did THEN [effects EXCEPT ![at] = @ - 1] ELSE effects
  /\ UNCHANGED <<progress, wait>>

Next ==
  \/ Begin \/ Interrupted \/ Succeed \/ Lose
  \/ \E j \in Steps :
       \/ Skip(j) \/ Effect(j) \/ Save(j) \/ Suspend(j) \/ Resumed(j)
       \/ Fail(j) \/ FailAfter(j) \/ FailForGood(j) \/ OutcomeUnknown(j)
  \/ \E o \in Outcomes : WaitEnds(o)

Spec == Init /\ [][Next]_vars

-----------------------------------------------------------------------------

\* A step has its effect again only once the one before came to an error that is retried, or
\* the process or the store lost what came of it: never because an answer did not come, and
\* never by a retry of another step, a wait or a resume (sequence.ts, 52-55; types.ts,
\* 180-184; llm.ts, 99-100).
RepeatedOnlyAfterFailure == \A j \in Steps : effects[j] \in {0, 1}

\* steps[i] is the result of step i, or null where it was skipped, and a step that gets a
\* wait back gets its own (48-51, 54): whichever row the attempt continues from.
ResultsBelongToSteps ==
  /\ at # 0 => Len(results) = at - 1
  /\ \A j \in DOMAIN results : results[j] \in {0, j}
  /\ resume => wait.step = at - 1
=============================================================================
