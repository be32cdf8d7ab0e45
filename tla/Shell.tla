-------------------------------- MODULE Shell --------------------------------
(***************************************************************************)
(* A shell action (packages/core/src/actions/shell.ts): one command, run   *)
(* in a process group of its own, while the executor may abort the step    *)
(* for a timeout, a cancel or a stop.  The command may start helpers that  *)
(* outlive it; a helper that holds its stdout or stderr keeps the step     *)
(* waiting.  A process that leaves the group is not modelled.              *)
(***************************************************************************)
EXTENDS Naturals

CONSTANT MaxPrinted  \* bound: pieces of output

ShellAssumption == MaxPrinted \in Nat

VARIABLES
  mode,    \* `result` of the action, and whether what the command prints is JSON
  signal,  \* ctx.signal is aborted
  runner,  \* runShell: waits for the subprocess, has its outcome, or is over
  child,   \* the subprocess: whether it was started, and how it exited
  alive,   \* the members of its process group that run
  holds,   \* the helper has the command's stdout or stderr
  stop,    \* abortedBy is set, and the SIGKILL that follows the SIGTERM
  output,  \* what was printed, and what ctx.output has of it
  outcome

vars == <<mode, signal, runner, child, alive, holds, stop, output, outcome>>

TypeOK ==
  /\ mode \in [result : {"json_stdout", "text_stdout", "exit_code"}, json : BOOLEAN]
  /\ signal \in BOOLEAN /\ runner \in {"new", "waiting", "settled", "over"}
  /\ child \in [started : BOOLEAN, exit : {"none", "zero", "other", "killed"}]
  /\ alive \subseteq {"leader", "helper"} /\ holds \in BOOLEAN
  /\ stop \in [by : BOOLEAN, kill : {"none", "armed", "sent"}]
  /\ output \in [printed : 0 .. MaxPrinted, written : 0 .. MaxPrinted]
  /\ outcome \in {"none", "result", "failed", "aborted"}

Init ==
  /\ mode \in [result : {"json_stdout", "text_stdout", "exit_code"}, json : BOOLEAN]
  /\ signal = FALSE /\ runner = "new" /\ child = [started |-> FALSE, exit |-> "none"]
  /\ alive = {} /\ holds = FALSE /\ stop = [by |-> FALSE, kill |-> "none"]
  /\ output = [printed |-> 0, written |-> 0] /\ outcome = "none"

-----------------------------------------------------------------------------

\* A step aborted before it begins starts nothing.
Refuse ==
  /\ runner = "new" /\ signal
  /\ runner' = "over" /\ outcome' = "aborted"
  /\ UNCHANGED <<mode, signal, child, alive, holds, stop, output>>

\* The command leads a process group, or cannot be started and has no pid.
Begin ==
  /\ runner = "new" /\ ~signal /\ runner' = "waiting"
  /\ \/ child' = [child EXCEPT !.started = TRUE] /\ alive' = {"leader"}
     \/ UNCHANGED <<child, alive>>
  /\ UNCHANGED <<mode, signal, holds, stop, output, outcome>>

-----------------------------------------------------------------------------
\* The command and its helper.

StartsHelper ==
  /\ "leader" \in alive /\ alive' = alive \union {"helper"} /\ "helper" \notin alive
  /\ holds' \in BOOLEAN
  /\ UNCHANGED <<mode, signal, runner, child, stop, output, outcome>>

\* By itself, by the SIGTERM, which it may ignore, or by a signal from elsewhere.
LeaderExits ==
  /\ "leader" \in alive /\ alive' = alive \ {"leader"}
  /\ \E how \in {"zero", "other", "killed"} : child' = [child EXCEPT !.exit = how]
  /\ UNCHANGED <<mode, signal, runner, holds, stop, output, outcome>>

HelperExits ==
  /\ "helper" \in alive /\ alive' = alive \ {"helper"} /\ holds' = FALSE
  /\ UNCHANGED <<mode, signal, runner, child, stop, output, outcome>>

PipesOpen == "leader" \in alive \/ holds

Prints ==
  /\ PipesOpen /\ output.printed < MaxPrinted
  /\ output' = [output EXCEPT !.printed = @ + 1]
  /\ UNCHANGED <<mode, signal, runner, child, alive, holds, stop, outcome>>

-----------------------------------------------------------------------------
\* The abort.

\* Mutant: once the command itself is gone its group is not signalled.
SignalsCommand == child.started /\ "leader" \in alive

\* A group is signalled when there is a pid, whatever of it still runs.
Signals == child.started

\* onAbort listens from the start of the command until runShell has its outcome.
Abort ==
  /\ ~signal /\ signal' = TRUE
  /\ stop' = IF runner \in {"waiting", "settled"}
             THEN [by |-> TRUE, kill |-> IF Signals THEN "armed" ELSE "none"] ELSE stop
  /\ UNCHANGED <<mode, runner, child, alive, holds, output, outcome>>

\* FORCE_KILL_AFTER_MS: SIGKILL to what is left of the group.
ForceKill ==
  /\ stop.kill = "armed" /\ stop' = [stop EXCEPT !.kill = "sent"]
  /\ alive' = {} /\ holds' = FALSE
  /\ child' = IF "leader" \in alive THEN [child EXCEPT !.exit = "killed"] ELSE child
  /\ UNCHANGED <<mode, signal, runner, output, outcome>>

-----------------------------------------------------------------------------
\* The outcome.

\* execa settles when the command has exited and its pipes are closed.
Settles ==
  /\ runner = "waiting" /\ ~PipesOpen /\ runner' = "settled"
  /\ UNCHANGED <<mode, signal, child, alive, holds, stop, output, outcome>>

\* Mutant: a command that exits well has succeeded, aborted or not.
ExitDecides ==
  IF child.exit = "zero" THEN "result" ELSE IF stop.by THEN "aborted" ELSE "failed"

\* An abort first, then a command that did not start or was killed, then its exit code.
Outcome ==
  CASE stop.by -> "aborted"
    [] ~stop.by /\ child.exit \in {"none", "killed"} -> "failed"
    [] ~stop.by /\ child.exit \in {"zero", "other"} ->
         IF \/ mode.result = "exit_code"
            \/ child.exit = "zero" /\ (mode.result = "json_stdout" => mode.json)
         THEN "result" ELSE "failed"

\* What was printed is written before the outcome is told.
Ends ==
  /\ runner = "settled" /\ runner' = "over"
  /\ output' = [output EXCEPT !.written = output.printed]
  /\ outcome' = Outcome
  /\ UNCHANGED <<mode, signal, child, alive, holds, stop>>

-----------------------------------------------------------------------------

Next ==
  \/ Refuse \/ Begin \/ StartsHelper \/ LeaderExits \/ HelperExits \/ Prints
  \/ Abort \/ ForceKill \/ Settles \/ Ends

Spec == Init /\ [][Next]_vars

-----------------------------------------------------------------------------

\* Of a step that was aborted nothing runs on, whichever of its processes ended first, or a
\* SIGKILL is still to come (onAbort, killGroup).
NothingRunsOn == stop.by \/ outcome = "aborted" => alive = {} \/ stop.kill = "armed"

\* The outcome is the command's: an aborted step never succeeds, one that was not aborted is
\* never said to be, and a result comes from a command that exited by itself (runShell).
OutcomeIsTrue ==
  /\ outcome = "result" => ~stop.by /\ child.exit \in {"zero", "other"}
  /\ outcome = "aborted" => signal
  /\ outcome = "failed" => ~stop.by

\* Whatever the outcome, what the step printed is in its transcript (runShell, #89).
OutputKept == runner = "over" => output.written = output.printed
=============================================================================
