------------------------------- MODULE Agent --------------------------------
(***************************************************************************)
(* Runs of `agent` actions (packages/core/src/actions/agent.ts) on one     *)
(* agent process: each opens a session, prompts a turn and, when the       *)
(* result file is missing, a second one.  While a turn runs the agent      *)
(* reports tool calls, asks for permissions and reports the session's cost *)
(* so far; past a limit the session is cancelled, and an agent that does   *)
(* not stop in time is restarted, which breaks every session on it.        *)
(*                                                                         *)
(* Prices are small numbers.  A turn without a reported cost is priced by  *)
(* its tokens.  Costs in other currencies are left out.               *)
(***************************************************************************)
EXTENDS Naturals, FiniteSets, FiniteSetsExt

CONSTANTS
  Runs,
  Calls,         \* the ids of a session's tool calls
  BadCalls,      \* those outside the policy
  MaxToolCalls,  \* max_tool_calls
  MaxAttempts,
  RunCap,        \* budget.max_usd
  DailyCap,      \* budgets.daily_usd
  MaxCost        \* bound: what a session reports and a turn's tokens cost

AgentAssumption ==
  /\ BadCalls \subseteq Calls /\ IsFiniteSet(Calls) /\ IsFiniteSet(Runs)
  /\ MaxToolCalls \in Nat \ {0} /\ MaxAttempts \in Nat \ {0}
  /\ RunCap \in Nat /\ DailyCap \in Nat /\ MaxCost \in Nat

VARIABLES
  phase,    \* where runAgent() is
  attempt,
  side,     \* what the agent process does for the run's session
  session,  \* turn: its number; seen: the cost reported in it; charged: what is in the
            \* ledger; cost: what the agent reported so far; cancel: the reason
  calls,    \* counted, n: the counted ids and toolCalls; judged, allowed: ids asked for
  foul,     \* whether a call outside the policy ran without asking, in this attempt
  ledger,   \* the run's spend in the ledger
  real      \* what the agent reported for the run over all its sessions

vars == <<phase, attempt, side, session, calls, foul, ledger, real>>

NewSession == [turn |-> 0, seen |-> 0, charged |-> 0, cost |-> 0, cancel |-> "none"]
NewCalls == [counted |-> {}, n |-> 0, judged |-> {}, allowed |-> {}]
Spent(l) == MapThenSumSet(LAMBDA r : l[r], Runs)

TypeOK ==
  /\ \A r \in Runs :
       /\ phase[r] \in {"start", "opening", "opened", "turn", "restarting", "restarted",
                        "gates", "succeeded", "failed"}
       /\ side[r] \in {"none", "idle", "working", "broken"}
       /\ session[r].cancel \in {"none", "budget", "tool_calls", "policy", "abort"}
       /\ calls[r].allowed \subseteq calls[r].judged /\ calls[r].judged \subseteq Calls
  /\ attempt \in [Runs -> 1 .. MaxAttempts] /\ foul \in [Runs -> BOOLEAN]
  /\ ledger \in [Runs -> Nat] /\ real \in [Runs -> Nat]

Init ==
  /\ phase = [r \in Runs |-> "start"] /\ attempt = [r \in Runs |-> 1]
  /\ side = [r \in Runs |-> "none"] /\ session = [r \in Runs |-> NewSession]
  /\ calls = [r \in Runs |-> NewCalls] /\ foul = [r \in Runs |-> FALSE]
  /\ ledger = [r \in Runs |-> 0] /\ real = [r \in Runs |-> 0]

-----------------------------------------------------------------------------

\* checkBudget(): what is in the ledger has reached a cap.
CapReached(r, l) == Spent(l) >= DailyCap \/ l[r] >= RunCap

\* overBudget(): with what the session reported and is not in the ledger yet.
Pending(r, cost) == IF cost > session[r].charged THEN cost - session[r].charged ELSE 0
OverBudget(r, cost) ==
  \/ Spent(ledger) + Pending(r, cost) >= DailyCap
  \/ ledger[r] + Pending(r, cost) > RunCap

\* The run ends, or fails with an error that is retried: session closed, workspace removed.
Closed(r, to) ==
  /\ phase' = [phase EXCEPT ![r] = to]
  /\ side' = [side EXCEPT ![r] = "none"]
Retried(r) ==
  IF attempt[r] < MaxAttempts
  THEN /\ Closed(r, "start") /\ attempt' = [attempt EXCEPT ![r] = @ + 1]
  ELSE /\ Closed(r, "failed") /\ UNCHANGED attempt
Failed(r) == Closed(r, "failed") /\ UNCHANGED attempt

\* The budget is checked, then the workspace is created and a session asked for.
Start(r) ==
  /\ phase[r] = "start"
  /\ phase' = [phase EXCEPT ![r] = IF CapReached(r, ledger) THEN "failed" ELSE "opening"]
  /\ session' = [session EXCEPT ![r] = NewSession]
  /\ calls' = [calls EXCEPT ![r] = NewCalls]
  /\ foul' = [foul EXCEPT ![r] = FALSE]
  /\ UNCHANGED <<attempt, side, ledger, real>>

Opened(r) ==
  /\ phase[r] = "opening"
  /\ phase' = [phase EXCEPT ![r] = "opened"] /\ side' = [side EXCEPT ![r] = "idle"]
  /\ UNCHANGED <<attempt, session, calls, foul, ledger, real>>

\* The session's settings are applied, then the first turn is prompted.
BeginTurn(r, n, charged) ==
  /\ session' = [session EXCEPT ![r] =
       [turn |-> n, seen |-> 0, charged |-> charged, cost |-> @.cost, cancel |-> "none"]]
  /\ side' = [side EXCEPT ![r] = IF @ = "broken" THEN @ ELSE "working"]
Prompt(r) ==
  /\ phase[r] = "opened" /\ phase' = [phase EXCEPT ![r] = "turn"]
  /\ BeginTurn(r, 1, 0)
  /\ UNCHANGED <<attempt, calls, foul, ledger, real>>

\* A failing open, setting or gate; the run's timeout, cancel or stop outside a turn.
FailsOutside(r) ==
  /\ phase[r] \in {"opening", "opened", "gates"}
  /\ Retried(r) \/ Failed(r)
  /\ UNCHANGED <<session, calls, foul, ledger, real>>

\* The agent process exits, and every session on it breaks.
ProcessExits ==
  /\ \E r \in Runs : side[r] \in {"idle", "working"}
  /\ side' = [r \in Runs |-> IF side[r] = "none" THEN "none" ELSE "broken"]
  /\ UNCHANGED <<phase, attempt, session, calls, foul, ledger, real>>

-----------------------------------------------------------------------------

InTurn(r) == phase[r] = "turn" /\ side[r] = "working"
\* cancel(): the first reason stands.
Cancel(r, reason) == IF session[r].cancel = "none" THEN reason ELSE session[r].cancel
Counted(r, c) == c \in calls[r].counted
CountOf(r, c) == calls[r].n + (IF Counted(r, c) THEN 0 ELSE 1)
\* Mutant: the cap is checked before the call counts.
AfterCountLate(r, c) ==
  IF ~Counted(r, c) /\ calls[r].n > MaxToolCalls
  THEN Cancel(r, "tool_calls") ELSE session[r].cancel

\* count(): a new id counts, and past the cap the session is cancelled.
AfterCount(r, c) ==
  IF ~Counted(r, c) /\ CountOf(r, c) > MaxToolCalls
  THEN Cancel(r, "tool_calls") ELSE session[r].cancel

\* A call has started without asking: it is counted, and judged as if it had asked.
StartsUnasked(r, c) ==
  /\ InTurn(r) /\ c \notin calls[r].judged
  /\ calls' = [calls EXCEPT ![r] =
       [@ EXCEPT !.counted = calls[r].counted \cup {c}, !.n = CountOf(r, c)]]
  /\ session' = [session EXCEPT ![r].cancel =
                   IF c \in BadCalls /\ AfterCount(r, c) = "none" THEN "policy"
                   ELSE AfterCount(r, c)]
  /\ foul' = [foul EXCEPT ![r] = @ \/ c \in BadCalls]
  /\ UNCHANGED <<phase, attempt, side, ledger, real>>

\* A permission request is routed to its session; one for a session that is closed or whose
\* run is aborted is answered `cancelled` before the run sees it.
Routed(r) == side[r] \in {"idle", "working"} /\ session[r].cancel # "abort"

\* session/request_permission in a turn: counted, then allowed unless the turn is
\* cancelling or the policy refuses it.
Asks(r, c) ==
  /\ InTurn(r) /\ Routed(r)
  /\ calls' = [calls EXCEPT ![r] =
       [counted |-> @.counted \cup {c}, n |-> CountOf(r, c), judged |-> @.judged \cup {c},
        allowed |-> IF AfterCount(r, c) = "none" /\ c \notin BadCalls
                    THEN @.allowed \cup {c} ELSE @.allowed]]
  /\ session' = [session EXCEPT ![r].cancel = AfterCount(r, c)]
  /\ UNCHANGED <<phase, attempt, side, foul, ledger, real>>

\* ... and between turns: answered `cancelled`, not counted.
AsksBetweenTurns(r, c) ==
  /\ phase[r] \in {"opened", "restarting", "gates"} /\ Routed(r)
  /\ calls' = [calls EXCEPT ![r].judged = @ \cup {c}]
  /\ UNCHANGED <<phase, attempt, side, session, foul, ledger, real>>

\* A usage update with the session's cost so far.
Reports(r) ==
  /\ InTurn(r) /\ session[r].cost < MaxCost
  /\ real' = [real EXCEPT ![r] = @ + 1]
  /\ LET cost == session[r].cost + 1
     IN session' = [session EXCEPT ![r] = [@ EXCEPT !.cost = cost, !.seen = cost,
           !.cancel = IF OverBudget(r, cost) THEN Cancel(r, "budget") ELSE session[r].cancel]]
  /\ UNCHANGED <<phase, attempt, side, calls, foul, ledger>>

Abort(r) ==
  /\ phase[r] = "turn" /\ session[r].cancel = "none"
  /\ session' = [session EXCEPT ![r].cancel = "abort"]
  /\ UNCHANGED <<phase, attempt, side, calls, foul, ledger, real>>

-----------------------------------------------------------------------------

\* Mutant: the session's cost so far is taken for the turn's.
ReportedSoFar(r) == session[r].seen

\* What the turn adds to what the session already has in the ledger.
Reported(r) == Pending(r, session[r].seen)

\* record() and the errors after it, for a turn that ended with `how`: the agent's stop,
\* with or without usage; an error; or not at all, so the process was stopped.
Amount(r, tokens) == IF session[r].seen > 0 THEN Reported(r) ELSE tokens
\* Mutant: the turn's own cost is held against the run's budget.
OverrunByTurn(r, l) == session[r].cancel # "budget" /\ l[r] - ledger[r] > RunCap

Overrun(r, l) == session[r].cancel # "budget" /\ l[r] > RunCap

TurnOver(r, how, tokens) ==
  LET now     == [ledger EXCEPT ![r] = @ + Amount(r, tokens)]
      charged == IF session[r].seen > 0 THEN session[r].seen ELSE session[r].charged
      blind   == how = "stop" /\ session[r].seen = 0 /\ tokens = 0
  IN /\ ledger' = now
     /\ IF \/ blind \/ Overrun(r, now)
           \/ session[r].cancel \in {"budget", "tool_calls", "policy"}
        THEN Failed(r) /\ UNCHANGED session
        ELSE IF session[r].cancel = "abort"
        THEN (Retried(r) \/ Failed(r)) /\ UNCHANGED session
        ELSE IF how = "error" THEN Retried(r) /\ UNCHANGED session
        ELSE
          \/ Failed(r) /\ UNCHANGED session  \* a refusal
          \/ Retried(r) /\ UNCHANGED session  \* a result that is not valid
          \/ phase' = [phase EXCEPT ![r] = "gates"] /\ UNCHANGED <<attempt, session>>
               /\ side' = [side EXCEPT ![r] = IF @ = "working" THEN "idle" ELSE @]
          \/ /\ session[r].turn = 1  \* no result: once more
             /\ IF CapReached(r, now)
                THEN Failed(r) /\ UNCHANGED session
                ELSE BeginTurn(r, 2, charged) /\ UNCHANGED <<phase, attempt>>

Stops(r, tokens) ==
  /\ InTurn(r) /\ TurnOver(r, "stop", tokens)
  /\ real' = [real EXCEPT ![r] = @ + (IF session[r].seen > 0 THEN 0 ELSE tokens)]
  /\ UNCHANGED <<calls, foul>>

Breaks(r) ==
  /\ phase[r] = "turn" /\ side[r] = "broken" /\ TurnOver(r, "error", 0)
  /\ UNCHANGED <<calls, foul, real>>

\* Mutant: the runner goes on without the restart.
AfterGraceGoesOn == "restarted"

\* The grace after a cancel is over: the process is restarted.
AfterGrace == "restarting"
Stuck(r) ==
  /\ InTurn(r) /\ session[r].cancel # "none"
  /\ phase' = [phase EXCEPT ![r] = AfterGrace]
  /\ UNCHANGED <<attempt, side, session, calls, foul, ledger, real>>
Restart(r) ==
  /\ phase[r] = "restarting" /\ phase' = [phase EXCEPT ![r] = "restarted"]
  /\ side' = [s \in Runs |-> IF side[s] = "none" THEN "none" ELSE "broken"]
  /\ UNCHANGED <<attempt, session, calls, foul, ledger, real>>
Restarted(r) ==
  /\ phase[r] = "restarted" /\ TurnOver(r, "stuck", 0)
  /\ UNCHANGED <<calls, foul, real>>

\* The post gates passed: the workspace is kept.
GatesPass(r) ==
  /\ phase[r] = "gates" /\ Closed(r, "succeeded")
  /\ UNCHANGED <<attempt, session, calls, foul, ledger, real>>

Next ==
  \/ ProcessExits
  \/ \E r \in Runs :
       \/ Start(r) \/ Opened(r) \/ Prompt(r) \/ FailsOutside(r) \/ Reports(r) \/ Abort(r)
       \/ \E t \in 0 .. MaxCost : Stops(r, t)
       \/ Breaks(r) \/ Stuck(r) \/ Restart(r) \/ Restarted(r) \/ GatesPass(r)
       \/ \E c \in Calls : StartsUnasked(r, c) \/ Asks(r, c) \/ AsksBetweenTurns(r, c)

Spec == Init /\ [][Next]_vars

-----------------------------------------------------------------------------

\* Outside a turn the ledger holds what the agent reported, over all turns, sessions and
\* attempts: a cumulative cost is charged once (agent.ts, 600-640).
LedgerIsReported ==
  \A r \in Runs : phase[r] \notin {"turn", "restarting", "restarted"} => ledger[r] = real[r]

\* No turn runs with nobody watching it: once its run goes on, the agent has stopped, or
\* its process was stopped (586-595).
NoUnwatchedTurn ==
  \A r \in Runs : side[r] = "working" => phase[r] \in {"turn", "restarting"}

\* Both turns together make at most max_tool_calls calls the agent asked for (195-204).
AllowedWithinCap == \A r \in Runs : Cardinality(calls[r].allowed) <= MaxToolCalls

\* A run that succeeds kept its budget, and no turn of its session ran a call outside
\* the policy without asking.
SucceedsCleanly == \A r \in Runs : phase[r] = "succeeded" => ledger[r] <= RunCap /\ ~foul[r]
=============================================================================
