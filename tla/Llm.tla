-------------------------------- MODULE Llm --------------------------------
(***************************************************************************)
(* The language model service (packages/core/src/llm/service.ts), the      *)
(* batch poller (llm/batches.ts) and the llm action (actions/llm.ts): runs *)
(* that call a model or submit a batch and wait for it, the cost ledger,   *)
(* the daily cap with its breaker, and the caps of single runs.            *)
(*                                                                         *)
(* The executor's part is reduced to attempts: a run starts, fails with or *)
(* without another attempt, is cut off (by its timeout, a cancel or the    *)
(* stop of the daemon), parks on a wait and is resumed.  Every model has a *)
(* price, so every call has a worst case, and no bill exceeds it.          *)
(***************************************************************************)
EXTENDS Integers, FiniteSets, Functions

CONSTANTS
  CallRuns, BatchRuns,  \* runs of an llm action, without and with "batch: true"
  MaxAttempts,          \* retry.max_attempts of a run
  Cap,                  \* budgets.daily_usd
  RunCap,               \* budget.max_usd of every run
  Worst, BatchWorst,    \* the worst case of a call, and at the batch price
  DayLength,            \* ticks of the clock in a UTC day
  WaitFor,              \* BATCH_WAIT_MS
  AbandonAfter,         \* BATCH_ABANDON_MS
  Ids,                  \* bound: the batches providers accept, in order
  MaxTime,              \* bound: the clock
  Crashes               \* whether the process may die

Runs == CallRuns \cup BatchRuns

LlmAssumption ==
  /\ Ids \subseteq Nat \ {0} /\ IsFiniteSet(Ids) /\ IsFiniteSet(Runs)
  /\ CallRuns \cap BatchRuns = {}
  /\ {Cap, RunCap, Worst, BatchWorst, DayLength} \subseteq Nat \ {0}
  /\ {MaxTime, WaitFor, AbandonAfter} \subseteq Nat
  /\ MaxAttempts \in [Runs -> Nat \ {0}]
  /\ WaitFor < AbandonAfter /\ Crashes \in BOOLEAN

VARIABLES
  now,      \* the clock
  spent,    \* the ledger: what a run spent with a row of a day
  tripped,  \* the days whose budget.exceeded was published
  status,   \* of a run; "resumed" is queued after its wait
  attempt,  \* attempts a run has used, the current one included
  began,    \* the day the call in flight of a run passed its checks, or -1
  held,     \* inFlight: what a call or a submission in flight holds
  wait,     \* what a run parked with, and until when
  batch,    \* the batches providers accepted
  pass      \* the batches the poller's pass has still to look at

runVars == <<status, attempt, began, held, wait>>
vars == <<now, spent, tripped, runVars, batch, pass>>

Day(t) == t \div DayLength
Days == 0 .. Day(MaxTime)
Outcomes == {"succeeded", "unusable", "errored", "rejected"}
NoWait == [batch |-> 0, attempt |-> 0, until |-> 0, outcome |-> "none"]
NoBatch == [run |-> 0, at |-> 0, state |-> "none", row |-> FALSE, told |-> FALSE,
            paid |-> 0, parked |-> FALSE]

Plus(a, b) == a + b
Total(f, S) == FoldFunctionOnSet(Plus, 0, f, S)

\* ledger.sumSince(), with no upper end, and ledger.sumForRun().
SumSince(d) == Total(spent, {k \in DOMAIN spent : k[2] >= d})
SumForRun(r) == Total(spent, {k \in DOMAIN spent : k[1] = r})
SpentOn(d) == Total(spent, {k \in DOMAIN spent : k[2] = d})

Rows == {b \in Ids : batch[b].row}
Accepted == {b \in Ids : batch[b].state # "none"}
\* reservedUsd() + inFlightUsd()
Reserved == BatchWorst * Cardinality(Rows) + Total(held, Runs)

TypeOK ==
  /\ now \in 0 .. MaxTime
  /\ spent \in [Runs \X Days -> Nat] /\ tripped \subseteq Days
  /\ status \in [Runs -> {"queued", "resumed", "busy", "parked", "done", "failed"}]
  /\ \A r \in Runs : attempt[r] \in 0 .. MaxAttempts[r]
  /\ began \in [Runs -> Days \cup {-1}] /\ held \in [Runs -> {0, Worst, BatchWorst}]
  /\ \A r \in Runs : (began[r] # -1) = (status[r] = "busy") /\ (held[r] # 0) = (began[r] # -1)
  /\ pass \subseteq Rows

Init ==
  /\ now = 0 /\ tripped = {} /\ pass = {}
  /\ spent = [k \in Runs \X Days |-> 0]
  /\ status = [r \in Runs |-> "queued"] /\ attempt = [r \in Runs |-> 0]
  /\ began = [r \in Runs |-> -1] /\ held = [r \in Runs |-> 0]
  /\ wait = [r \in Runs |-> NoWait]
  /\ batch = [b \in Ids |-> NoBatch]

-----------------------------------------------------------------------------
(***************************************************************************)
(* The checks before a spend, and the ledger row after it                  *)
(***************************************************************************)

\* Mutant: what is held does not count.
RefusedBySpendOnly(r, worst) ==
  \/ SumSince(Day(now)) >= Cap
  \/ SumForRun(r) >= RunCap \/ SumForRun(r) + worst > RunCap

\* precheck(): the refusals it throws, none of them retryable.
Refused(r, worst) ==
  \/ SumSince(Day(now)) + Reserved >= Cap
  \/ SumForRun(r) >= RunCap \/ SumForRun(r) + worst > RunCap

\* submitBatch() wants room for the whole worst case besides.
BatchRefused(r) ==
  \/ Refused(r, BatchWorst)
  \/ SumSince(Day(now)) + Reserved + BatchWorst > Cap

\* tripBreaker(), deduplicated by day, when the cap is reached.
Trip(d, total) == tripped' = IF total >= Cap THEN tripped \cup {d} ELSE tripped

\* Mutant: only precheck() publishes budget.exceeded.
SettleQuietly(r, d, usd) ==
  /\ spent' = [spent EXCEPT ![<<r, d>>] = @ + usd]
  /\ UNCHANGED tripped

\* settle(): the row carries the day of the checks, and so does the breaker.
Settle(r, d, usd) ==
  /\ spent' = [spent EXCEPT ![<<r, d>>] = @ + usd]
  /\ Trip(d, SumSince(d) + usd)

NoSpend == UNCHANGED <<spent, tripped>>

-----------------------------------------------------------------------------
(***************************************************************************)
(* Attempts                                                                *)
(***************************************************************************)

\* The attempt number a start takes: a resumed run goes on with its own.
Starting(r) == attempt[r] + (IF status[r] = "queued" THEN 1 ELSE 0)

Ready(r) == status[r] = "resumed" \/ (status[r] = "queued" /\ attempt[r] < MaxAttempts[r])

\* Where a failed attempt leaves the run.
AfterFailure(r, n, retryable) == IF retryable /\ n < MaxAttempts[r] THEN "queued" ELSE "failed"

\* The attempt ends without a call in flight.
Ends(r, to) ==
  /\ status' = [status EXCEPT ![r] = to]
  /\ attempt' = [attempt EXCEPT ![r] = Starting(r)]
  /\ UNCHANGED <<began, held, wait, batch>>

\* reserving(): the worst case is held while the provider is awaited.
Hold(r, worst) ==
  /\ status' = [status EXCEPT ![r] = "busy"]
  /\ attempt' = [attempt EXCEPT ![r] = Starting(r)]
  /\ began' = [began EXCEPT ![r] = Day(now)]
  /\ held' = [held EXCEPT ![r] = worst]
  /\ UNCHANGED <<wait, batch>>

Release(r) == /\ began' = [began EXCEPT ![r] = -1]
              /\ held' = [held EXCEPT ![r] = 0]

\* resultOf(): what a ledgered answer makes of the attempt.
Worth(r, n, answer) == CASE answer = "good" -> "done"
                         [] answer = "truncated" -> "failed"
                         [] answer = "unusable" -> AfterFailure(r, n, TRUE)

\* lookup() and resolveProvider(): no provider, price, secret or key; never retried.
NoProvider(r) ==
  /\ Ready(r) /\ Ends(r, "failed")
  /\ UNCHANGED <<now, spent, tripped, pass>>

\* execute(), up to its await.
Call(r) ==
  /\ r \in CallRuns /\ Ready(r)
  /\ IF Refused(r, Worst)
     THEN Ends(r, "failed") /\ Trip(Day(now), SumSince(Day(now)))
     ELSE Hold(r, Worst) /\ UNCHANGED tripped
  /\ UNCHANGED <<now, spent, pass>>

\* The provider answered: the row, then overrun(), then what the answer is worth.
CallReturns(r, usd, answer) ==
  /\ r \in CallRuns /\ status[r] = "busy"
  /\ Settle(r, began[r], usd) /\ Release(r)
  /\ status' = [status EXCEPT ![r] =
       IF SumForRun(r) + usd > RunCap THEN "failed"
       ELSE Worth(r, attempt[r], answer)]
  /\ UNCHANGED <<now, attempt, wait, batch, pass>>

\* The provider failed: nothing is ledgered.
CallFails(r, retryable) ==
  /\ r \in CallRuns /\ status[r] = "busy"
  /\ Release(r)
  /\ status' = [status EXCEPT ![r] = AfterFailure(r, attempt[r], retryable)]
  /\ UNCHANGED <<now, spent, tripped, attempt, wait, batch, pass>>

\* Where an aborted attempt leaves the run; a stop gives the attempt back.
CutOff(r, why) ==
  /\ Release(r)
  /\ attempt' = [attempt EXCEPT ![r] = IF why = "stop" THEN @ - 1 ELSE @]
  /\ status' = [status EXCEPT ![r] = CASE why = "stop" -> "queued"
                                       [] why = "cancel" -> "failed"
                                       [] why = "timeout" -> AfterFailure(r, attempt[r], TRUE)]

\* Aborted in flight: the provider may bill the call, so its worst case is ledgered.
CallCutOff(r, why) ==
  /\ r \in CallRuns /\ status[r] = "busy"
  /\ Settle(r, began[r], Worst) /\ CutOff(r, why)
  /\ UNCHANGED <<now, wait, batch, pass>>

-----------------------------------------------------------------------------
(***************************************************************************)
(* runBatched()                                                            *)
(***************************************************************************)

NewId == {b \in Ids : b = Cardinality(Accepted) + 1}
RowsOf(r) == {b \in Rows : batch[b].run = r}
Newest(S) == CHOOSE b \in S : \A c \in S : c <= b

\* ctx.suspend(): the wait on llm.batch.ended of the batch.
Park(r, b, n) ==
  /\ status' = [status EXCEPT ![r] = "parked"]
  /\ wait' = [wait EXCEPT ![r] =
       [batch |-> b, attempt |-> n, until |-> now + WaitFor, outcome |-> "none"]]

\* The wait ended with llm.batch.ended: batchResult().  The process may die before the
\* run's end is stored.
Result(r) ==
  /\ IF batch[wait[r].batch].state = "succeeded"
     THEN \/ \E answer \in {"good", "truncated"} :
               Ends(r, IF SumForRun(r) > RunCap THEN "failed" ELSE Worth(r, Starting(r), answer))
          \/ Crashes /\ Ends(r, AfterFailure(r, Starting(r), TRUE))
     ELSE Ends(r, AfterFailure(r, Starting(r), batch[wait[r].batch].state # "rejected"))
  /\ NoSpend

\* Mutant: a retry or a restart never reads the batch it waited for.
ReadsItsAttemptOnly(r) == wait[r].outcome = "matched" /\ wait[r].attempt = Starting(r)

\* The resume names a batch whose result settles this attempt: it succeeded, or this
\* attempt submitted it.
ReadsResult(r) ==
  /\ wait[r].outcome = "matched"
  /\ batch[wait[r].batch].state = "succeeded" \/ wait[r].attempt = Starting(r)

\* submitBatch(), up to its await.
Submit(r) ==
  IF RowsOf(r) # {}
  THEN /\ Park(r, Newest(RowsOf(r)), Starting(r))
       /\ attempt' = [attempt EXCEPT ![r] = Starting(r)]
       /\ batch' = [batch EXCEPT ![Newest(RowsOf(r))].parked = TRUE]
       /\ UNCHANGED <<began, held>> /\ NoSpend
  ELSE IF BatchRefused(r)
  THEN Ends(r, "failed") /\ Trip(Day(now), SumSince(Day(now))) /\ UNCHANGED spent
  ELSE Hold(r, BatchWorst) /\ NoSpend

RunBatched(r) ==
  /\ r \in BatchRuns /\ Ready(r)
  /\ IF wait[r].outcome = "timeout" THEN Ends(r, "failed") /\ NoSpend
     ELSE IF ReadsResult(r) THEN Result(r)
     ELSE Submit(r)
  /\ UNCHANGED <<now, pass>>

\* The provider accepted the batch: its row replaces the hold and the run parks, unless
\* the store refuses the wait.
Submitted(r, b, parks) ==
  /\ r \in BatchRuns /\ status[r] = "busy" /\ b \in NewId
  /\ Release(r)
  /\ batch' = [batch EXCEPT ![b] = [NoBatch EXCEPT !.run = r, !.at = now, !.state = "running",
                                                   !.row = TRUE, !.parked = parks]]
  /\ IF parks THEN Park(r, b, attempt[r])
     ELSE /\ status' = [status EXCEPT ![r] = AfterFailure(r, attempt[r], TRUE)]
          /\ UNCHANGED wait
  /\ UNCHANGED <<now, spent, tripped, attempt, pass>>

\* The submission fails or is cut off: no row, although the provider may have accepted it.
SubmitFails(r, why) ==
  /\ r \in BatchRuns /\ status[r] = "busy"
  /\ CutOff(r, why)
  /\ UNCHANGED <<now, spent, tripped, wait, batch, pass>>

\* The dispatcher resumes the run: an event of its batch was published, or its time is up.
Resume(r) ==
  /\ status[r] = "parked"
  /\ \E outcome \in {"matched", "timeout"} :
       /\ outcome = "matched" <=> batch[wait[r].batch].told
       /\ outcome = "timeout" => now > wait[r].until
       /\ wait' = [wait EXCEPT ![r].outcome = outcome]
  /\ status' = [status EXCEPT ![r] = "resumed"]
  /\ UNCHANGED <<now, spent, tripped, attempt, began, held, batch, pass>>

-----------------------------------------------------------------------------
(***************************************************************************)
(* Providers, the batch poller, the clock and the process                  *)
(***************************************************************************)

\* External: the provider ends a batch.
ProviderEnds(b, outcome) ==
  /\ batch[b].state = "running"
  /\ batch' = [batch EXCEPT ![b].state = outcome]
  /\ UNCHANGED <<now, spent, tripped, runVars, pass>>

\* BatchPoller: a pass over the rows there are, never while one is running.
StartPass ==
  /\ pass = {} /\ Rows # {}
  /\ pass' = Rows
  /\ UNCHANGED <<now, spent, tripped, runVars, batch>>

\* The pass looks at the oldest first.
Polled(b) == b \in pass /\ \A c \in pass : b <= c

\* An ended batch has a bill when it carries usage, usable or not.
Billed(b) == batch[b].state \in {"succeeded", "unusable"}

\* Mutant: the row outlives the settlement.
SettleBatchKeepsRow(b, usd) ==
  /\ Polled(b) /\ batch[b].state \in Outcomes
  /\ batch' = [batch EXCEPT ![b].told = TRUE, ![b].paid = @ + (IF Billed(b) THEN 1 ELSE 0)]
  /\ IF ~Billed(b) THEN NoSpend ELSE Settle(batch[b].run, Day(now), usd)
  /\ pass' = pass \ {b}
  /\ UNCHANGED <<now, runVars>>

\* settleBatch(), one transaction: the row of a billed batch, the event, the batch's row.
SettleBatch(b, usd) ==
  /\ Polled(b) /\ batch[b].state \in Outcomes
  /\ batch' = [batch EXCEPT ![b].row = FALSE, ![b].told = TRUE,
                            ![b].paid = @ + (IF Billed(b) THEN 1 ELSE 0)]
  /\ IF ~Billed(b) THEN NoSpend ELSE Settle(batch[b].run, Day(now), usd)
  /\ pass' = pass \ {b}
  /\ UNCHANGED <<now, runVars>>

\* Still in progress, or the poll failed: left for the next pass, or given up for its age.
PollAgain(b, failed) ==
  /\ Polled(b) /\ (failed \/ batch[b].state = "running")
  /\ batch' = [batch EXCEPT ![b].row = now - batch[b].at <= AbandonAfter]
  /\ pass' = pass \ {b}
  /\ UNCHANGED <<now, spent, tripped, runVars>>

\* stop(): the pass in flight is aborted.
StopPass ==
  /\ pass # {} /\ pass' = {}
  /\ UNCHANGED <<now, spent, tripped, runVars, batch>>

Tick ==
  /\ now < MaxTime /\ now' = now + 1
  /\ UNCHANGED <<spent, tripped, runVars, batch, pass>>

\* The process dies and recovers: holds are gone, nothing of a call in flight is ledgered,
\* an interrupted run has its next attempt or fails.
Crash ==
  /\ Crashes
  /\ pass' = {}
  /\ began' = [r \in Runs |-> -1] /\ held' = [r \in Runs |-> 0]
  /\ status' = [r \in Runs |-> IF status[r] = "busy" THEN AfterFailure(r, attempt[r], TRUE)
                               ELSE status[r]]
  /\ UNCHANGED <<now, spent, tripped, attempt, wait, batch>>

RunStep(r) ==
  \/ NoProvider(r) \/ Call(r) \/ RunBatched(r) \/ Resume(r)
  \/ \E usd \in 0 .. Worst, answer \in {"good", "truncated", "unusable"} : CallReturns(r, usd, answer)
  \/ \E retryable \in BOOLEAN : CallFails(r, retryable)
  \/ \E why \in {"stop", "cancel", "timeout"} : CallCutOff(r, why) \/ SubmitFails(r, why)
  \/ \E b \in Ids, parks \in BOOLEAN : Submitted(r, b, parks)

BatchStep(b) ==
  \/ \E outcome \in Outcomes : ProviderEnds(b, outcome)
  \/ \E usd \in 0 .. BatchWorst : SettleBatch(b, usd)
  \/ \E failed \in BOOLEAN : PollAgain(b, failed)

Next ==
  \/ \E r \in Runs : RunStep(r)
  \/ \E b \in Ids : BatchStep(b)
  \/ StartPass \/ StopPass \/ Tick \/ Crash

Spec == Init /\ [][Next]_vars

-----------------------------------------------------------------------------
(***************************************************************************)
(* Properties                                                              *)
(***************************************************************************)

\* However calls, submissions, batches and midnights interleave, what was spent since
\* midnight and what is held stay below the daily cap and one worst case: concurrent
\* calls overshoot the cap by one call at most (service.ts, precheck and reserving).
CapOvershootsByOneCall == SumSince(Day(now)) + Reserved < Cap + Worst

\* A day whose spend reached the cap had its budget.exceeded published, whichever call,
\* estimate or batch took it there (settle, tripBreaker).
NoSilentOverspend == \A d \in Days : SpentOn(d) >= Cap => d \in tripped

\* A batch a run waited for is paid for once: through retries, resumes, stops and crashes
\* the run submits another only after that one failed (actions/llm.ts, runBatched).
ParkedBatchNotRepeated ==
  \A b, c \in Accepted :
    b < c /\ batch[b].run = batch[c].run /\ batch[b].parked =>
      batch[b].state \in Outcomes \ {"succeeded"}

\* Settled once, in one step with its ledger row and its event, or abandoned: the
\* refinement of BatchContract (settleBatch, pollBatches).
Fate(b) == IF batch[b].row THEN "inflight"
           ELSE IF batch[b].told THEN "ended"
           ELSE IF batch[b].state = "none" THEN "none" ELSE "abandoned"
Contract == INSTANCE BatchContract
  WITH Ids <- Ids, fate <- [b \in Ids |-> Fate(b)], paid <- [b \in Ids |-> batch[b].paid]
KeepsBatchContract == Contract!Spec
=============================================================================
