----------------------------- MODULE SystemParts -----------------------------
(***************************************************************************)
(* The components of ServiceProofs as parts of Services: what the theorems *)
(* there say of each of them alone holds whenever it is the part that runs. *)
(* A component is an instance there, with variables of its own names, and  *)
(* here, with the slots for variables: the lemmas Same... say that these are *)
(* the same once their definitions are expanded.  SystemProofs puts the    *)
(* parts together.                                                         *)
(***************************************************************************)
EXTENDS Services, TLAPS

SP == INSTANCE ServiceProofs
  WITH Addresses <- ListenAddresses, Asks <- ApiAsks,
       Bodies <- ApiBodies, Calls <- AgentCalls, Names <- ProxyNames, Runs <- RunNames,
       Serves <- BridgeServes, phase <- s2, attempt <- s1, side <- s8, session <- s7,
       calls <- s3, foul <- s5, ledger <- s4, real <- s6, sock <- s2, proc <- s4, waitsFor <- s6,
       current <- s1, generation <- s3, serving <- s5, kind <- s3, alive <- s4, swept <- s10,
       ended <- s1, launch <- s8, aborted <- s7, stop <- s5, call <- s6, proxy <- s9,
       daemon <- s2, wanted <- s10, held <- s4, others <- s8, queue <- s1, step <- s2, job <- s6,
       old <- s7, closed <- s5, served <- s9, lost <- s3, bridge <- s4, run <- s1, serves <- s7,
       op <- s3, ran <- s5, disk <- s7, turn <- s2, agents <- s4, conns <- s6, pollers <- s9,
       running <- s10, active <- s3, broken <- s5, life <- s8, mode <- s1, signal <- s9,
       runner <- s8, child <- s2, holds <- s3, output <- s7, outcome <- s6, server <- s5,
       client <- s4, target <- s8, upstream <- s9, reached <- s7, owed <- s3, counts <- s6,
       answers <- s2, now <- s3, event <- s2, space <- s5, pass <- s7, status <- s2, at <- s4,
       did <- s6, results <- s9, resume <- s10, progress <- s8, wait <- s5, effects <- s7,
       ask <- s2, req <- s6, made <- s3, unsure <- s8, task <- s7, conn <- s4, present <- s8,
       next <- s7, cursor <- s4, ticked <- s10, caughtUp <- s5, missed <- s6, since <- s9,
       excused <- s2, armed <- s2, flight <- s4, seen <- s1, stored <- s7, emitted <- s3,
       seeded <- s5, steady <- s6, core <- s4, accepts <- s1, file <- s3, hup <- s5,
       refused <- s6, rival <- s7, handler <- s5, copy <- s1, line <- s7, partial <- s9,
       dest <- s6, older <- s8, stuck <- s10, build <- s3, schema <- s5, copies <- s4, back <- s1

\* The part that runs begins as its component does, and steps as it does.
LEMMA PartsBegin ==
  Init =>
    /\ part = "agent" => G!Init
    /\ part = "bridge" => B!Init
    /\ part = "sequence" => Q!Init
    /\ part = "cron" => C!Init
    /\ part = "poller" => P!Init
    /\ part = "retention" => R!Init
    /\ part = "reload" => A!Init
    /\ part = "host" => H!Init
    /\ part = "process" => X!Init
    /\ part = "netproxy" => N!Init
    /\ part = "api" => K!Init
    /\ part = "backup" => U!Init
    /\ part = "upgrade" => V!Init
    /\ part = "scrape" => Y!Init
    /\ part = "daemon" => D!Init
    /\ part = "shell" => J!Init
BY DEF Init

LEMMA PartsStep ==
  [Next]_vars =>
    /\ part' = part
    /\ part = "agent" => [G!Next]_(G!vars)
    /\ part = "bridge" => [B!Next]_(B!vars)
    /\ part = "sequence" => [Q!Next]_(Q!vars)
    /\ part = "cron" => [C!Next]_(C!vars)
    /\ part = "poller" => [P!Next]_(P!vars)
    /\ part = "retention" => [R!Next]_(R!vars)
    /\ part = "reload" => [A!Next]_(A!vars)
    /\ part = "host" => [H!Next]_(H!vars)
    /\ part = "process" => [X!Next]_(X!vars)
    /\ part = "netproxy" => [N!Next]_(N!vars)
    /\ part = "api" => [K!Next]_(K!vars)
    /\ part = "backup" => [U!Next]_(U!vars)
    /\ part = "upgrade" => [V!Next]_(V!vars)
    /\ part = "scrape" => [Y!Next]_(Y!vars)
    /\ part = "daemon" => [D!Next]_(D!vars)
    /\ part = "shell" => [J!Next]_(J!vars)
<1>1. CASE Next
  BY <1>1 DEF Next, LlmStep, AgentStep, BridgeStep, SequenceStep, CronStep, PollerStep,
              RetentionStep, ReloadStep, HostStep, ProcessStep, NetProxyStep, MailStep, ChatStep,
              OpsStep, FtpStep, WebhookStep, ApiStep, BackupStep, UpgradeStep, ScrapeStep,
              DaemonStep, TranscriptStep, OutputStep, ShellStep, Pop3Step, CyclesStep
<1>2. CASE UNCHANGED vars
  <2> /\ part' = part /\ s1' = s1 /\ s2' = s2 /\ s3' = s3 /\ s4' = s4 /\ s5' = s5
      /\ s6' = s6 /\ s7' = s7 /\ s8' = s8 /\ s9' = s9 /\ s10' = s10
    BY <1>2 DEF vars, slots
  <2> UNCHANGED <<G!vars, B!vars, Q!vars, C!vars>>
    BY SMTT(20) DEF G!vars, B!vars, Q!vars, C!vars
  <2> UNCHANGED <<P!vars, R!vars, A!vars, H!vars>>
    BY SMTT(20) DEF P!vars, R!vars, A!vars, H!vars
  <2> UNCHANGED <<X!vars, N!vars, K!vars, U!vars>>
    BY SMTT(20) DEF X!vars, N!vars, K!vars, U!vars
  <2> UNCHANGED <<V!vars, Y!vars, D!vars, J!vars>>
    BY SMTT(20) DEF V!vars, Y!vars, D!vars, J!vars
  <2> QED OBVIOUS
<1> QED BY <1>1, <1>2

-----------------------------------------------------------------------------
\* Agent here and Agent in ServiceProofs.
LEMMA SameAgent ==
  /\ G!AgentAssumption => SP!G!AgentAssumption
  /\ G!Init => SP!G!Init
  /\ [G!Next]_(G!vars) => [SP!G!Next]_(SP!G!vars)
  /\ SP!G!LedgerIsReported => G!LedgerIsReported
  /\ SP!G!SucceedsCleanly => G!SucceedsCleanly
  /\ SP!G!NoUnwatchedTurn => G!NoUnwatchedTurn
  /\ SP!G!AllowedWithinCap => G!AllowedWithinCap
<1>1. ASSUME G!AgentAssumption PROVE SP!G!AgentAssumption
  BY <1>1, ZenonT(60) DEF G!AgentAssumption, SP!G!AgentAssumption, G!IsFiniteSet,
      SP!G!IsFiniteSet
<1>2. ASSUME G!Init PROVE SP!G!Init
  BY <1>2, ZenonT(60) DEF G!NewSession, SP!G!NewSession, G!NewCalls, SP!G!NewCalls, G!Init,
      SP!G!Init
<1>3. ASSUME G!Next PROVE SP!G!Next
  BY <1>3, ZenonT(60) DEF G!NewSession, SP!G!NewSession, G!NewCalls, SP!G!NewCalls, G!Spent,
      SP!G!Spent, G!CapReached, SP!G!CapReached, G!Pending, SP!G!Pending, G!OverBudget,
      SP!G!OverBudget, G!Closed, SP!G!Closed, G!Retried, SP!G!Retried, G!Failed, SP!G!Failed,
      G!Start, SP!G!Start, G!Opened, SP!G!Opened, G!BeginTurn, SP!G!BeginTurn, G!Prompt,
      SP!G!Prompt, G!FailsOutside, SP!G!FailsOutside, G!ProcessExits, SP!G!ProcessExits,
      G!InTurn, SP!G!InTurn, G!Cancel, SP!G!Cancel, G!Counted, SP!G!Counted, G!CountOf,
      SP!G!CountOf, G!AfterCount, SP!G!AfterCount, G!StartsUnasked, SP!G!StartsUnasked, G!Routed,
      SP!G!Routed, G!Asks, SP!G!Asks, G!AsksBetweenTurns, SP!G!AsksBetweenTurns, G!Reports,
      SP!G!Reports, G!Abort, SP!G!Abort, G!Reported, SP!G!Reported, G!Amount, SP!G!Amount,
      G!Overrun, SP!G!Overrun, G!TurnOver, SP!G!TurnOver, G!Stops, SP!G!Stops, G!Breaks,
      SP!G!Breaks, G!AfterGrace, SP!G!AfterGrace, G!Stuck, SP!G!Stuck, G!Restart, SP!G!Restart,
      G!Restarted, SP!G!Restarted, G!GatesPass, SP!G!GatesPass, G!Next, SP!G!Next,
      G!MapThenFoldSet, SP!G!MapThenFoldSet, G!MapThenSumSet, SP!G!MapThenSumSet
<1>4. ASSUME SP!G!LedgerIsReported PROVE G!LedgerIsReported
  BY <1>4, ZenonT(60) DEF G!LedgerIsReported, SP!G!LedgerIsReported
<1>5. ASSUME SP!G!SucceedsCleanly PROVE G!SucceedsCleanly
  BY <1>5, ZenonT(60) DEF G!SucceedsCleanly, SP!G!SucceedsCleanly
<1>6. ASSUME SP!G!NoUnwatchedTurn PROVE G!NoUnwatchedTurn
  BY <1>6, ZenonT(60) DEF G!NoUnwatchedTurn, SP!G!NoUnwatchedTurn
<1>7. ASSUME SP!G!AllowedWithinCap PROVE G!AllowedWithinCap
  BY <1>7, ZenonT(60) DEF G!AllowedWithinCap, SP!G!AllowedWithinCap, G!Cardinality,
      SP!G!Cardinality
<1>8. ASSUME UNCHANGED G!vars PROVE UNCHANGED SP!G!vars
  BY <1>8, ZenonT(60) DEF G!vars, SP!G!vars
<1> QED BY <1>1, <1>2, <1>3, <1>4, <1>5, <1>6, <1>7, <1>8

LEMMA AgentHolds ==
  ASSUME ServicesAssumption
  PROVE  Spec => [](part = "agent" => G!LedgerIsReported /\ G!SucceedsCleanly
                                      /\ G!NoUnwatchedTurn /\ G!AllowedWithinCap)
<1>1. Init => (part = "agent" => SP!G!Init)
  BY SameAgent, PartsBegin
<1>2. [Next]_vars => /\ part = "agent" => [SP!G!Next]_(SP!G!vars)
                     /\ part = "agent" <=> (part = "agent")'
  BY SameAgent, PartsStep
<1>3. SP!G!AgentAssumption
  BY SameAgent DEF ServicesAssumption
<1>4. SP!G!Spec => []SP!G!LedgerIsReported
  BY <1>3, SP!AgentLedgerIsReported
<1>5. SP!G!Spec => []SP!G!SucceedsCleanly
  BY <1>3, SP!AgentSucceedsCleanly
<1>6. SP!G!Spec => []SP!G!NoUnwatchedTurn
  BY <1>3, SP!AgentNoUnwatchedTurn
<1>7. SP!G!Spec => []SP!G!AllowedWithinCap
  BY <1>3, SP!AgentAllowedWithinCap
<1> QED BY <1>1, <1>2, <1>4, <1>5, <1>6, <1>7, SameAgent, PTL DEF Spec, SP!G!Spec

\* Bridge here and Bridge in ServiceProofs.
LEMMA SameBridge ==
  /\ B!BridgeAssumption => SP!B!BridgeAssumption
  /\ B!Init => SP!B!Init
  /\ [B!Next]_(B!vars) => [SP!B!Next]_(SP!B!vars)
  /\ SP!B!OnlyGrantedCalls => B!OnlyGrantedCalls
<1>1. ASSUME B!BridgeAssumption PROVE SP!B!BridgeAssumption
  BY <1>1, ZenonT(60) DEF B!BridgeAssumption, SP!B!BridgeAssumption
<1>2. ASSUME B!Init PROVE SP!B!Init
  BY <1>2, ZenonT(60) DEF B!Init, SP!B!Init
<1>3. ASSUME B!Next PROVE SP!B!Next
  BY <1>3, ZenonT(60) DEF B!Allows, SP!B!Allows, B!InFlight, SP!B!InFlight, B!Live, SP!B!Live,
      B!Hung, SP!B!Hung, B!Listen, SP!B!Listen, B!Connects, SP!B!Connects, B!Hello, SP!B!Hello,
      B!Calls, SP!B!Calls, B!Known, SP!B!Known, B!Listed, SP!B!Listed, B!Returns, SP!B!Returns,
      B!Fails, SP!B!Fails, B!HangsUp, SP!B!HangsUp, B!Abort, SP!B!Abort, B!Dropped, SP!B!Dropped,
      B!Close, SP!B!Close, B!Closed, SP!B!Closed, B!Next, SP!B!Next
<1>4. ASSUME SP!B!OnlyGrantedCalls PROVE B!OnlyGrantedCalls
  BY <1>4, ZenonT(60) DEF B!Allows, SP!B!Allows, B!InFlight, SP!B!InFlight, B!OnlyGrantedCalls,
      SP!B!OnlyGrantedCalls
<1>5. ASSUME UNCHANGED B!vars PROVE UNCHANGED SP!B!vars
  BY <1>5, ZenonT(60) DEF B!vars, SP!B!vars
<1> QED BY <1>1, <1>2, <1>3, <1>4, <1>5

LEMMA BridgeHolds ==
  ASSUME ServicesAssumption
  PROVE  Spec => [](part = "bridge" => B!OnlyGrantedCalls)
<1>1. Init => (part = "bridge" => SP!B!Init)
  BY SameBridge, PartsBegin
<1>2. [Next]_vars => /\ part = "bridge" => [SP!B!Next]_(SP!B!vars)
                     /\ part = "bridge" <=> (part = "bridge")'
  BY SameBridge, PartsStep
<1>3. SP!B!BridgeAssumption
  BY SameBridge DEF ServicesAssumption
<1>4. SP!B!Spec => []SP!B!OnlyGrantedCalls
  BY <1>3, SP!BridgeOnlyGrantedCalls
<1> QED BY <1>1, <1>2, <1>4, SameBridge, PTL DEF Spec, SP!B!Spec

\* Sequence here and Sequence in ServiceProofs.
LEMMA SameSequence ==
  /\ Q!SequenceAssumption => SP!Q!SequenceAssumption
  /\ Q!Init => SP!Q!Init
  /\ [Q!Next]_(Q!vars) => [SP!Q!Next]_(SP!Q!vars)
  /\ SP!Q!RepeatedOnlyAfterFailure => Q!RepeatedOnlyAfterFailure
  /\ SP!Q!ResultsBelongToSteps => Q!ResultsBelongToSteps
<1>1. ASSUME Q!SequenceAssumption PROVE SP!Q!SequenceAssumption
  BY <1>1, ZenonT(60) DEF Q!SequenceAssumption, SP!Q!SequenceAssumption
<1>2. ASSUME Q!Init PROVE SP!Q!Init
  BY <1>2, ZenonT(60) DEF Q!Steps, SP!Q!Steps, Q!Checkpoint, SP!Q!Checkpoint, Q!NoWait,
      SP!Q!NoWait, Q!Init, SP!Q!Init
<1>3. ASSUME Q!Next PROVE SP!Q!Next
  BY <1>3, ZenonT(60) DEF Q!Steps, SP!Q!Steps, Q!Checkpoint, SP!Q!Checkpoint, Q!Outcomes,
      SP!Q!Outcomes, Q!WaitEnded, SP!Q!WaitEnded, Q!Running, SP!Q!Running, Q!Gone, SP!Q!Gone,
      Q!SubmitsAnew, SP!Q!SubmitsAnew, Q!Parks, SP!Q!Parks, Q!Retried, SP!Q!Retried,
      Q!FailAfter, SP!Q!FailAfter, Q!SavedIsAhead,
      SP!Q!SavedIsAhead, Q!Begin, SP!Q!Begin, Q!Interrupted, SP!Q!Interrupted, Q!Finish,
      SP!Q!Finish, Q!Skip, SP!Q!Skip, Q!Effect, SP!Q!Effect, Q!Save, SP!Q!Save, Q!Suspend,
      SP!Q!Suspend, Q!WaitEnds, SP!Q!WaitEnds, Q!Resumed, SP!Q!Resumed, Q!Ends, SP!Q!Ends,
      Q!Succeed, SP!Q!Succeed, Q!Fail, SP!Q!Fail, Q!FailForGood, SP!Q!FailForGood,
      Q!AfterUnknown, SP!Q!AfterUnknown, Q!OutcomeUnknown, SP!Q!OutcomeUnknown, Q!Lose,
      SP!Q!Lose, Q!Next, SP!Q!Next
<1>4. ASSUME SP!Q!RepeatedOnlyAfterFailure PROVE Q!RepeatedOnlyAfterFailure
  BY <1>4, ZenonT(60) DEF Q!Steps, SP!Q!Steps, Q!RepeatedOnlyAfterFailure, SP!Q!RepeatedOnlyAfterFailure
<1>5. ASSUME SP!Q!ResultsBelongToSteps PROVE Q!ResultsBelongToSteps
  BY <1>5, ZenonT(60) DEF Q!ResultsBelongToSteps, SP!Q!ResultsBelongToSteps
<1>6. ASSUME UNCHANGED Q!vars PROVE UNCHANGED SP!Q!vars
  BY <1>6, ZenonT(60) DEF Q!vars, SP!Q!vars
<1> QED BY <1>1, <1>2, <1>3, <1>4, <1>5, <1>6

LEMMA SequenceHolds ==
  ASSUME ServicesAssumption
  PROVE  Spec => [](part = "sequence" => Q!RepeatedOnlyAfterFailure /\ Q!ResultsBelongToSteps)
<1>1. Init => (part = "sequence" => SP!Q!Init)
  BY SameSequence, PartsBegin
<1>2. [Next]_vars => /\ part = "sequence" => [SP!Q!Next]_(SP!Q!vars)
                     /\ part = "sequence" <=> (part = "sequence")'
  BY SameSequence, PartsStep
<1>3. SP!Q!SequenceAssumption
  BY SameSequence DEF ServicesAssumption
<1>4. SP!Q!Spec => []SP!Q!RepeatedOnlyAfterFailure
  BY <1>3, SP!SequenceRepeatedOnlyAfterFailure
<1>5. SP!Q!Spec => []SP!Q!ResultsBelongToSteps
  BY <1>3, SP!SequenceResultsBelong
<1> QED BY <1>1, <1>2, <1>4, <1>5, SameSequence, PTL DEF Spec, SP!Q!Spec

\* Cron here and Cron in ServiceProofs.
LEMMA SameCron ==
  /\ C!CronAssumption => SP!C!CronAssumption
  /\ C!Init => SP!C!Init
  /\ [C!Next]_(C!vars) => [SP!C!Next]_(SP!C!vars)
  /\ SP!C!TickedOrMissed => C!TickedOrMissed
  /\ SP!C!NoInstantForgotten => C!NoInstantForgotten
<1>1. ASSUME C!CronAssumption PROVE SP!C!CronAssumption
  BY <1>1, ZenonT(60) DEF C!CronAssumption, SP!C!CronAssumption
<1>2. ASSUME C!Init PROVE SP!C!Init
  BY <1>2, ZenonT(60) DEF C!Init, SP!C!Init
<1>3. ASSUME C!Next PROVE SP!C!Next
  BY <1>3, ZenonT(60) DEF C!Upto, SP!C!Upto, C!NextAfter, SP!C!NextAfter, C!IsLast, SP!C!IsLast,
      C!Halve, SP!C!Halve, C!LastFrom, SP!C!LastFrom, C!Walked, SP!C!Walked, C!LastMissed,
      SP!C!LastMissed, C!Arm, SP!C!Arm, C!CheckFailed, SP!C!CheckFailed, C!ReportMissed,
      SP!C!ReportMissed, C!CheckDone, SP!C!CheckDone, C!CheckFails, SP!C!CheckFails, C!Start,
      SP!C!Start, C!Reload, SP!C!Reload, C!FireNext, SP!C!FireNext, C!OnTick, SP!C!OnTick,
      C!Fire, SP!C!Fire, C!Edit, SP!C!Edit, C!Stop, SP!C!Stop, C!Tick, SP!C!Tick, C!Next,
      SP!C!Next, C!Cardinality, SP!C!Cardinality, C!Max, SP!C!Max, C!Min, SP!C!Min
<1>4. ASSUME SP!C!TickedOrMissed PROVE C!TickedOrMissed
  BY <1>4, ZenonT(60) DEF C!Reported, SP!C!Reported, C!TickedOrMissed, SP!C!TickedOrMissed
<1>5. ASSUME SP!C!NoInstantForgotten PROVE C!NoInstantForgotten
  BY <1>5, ZenonT(60) DEF C!Reported, SP!C!Reported, C!NoInstantForgotten,
      SP!C!NoInstantForgotten
<1>6. ASSUME UNCHANGED C!vars PROVE UNCHANGED SP!C!vars
  BY <1>6, ZenonT(60) DEF C!vars, SP!C!vars
<1> QED BY <1>1, <1>2, <1>3, <1>4, <1>5, <1>6

LEMMA CronHolds ==
  ASSUME ServicesAssumption
  PROVE  Spec => [](part = "cron" => C!TickedOrMissed /\ C!NoInstantForgotten)
<1>1. Init => (part = "cron" => SP!C!Init)
  BY SameCron, PartsBegin
<1>2. [Next]_vars => /\ part = "cron" => [SP!C!Next]_(SP!C!vars)
                     /\ part = "cron" <=> (part = "cron")'
  BY SameCron, PartsStep
<1>3. SP!C!CronAssumption
  BY SameCron DEF ServicesAssumption
<1>4. SP!C!Spec => []SP!C!TickedOrMissed
  BY <1>3, SP!CronTickedOrMissed
<1>5. SP!C!Spec => []SP!C!NoInstantForgotten
  BY <1>3, SP!CronNothingForgotten
<1> QED BY <1>1, <1>2, <1>4, <1>5, SameCron, PTL DEF Spec, SP!C!Spec

\* Poller here and Poller in ServiceProofs.
LEMMA SamePoller ==
  /\ P!PollerAssumption => SP!P!PollerAssumption
  /\ P!Init => SP!P!Init
  /\ [P!Next]_(P!vars) => [SP!P!Next]_(SP!P!vars)
  /\ SP!P!SeenWasEmitted => P!SeenWasEmitted
  /\ SP!P!SteadyItemQuiet => P!SteadyItemQuiet
<1>1. ASSUME P!PollerAssumption PROVE SP!P!PollerAssumption
  BY <1>1, ZenonT(60) DEF P!PollerAssumption, SP!P!PollerAssumption
<1>2. ASSUME P!Init PROVE SP!P!Init
  BY <1>2, ZenonT(60) DEF P!NoEntry, SP!P!NoEntry, P!Init, SP!P!Init
<1>3. ASSUME P!Next PROVE SP!P!Next
  BY <1>3, ZenonT(60) DEF P!NoEntry, SP!P!NoEntry, P!Results, SP!P!Results, P!SeenSet,
      SP!P!SeenSet, P!Picked, SP!P!Picked, P!Current, SP!P!Current, P!Previous, SP!P!Previous,
      P!LastOf, SP!P!LastOf, P!SeenNext, SP!P!SeenNext, P!Fresh, SP!P!Fresh, P!Skips, SP!P!Skips,
      P!Inserted, SP!P!Inserted, P!Kept, SP!P!Kept, P!Start, SP!P!Start, P!Poll, SP!P!Poll,
      P!DiffAndEmit, SP!P!DiffAndEmit, P!Answered, SP!P!Answered, P!PollFails, SP!P!PollFails,
      P!Stop, SP!P!Stop, P!Crash, SP!P!Crash, P!Purge, SP!P!Purge, P!Next, SP!P!Next, P!ToSet,
      SP!P!ToSet
<1>4. ASSUME SP!P!SeenWasEmitted PROVE P!SeenWasEmitted
  BY <1>4, ZenonT(60) DEF P!NoEntry, SP!P!NoEntry, P!SeenSet, SP!P!SeenSet, P!SeenWasEmitted,
      SP!P!SeenWasEmitted, P!ToSet, SP!P!ToSet
<1>5. ASSUME SP!P!SteadyItemQuiet PROVE P!SteadyItemQuiet
  BY <1>5, ZenonT(60) DEF P!SteadyItemQuiet, SP!P!SteadyItemQuiet
<1>6. ASSUME UNCHANGED P!vars PROVE UNCHANGED SP!P!vars
  BY <1>6, ZenonT(60) DEF P!vars, SP!P!vars
<1> QED BY <1>1, <1>2, <1>3, <1>4, <1>5, <1>6

LEMMA PollerSteps ==
  ASSUME ServicesAssumption
  PROVE  Spec => [][part = "poller" => P!SteadyItemQuiet]_vars
<1>1. Init => (part = "poller" => SP!P!Init)
  BY SamePoller, PartsBegin
<1>2. [Next]_vars => /\ part = "poller" => [SP!P!Next]_(SP!P!vars)
                     /\ part = "poller" <=> (part = "poller")'
  BY SamePoller, PartsStep
<1>3. SP!P!PollerAssumption
  BY SamePoller DEF ServicesAssumption
<1>4. SP!P!Spec => [][SP!P!SteadyItemQuiet]_(SP!P!vars)
  BY <1>3, SP!PollerSteadyEmittedOnce DEF SP!P!SteadyItemEmittedOnce
<1>5. Next /\ part = "poller" /\ UNCHANGED SP!P!vars => UNCHANGED vars
  <2> SUFFICES ASSUME Next, part = "poller", UNCHANGED SP!P!vars PROVE UNCHANGED vars
    OBVIOUS
  <2>1. UNCHANGED <<part, s8, s9, s10>>
    BY DEF Next, LlmStep, AgentStep, BridgeStep, SequenceStep, CronStep, PollerStep,
           RetentionStep, ReloadStep, HostStep, ProcessStep, NetProxyStep, MailStep, ChatStep,
           OpsStep, FtpStep, WebhookStep, ApiStep, BackupStep, UpgradeStep, ScrapeStep,
           DaemonStep, TranscriptStep, OutputStep, ShellStep, Pop3Step, CyclesStep
  <2> QED BY <2>1 DEF vars, slots, SP!P!vars
<1> QED BY <1>1, <1>2, <1>4, <1>5, SamePoller, PTL DEF Spec, SP!P!Spec

LEMMA PollerHolds ==
  ASSUME ServicesAssumption
  PROVE  Spec => [](part = "poller" => P!SeenWasEmitted)
<1>1. Init => (part = "poller" => SP!P!Init)
  BY SamePoller, PartsBegin
<1>2. [Next]_vars => /\ part = "poller" => [SP!P!Next]_(SP!P!vars)
                     /\ part = "poller" <=> (part = "poller")'
  BY SamePoller, PartsStep
<1>3. SP!P!PollerAssumption
  BY SamePoller DEF ServicesAssumption
<1>4. SP!P!Spec => []SP!P!SeenWasEmitted
  BY <1>3, SP!PollerSeenWasEmitted
<1> QED BY <1>1, <1>2, <1>4, SamePoller, PTL DEF Spec, SP!P!Spec

\* Retention here and Retention in ServiceProofs.
LEMMA SameRetention ==
  /\ R!RetentionAssumption => SP!R!RetentionAssumption
  /\ R!Init => SP!R!Init
  /\ [R!Next]_(R!vars) => [SP!R!Next]_(SP!R!vars)
  /\ SP!R!NeededStays => R!NeededStays
  /\ SP!R!CapStaysCounted => R!CapStaysCounted
<1>1. ASSUME R!RetentionAssumption PROVE SP!R!RetentionAssumption
  BY <1>1, ZenonT(60) DEF R!RetentionAssumption, SP!R!RetentionAssumption, R!IsFiniteSet,
      SP!R!IsFiniteSet
<1>2. ASSUME R!Init PROVE SP!R!Init
  BY <1>2, ZenonT(60) DEF R!NoPass, SP!R!NoPass, R!Init, SP!R!Init
<1>3. ASSUME R!Next PROVE SP!R!Next
  BY <1>3, ZenonT(60) DEF R!NoPass, SP!R!NoPass, R!Active, SP!R!Active, R!HasRow, SP!R!HasRow,
      R!RowsOf, SP!R!RowsOf, R!Publish, SP!R!Publish, R!Dispatch, SP!R!Dispatch, R!Row, SP!R!Row,
      R!Work, SP!R!Work, R!End, SP!R!End, R!SettleBatch, SP!R!SettleBatch, R!Push, SP!R!Push,
      R!Tick, SP!R!Tick, R!StartPass, SP!R!StartPass, R!Older, SP!R!Older, R!ABatch, SP!R!ABatch,
      R!Goes, SP!R!Goes, R!Finished, SP!R!Finished, R!Oldest, SP!R!Oldest, R!PurgeRuns,
      SP!R!PurgeRuns, R!Expendable, SP!R!Expendable, R!PurgeLedger, SP!R!PurgeLedger, R!Unneeded,
      SP!R!Unneeded, R!Workspaces, SP!R!Workspaces, R!PurgeEvents, SP!R!PurgeEvents, R!Stale,
      SP!R!Stale, R!LookAt, SP!R!LookAt, R!MayHoldWork,
      SP!R!MayHoldWork, R!Removed, SP!R!Removed, R!Swept, SP!R!Swept, R!EndPass, SP!R!EndPass,
      R!PassFails, SP!R!PassFails, R!Next, SP!R!Next, R!Cardinality, SP!R!Cardinality
<1>4. ASSUME SP!R!NeededStays PROVE R!NeededStays
  BY <1>4, ZenonT(60) DEF R!HasRow, SP!R!HasRow, R!NeededStays, SP!R!NeededStays
<1>5. ASSUME SP!R!CapStaysCounted PROVE R!CapStaysCounted
  BY <1>5, ZenonT(60) DEF R!Active, SP!R!Active, R!Day, SP!R!Day, R!CapStaysCounted,
      SP!R!CapStaysCounted
<1>6. ASSUME UNCHANGED R!vars PROVE UNCHANGED SP!R!vars
  BY <1>6, ZenonT(60) DEF R!vars, SP!R!vars
<1> QED BY <1>1, <1>2, <1>3, <1>4, <1>5, <1>6

LEMMA RetentionSteps ==
  ASSUME ServicesAssumption
  PROVE  Spec => [][part = "retention" => R!CapStaysCounted]_vars
<1>1. Init => (part = "retention" => SP!R!Init)
  BY SameRetention, PartsBegin
<1>2. [Next]_vars => /\ part = "retention" => [SP!R!Next]_(SP!R!vars)
                     /\ part = "retention" <=> (part = "retention")'
  BY SameRetention, PartsStep
<1>3. SP!R!RetentionAssumption
  BY SameRetention DEF ServicesAssumption
<1>4. SP!R!Spec => [][SP!R!CapStaysCounted]_(SP!R!vars)
  BY <1>3, SP!RetentionCapsKept DEF SP!R!CapsKeptByRetention
<1>5. Next /\ part = "retention" /\ UNCHANGED SP!R!vars => UNCHANGED vars
  <2> SUFFICES ASSUME Next, part = "retention", UNCHANGED SP!R!vars PROVE UNCHANGED vars
    OBVIOUS
  <2>1. UNCHANGED <<part, s6, s8, s9, s10>>
    BY DEF Next, LlmStep, AgentStep, BridgeStep, SequenceStep, CronStep, PollerStep,
           RetentionStep, ReloadStep, HostStep, ProcessStep, NetProxyStep, MailStep, ChatStep,
           OpsStep, FtpStep, WebhookStep, ApiStep, BackupStep, UpgradeStep, ScrapeStep,
           DaemonStep, TranscriptStep, OutputStep, ShellStep, Pop3Step, CyclesStep
  <2> QED BY <2>1 DEF vars, slots, SP!R!vars
<1> QED BY <1>1, <1>2, <1>4, <1>5, SameRetention, PTL DEF Spec, SP!R!Spec

LEMMA RetentionHolds ==
  ASSUME ServicesAssumption
  PROVE  Spec => [](part = "retention" => R!NeededStays)
<1>1. Init => (part = "retention" => SP!R!Init)
  BY SameRetention, PartsBegin
<1>2. [Next]_vars => /\ part = "retention" => [SP!R!Next]_(SP!R!vars)
                     /\ part = "retention" <=> (part = "retention")'
  BY SameRetention, PartsStep
<1>3. SP!R!RetentionAssumption
  BY SameRetention DEF ServicesAssumption
<1>4. SP!R!Spec => []SP!R!NeededStays
  BY <1>3, SP!RetentionNeededStays
<1> QED BY <1>1, <1>2, <1>4, SameRetention, PTL DEF Spec, SP!R!Spec

\* Reload here and Reload in ServiceProofs.
LEMMA SameReload ==
  /\ A!ReloadAssumption => SP!A!ReloadAssumption
  /\ A!Init => SP!A!Init
  /\ [A!Next]_(A!vars) => [SP!A!Next]_(SP!A!vars)
  /\ SP!A!NoHalfReload => A!NoHalfReload
<1>1. ASSUME A!ReloadAssumption PROVE SP!A!ReloadAssumption
  BY <1>1, ZenonT(60) DEF A!ReloadAssumption, SP!A!ReloadAssumption
<1>2. ASSUME A!Init PROVE SP!A!Init
  BY <1>2, ZenonT(60) DEF A!Idle, SP!A!Idle, A!Init, SP!A!Init
<1>3. ASSUME A!Next PROVE SP!A!Next
  BY <1>3, ZenonT(60) DEF A!Idle, SP!A!Idle, A!Held, SP!A!Held, A!Before, SP!A!Before, A!Goes,
      SP!A!Goes, A!Done, SP!A!Done, A!CoreStays, SP!A!CoreStays, A!Edit, SP!A!Edit, A!Ask,
      SP!A!Ask, A!Checked, SP!A!Checked, A!Turn, SP!A!Turn, A!Configure, SP!A!Configure, A!Apply,
      SP!A!Apply, A!StopPollers, SP!A!StopPollers, A!Started, SP!A!Started, A!AllStarted,
      SP!A!AllStarted, A!Lists, SP!A!Lists, A!StartPollers, SP!A!StartPollers, A!Switch,
      SP!A!Switch, A!Undo, SP!A!Undo, A!UndoPollers, SP!A!UndoPollers, A!Stop, SP!A!Stop,
      A!Stopped, SP!A!Stopped, A!Next, SP!A!Next
<1>4. ASSUME SP!A!NoHalfReload PROVE A!NoHalfReload
  BY <1>4, ZenonT(60) DEF A!Held, SP!A!Held, A!Checked, SP!A!Checked, A!NoHalfReload,
      SP!A!NoHalfReload
<1>5. ASSUME UNCHANGED A!vars PROVE UNCHANGED SP!A!vars
  BY <1>5, ZenonT(60) DEF A!vars, SP!A!vars
<1> QED BY <1>1, <1>2, <1>3, <1>4, <1>5

LEMMA ReloadHolds ==
  ASSUME ServicesAssumption
  PROVE  Spec => [](part = "reload" => A!NoHalfReload)
<1>1. Init => (part = "reload" => SP!A!Init)
  BY SameReload, PartsBegin
<1>2. [Next]_vars => /\ part = "reload" => [SP!A!Next]_(SP!A!vars)
                     /\ part = "reload" <=> (part = "reload")'
  BY SameReload, PartsStep
<1>3. SP!A!ReloadAssumption
  BY SameReload DEF ServicesAssumption
<1>4. SP!A!Spec => []SP!A!NoHalfReload
  BY <1>3, SP!ReloadNoHalfReload
<1> QED BY <1>1, <1>2, <1>4, SameReload, PTL DEF Spec, SP!A!Spec

\* Host here and Host in ServiceProofs.
LEMMA SameHost ==
  /\ H!HostAssumption => SP!H!HostAssumption
  /\ H!Init => SP!H!Init
  /\ [H!Next]_(H!vars) => [SP!H!Next]_(SP!H!vars)
  /\ SP!H!OneSession => H!OneSession
<1>1. ASSUME H!HostAssumption PROVE SP!H!HostAssumption
  BY <1>1, ZenonT(60) DEF H!HostAssumption, SP!H!HostAssumption, H!IsFiniteSet, SP!H!IsFiniteSet
<1>2. ASSUME H!Init PROVE SP!H!Init
  BY <1>2, ZenonT(60) DEF H!Init, SP!H!Init
<1>3. ASSUME H!Next PROVE SP!H!Next
  BY <1>3, ZenonT(60) DEF H!Terminated, SP!H!Terminated, H!Spawns, SP!H!Spawns, H!Session,
      SP!H!Session, H!Replace, SP!H!Replace, H!Connect, SP!H!Connect, H!Continue, SP!H!Continue,
      H!CoreCloses, SP!H!CoreCloses, H!OnClose, SP!H!OnClose, H!Exit, SP!H!Exit, H!Stop,
      SP!H!Stop, H!Next, SP!H!Next
<1>4. ASSUME SP!H!OneSession PROVE H!OneSession
  BY <1>4, ZenonT(60) DEF H!OneSession, SP!H!OneSession, H!Cardinality, SP!H!Cardinality
<1>5. ASSUME UNCHANGED H!vars PROVE UNCHANGED SP!H!vars
  BY <1>5, ZenonT(60) DEF H!vars, SP!H!vars
<1> QED BY <1>1, <1>2, <1>3, <1>4, <1>5

LEMMA HostHolds ==
  ASSUME ServicesAssumption
  PROVE  Spec => [](part = "host" => H!OneSession)
<1>1. Init => (part = "host" => SP!H!Init)
  BY SameHost, PartsBegin
<1>2. [Next]_vars => /\ part = "host" => [SP!H!Next]_(SP!H!vars)
                     /\ part = "host" <=> (part = "host")'
  BY SameHost, PartsStep
<1>3. SP!H!HostAssumption
  BY SameHost DEF ServicesAssumption
<1>4. SP!H!Spec => []SP!H!OneSession
  BY <1>3, SP!HostOneSession
<1> QED BY <1>1, <1>2, <1>4, SameHost, PTL DEF Spec, SP!H!Spec

\* Process here and Process in ServiceProofs.
LEMMA SameProcess ==
  /\ X!ProcessAssumption => SP!X!ProcessAssumption
  /\ X!Init => SP!X!Init
  /\ [X!Next]_(X!vars) => [SP!X!Next]_(SP!X!vars)
  /\ SP!X!GoneWhenSaid => X!GoneWhenSaid
<1>1. ASSUME X!ProcessAssumption PROVE SP!X!ProcessAssumption
  BY <1>1, ZenonT(60) DEF X!ProcessAssumption, SP!X!ProcessAssumption
<1>2. ASSUME X!Init PROVE SP!X!Init
  BY <1>2, ZenonT(60) DEF X!Init, SP!X!Init
<1>3. ASSUME X!Next PROVE SP!X!Next
  BY <1>3, ZenonT(60) DEF X!Group, SP!X!Group, X!Stray, SP!X!Stray, X!OpenProxy, SP!X!OpenProxy,
      X!Abort, SP!X!Abort, X!Unwanted, SP!X!Unwanted, X!Spawn, SP!X!Spawn, X!Forks, SP!X!Forks,
      X!Exits, SP!X!Exits, X!Initialized, SP!X!Initialized, X!Fails, SP!X!Fails, X!Rejects,
      SP!X!Rejects, X!Call, SP!X!Call, X!Answered, SP!X!Answered, X!Swept, SP!X!Swept, X!Sweep,
      SP!X!Sweep, X!Release, SP!X!Release, X!BeginStop, SP!X!BeginStop, X!Terminate,
      SP!X!Terminate, X!Kill, SP!X!Kill, X!Stopped, SP!X!Stopped, X!Listed, SP!X!Listed,
      X!DaemonExits, SP!X!DaemonExits, X!Next, SP!X!Next
<1>4. ASSUME SP!X!GoneWhenSaid PROVE X!GoneWhenSaid
  BY <1>4, ZenonT(60) DEF X!Group, SP!X!Group, X!GoneWhenSaid, SP!X!GoneWhenSaid
<1>5. ASSUME UNCHANGED X!vars PROVE UNCHANGED SP!X!vars
  BY <1>5, ZenonT(60) DEF X!vars, SP!X!vars
<1> QED BY <1>1, <1>2, <1>3, <1>4, <1>5

LEMMA ProcessHolds ==
  ASSUME ServicesAssumption
  PROVE  Spec => [](part = "process" => X!GoneWhenSaid)
<1>1. Init => (part = "process" => SP!X!Init)
  BY SameProcess, PartsBegin
<1>2. [Next]_vars => /\ part = "process" => [SP!X!Next]_(SP!X!vars)
                     /\ part = "process" <=> (part = "process")'
  BY SameProcess, PartsStep
<1>3. SP!X!ProcessAssumption
  BY SameProcess DEF ServicesAssumption
<1>4. SP!X!Spec => []SP!X!GoneWhenSaid
  BY <1>3, SP!ProcessGoneWhenSaid
<1> QED BY <1>1, <1>2, <1>4, SameProcess, PTL DEF Spec, SP!X!Spec

\* NetProxy here and NetProxy in ServiceProofs.
LEMMA SameNetProxy ==
  /\ N!NetProxyAssumption => SP!N!NetProxyAssumption
  /\ N!Init => SP!N!Init
  /\ [N!Next]_(N!vars) => [SP!N!Next]_(SP!N!vars)
  /\ SP!N!NothingHalfOpenForGood => N!NothingHalfOpenForGood
  /\ SP!N!NothingCutShort => N!NothingCutShort
  /\ SP!N!WildcardStaysPublic => N!WildcardStaysPublic
<1>1. ASSUME N!NetProxyAssumption PROVE SP!N!NetProxyAssumption
  BY <1>1, ZenonT(60) DEF N!NetProxyAssumption, SP!N!NetProxyAssumption
<1>2. ASSUME N!Init PROVE SP!N!Init
  BY <1>2, ZenonT(60) DEF N!Results, SP!N!Results, N!NoCount, SP!N!NoCount, N!Init, SP!N!Init
<1>3. ASSUME N!Next PROVE SP!N!Next
  BY <1>3, ZenonT(60) DEF N!Addresses, SP!N!Addresses, N!Open, SP!N!Open, N!Count, SP!N!Count,
      N!Reply, SP!N!Reply, N!Rule, SP!N!Rule, N!Usable, SP!N!Usable, N!Connects, SP!N!Connects,
      N!Asks, SP!N!Asks, N!Connected, SP!N!Connected, N!CannotReach, SP!N!CannotReach, N!Tunnel,
      SP!N!Tunnel, N!UpstreamSends, SP!N!UpstreamSends, N!ClientReads, SP!N!ClientReads, N!Done,
      SP!N!Done, N!Ends, SP!N!Ends, N!LastRead, SP!N!LastRead, N!Fails, SP!N!Fails, N!DropAll,
      SP!N!DropAll, N!Close, SP!N!Close, N!Closed, SP!N!Closed, N!Next, SP!N!Next, N!Cardinality,
      SP!N!Cardinality
<1>4. ASSUME SP!N!NothingHalfOpenForGood PROVE N!NothingHalfOpenForGood
  BY <1>4, ZenonT(60) DEF N!Total, SP!N!Total, N!NothingHalfOpenForGood,
      SP!N!NothingHalfOpenForGood
<1>5. ASSUME SP!N!NothingCutShort PROVE N!NothingCutShort
  BY <1>5, ZenonT(60) DEF N!NothingCutShort, SP!N!NothingCutShort
<1>6. ASSUME SP!N!WildcardStaysPublic PROVE N!WildcardStaysPublic
  BY <1>6, ZenonT(60) DEF N!WildcardStaysPublic, SP!N!WildcardStaysPublic
<1>7. ASSUME UNCHANGED N!vars PROVE UNCHANGED SP!N!vars
  BY <1>7, ZenonT(60) DEF N!vars, SP!N!vars
<1> QED BY <1>1, <1>2, <1>3, <1>4, <1>5, <1>6, <1>7

LEMMA NetProxyHolds ==
  ASSUME ServicesAssumption
  PROVE  Spec => [](part = "netproxy" => N!NothingHalfOpenForGood /\ N!NothingCutShort
                                         /\ N!WildcardStaysPublic)
<1>1. Init => (part = "netproxy" => SP!N!Init)
  BY SameNetProxy, PartsBegin
<1>2. [Next]_vars => /\ part = "netproxy" => [SP!N!Next]_(SP!N!vars)
                     /\ part = "netproxy" <=> (part = "netproxy")'
  BY SameNetProxy, PartsStep
<1>3. SP!N!NetProxyAssumption
  BY SameNetProxy DEF ServicesAssumption
<1>4. SP!N!Spec => []SP!N!NothingHalfOpenForGood
  BY <1>3, SP!ProxyNothingHalfOpen
<1>5. SP!N!Spec => []SP!N!NothingCutShort
  BY <1>3, SP!ProxyNothingCutShort
<1>6. SP!N!Spec => []SP!N!WildcardStaysPublic
  BY <1>3, SP!ProxyWildcardStaysPublic
<1> QED BY <1>1, <1>2, <1>4, <1>5, <1>6, SameNetProxy, PTL DEF Spec, SP!N!Spec

\* Api here and Api in ServiceProofs.
LEMMA SameApi ==
  /\ K!ApiAssumption => SP!K!ApiAssumption
  /\ K!Init => SP!K!Init
  /\ [K!Next]_(K!vars) => [SP!K!Next]_(SP!K!vars)
  /\ SP!K!AnswersAreTrue => K!AnswersAreTrue
  /\ SP!K!RetryIsSafe => K!RetryIsSafe
<1>1. ASSUME K!ApiAssumption PROVE SP!K!ApiAssumption
  BY <1>1, ZenonT(60) DEF K!ApiAssumption, SP!K!ApiAssumption
<1>2. ASSUME K!Init PROVE SP!K!Init
  BY <1>2, ZenonT(60) DEF K!Idle, SP!K!Idle, K!Asked, SP!K!Asked, K!Init, SP!K!Init
<1>3. ASSUME K!Next PROVE SP!K!Next
  BY <1>3, ZenonT(60) DEF K!Idle, SP!K!Idle, K!Waiting, SP!K!Waiting, K!Answer, SP!K!Answer,
      K!Await, SP!K!Await, K!StatusOnceCommitted, SP!K!StatusOnceCommitted, K!EmitStatus,
      SP!K!EmitStatus, K!Emit, SP!K!Emit, K!RunTask, SP!K!RunTask, K!CancelRun, SP!K!CancelRun,
      K!SettledStatus, SP!K!SettledStatus, K!CancelStatus, SP!K!CancelStatus, K!Settle,
      SP!K!Settle, K!SetPaused, SP!K!SetPaused, K!PutState, SP!K!PutState, K!Read, SP!K!Read,
      K!RestartConnector, SP!K!RestartConnector, K!Restarted, SP!K!Restarted, K!Route,
      SP!K!Route, K!Send, SP!K!Send, K!Refusal, SP!K!Refusal, K!Handle, SP!K!Handle, K!Deliver,
      SP!K!Deliver, K!Break, SP!K!Break, K!Lose, SP!K!Lose, K!AskAgain, SP!K!AskAgain, K!Close,
      SP!K!Close, K!Execute, SP!K!Execute, K!Next, SP!K!Next
<1>4. ASSUME SP!K!AnswersAreTrue PROVE K!AnswersAreTrue
  BY <1>4, ZenonT(60) DEF K!Told, SP!K!Told, K!AnswersAreTrue, SP!K!AnswersAreTrue
<1>5. ASSUME SP!K!RetryIsSafe PROVE K!RetryIsSafe
  BY <1>5, ZenonT(60) DEF K!RetryIsSafe, SP!K!RetryIsSafe
<1>6. ASSUME UNCHANGED K!vars PROVE UNCHANGED SP!K!vars
  BY <1>6, ZenonT(60) DEF K!vars, SP!K!vars
<1> QED BY <1>1, <1>2, <1>3, <1>4, <1>5, <1>6

LEMMA ApiHolds ==
  ASSUME ServicesAssumption
  PROVE  Spec => [](part = "api" => K!AnswersAreTrue /\ K!RetryIsSafe)
<1>1. Init => (part = "api" => SP!K!Init)
  BY SameApi, PartsBegin
<1>2. [Next]_vars => /\ part = "api" => [SP!K!Next]_(SP!K!vars)
                     /\ part = "api" <=> (part = "api")'
  BY SameApi, PartsStep
<1>3. SP!K!ApiAssumption
  BY SameApi DEF ServicesAssumption
<1>4. SP!K!Spec => []SP!K!AnswersAreTrue
  BY <1>3, SP!ApiAnswersAreTrue
<1>5. SP!K!Spec => []SP!K!RetryIsSafe
  BY <1>3, SP!ApiRetryIsSafe
<1> QED BY <1>1, <1>2, <1>4, <1>5, SameApi, PTL DEF Spec, SP!K!Spec

\* Backup here and Backup in ServiceProofs.
LEMMA SameBackup ==
  /\ U!BackupAssumption => SP!U!BackupAssumption
  /\ U!Init => SP!U!Init
  /\ [U!Next]_(U!vars) => [SP!U!Next]_(SP!U!vars)
  /\ SP!U!DestIsWhole => U!DestIsWhole
  /\ SP!U!NoCopyLeft => U!NoCopyLeft
<1>1. ASSUME U!BackupAssumption PROVE SP!U!BackupAssumption
  BY <1>1, ZenonT(60) DEF U!BackupAssumption, SP!U!BackupAssumption
<1>2. ASSUME U!Init PROVE SP!U!Init
  BY <1>2, ZenonT(60) DEF U!Nobody, SP!U!Nobody, U!Before, SP!U!Before, U!Kept, SP!U!Kept,
      U!Init, SP!U!Init
<1>3. ASSUME U!Next PROVE SP!U!Next
  BY <1>3, ZenonT(60) DEF U!Nobody, SP!U!Nobody, U!Short, SP!U!Short, U!Cached, SP!U!Cached,
      U!Kept, SP!U!Kept, U!Fails, SP!U!Fails, U!Start, SP!U!Start, U!Accepts, SP!U!Accepts,
      U!Complete, SP!U!Complete, U!Downloaded, SP!U!Downloaded, U!OnDisk, SP!U!OnDisk, U!Flushed,
      SP!U!Flushed, U!Sync, SP!U!Sync, U!MayTake, SP!U!MayTake, U!Takes, SP!U!Takes, U!Place,
      SP!U!Place, U!RemovePartial, SP!U!RemovePartial, U!KillClient, SP!U!KillClient, U!Over,
      SP!U!Over, U!Ends, SP!U!Ends, U!Creates, SP!U!Creates, U!Copy, SP!U!Copy, U!SendFile,
      SP!U!SendFile, U!Stream, SP!U!Stream, U!Break, SP!U!Break, U!KillDaemon, SP!U!KillDaemon,
      U!AfterLoss, SP!U!AfterLoss, U!PowerLoss, SP!U!PowerLoss, U!Next, SP!U!Next
<1>4. ASSUME SP!U!DestIsWhole PROVE U!DestIsWhole
  BY <1>4, ZenonT(60) DEF U!Nobody, SP!U!Nobody, U!Cached, SP!U!Cached, U!Kept, SP!U!Kept,
      U!DestIsWhole, SP!U!DestIsWhole
<1>5. ASSUME SP!U!NoCopyLeft PROVE U!NoCopyLeft
  BY <1>5, ZenonT(60) DEF U!NoCopyLeft, SP!U!NoCopyLeft
<1>6. ASSUME UNCHANGED U!vars PROVE UNCHANGED SP!U!vars
  BY <1>6, ZenonT(60) DEF U!vars, SP!U!vars
<1> QED BY <1>1, <1>2, <1>3, <1>4, <1>5, <1>6

LEMMA BackupHolds ==
  ASSUME ServicesAssumption
  PROVE  Spec => [](part = "backup" => U!DestIsWhole /\ U!NoCopyLeft)
<1>1. Init => (part = "backup" => SP!U!Init)
  BY SameBackup, PartsBegin
<1>2. [Next]_vars => /\ part = "backup" => [SP!U!Next]_(SP!U!vars)
                     /\ part = "backup" <=> (part = "backup")'
  BY SameBackup, PartsStep
<1>3. SP!U!BackupAssumption
  BY SameBackup DEF ServicesAssumption
<1>4. SP!U!Spec => []SP!U!DestIsWhole
  BY <1>3, SP!BackupDestIsWhole
<1>5. SP!U!Spec => []SP!U!NoCopyLeft
  BY <1>3, SP!BackupNoCopyLeft
<1> QED BY <1>1, <1>2, <1>4, <1>5, SameBackup, PTL DEF Spec, SP!U!Spec

\* Upgrade here and Upgrade in ServiceProofs.
LEMMA SameUpgrade ==
  /\ V!UpgradeAssumption => SP!V!UpgradeAssumption
  /\ V!Init => SP!V!Init
  /\ [V!Next]_(V!vars) => [SP!V!Next]_(SP!V!vars)
  /\ SP!V!WayBack => V!WayBack
<1>1. ASSUME V!UpgradeAssumption PROVE SP!V!UpgradeAssumption
  BY <1>1, ZenonT(60) DEF V!UpgradeAssumption, SP!V!UpgradeAssumption
<1>2. ASSUME V!Init PROVE SP!V!Init
  BY <1>2, ZenonT(60) DEF V!Schemas, SP!V!Schemas, V!None, SP!V!None, V!Init, SP!V!Init
<1>3. ASSUME V!Next PROVE SP!V!Next
  BY <1>3, ZenonT(60) DEF V!Schemas, SP!V!Schemas, V!None, SP!V!None, V!Torn, SP!V!Torn,
      V!Cached, SP!V!Cached, V!Kept, SP!V!Kept, V!Start, SP!V!Start, V!Open, SP!V!Open, V!Set,
      SP!V!Set, V!Clear, SP!V!Clear, V!Create, SP!V!Create, V!CopyInto, SP!V!CopyInto, V!Sync,
      SP!V!Sync, V!CopyFails, SP!V!CopyFails, V!MayTidy, SP!V!MayTidy, V!Tidies, SP!V!Tidies,
      V!Tidy, SP!V!Tidy, V!Ready, SP!V!Ready, V!MayMigrate, SP!V!MayMigrate, V!Migrate,
      SP!V!Migrate, V!Stop, SP!V!Stop, V!PowerLoss, SP!V!PowerLoss, V!Next, SP!V!Next
<1>4. ASSUME SP!V!WayBack PROVE V!WayBack
  BY <1>4, ZenonT(60) DEF V!Kept, SP!V!Kept, V!WayBack, SP!V!WayBack
<1>5. ASSUME UNCHANGED V!vars PROVE UNCHANGED SP!V!vars
  BY <1>5, ZenonT(60) DEF V!vars, SP!V!vars
<1> QED BY <1>1, <1>2, <1>3, <1>4, <1>5

LEMMA UpgradeHolds ==
  ASSUME ServicesAssumption
  PROVE  Spec => [](part = "upgrade" => V!WayBack)
<1>1. Init => (part = "upgrade" => SP!V!Init)
  BY SameUpgrade, PartsBegin
<1>2. [Next]_vars => /\ part = "upgrade" => [SP!V!Next]_(SP!V!vars)
                     /\ part = "upgrade" <=> (part = "upgrade")'
  BY SameUpgrade, PartsStep
<1>3. SP!V!UpgradeAssumption
  BY SameUpgrade DEF ServicesAssumption
<1>4. SP!V!Spec => []SP!V!WayBack
  BY <1>3, SP!UpgradeWayBack
<1> QED BY <1>1, <1>2, <1>4, SameUpgrade, PTL DEF Spec, SP!V!Spec

\* Scrape here and Scrape in ServiceProofs.
LEMMA SameScrape ==
  /\ Y!ScrapeAssumption => SP!Y!ScrapeAssumption
  /\ Y!Init => SP!Y!Init
  /\ [Y!Next]_(Y!vars) => [SP!Y!Next]_(SP!Y!vars)
  /\ SP!Y!ListenerKept => Y!ListenerKept
  /\ SP!Y!ClosedStaysClosed => Y!ClosedStaysClosed
<1>1. ASSUME Y!ScrapeAssumption PROVE SP!Y!ScrapeAssumption
  BY <1>1, ZenonT(60) DEF Y!ScrapeAssumption, SP!Y!ScrapeAssumption
<1>2. ASSUME Y!Init PROVE SP!Y!Init
  BY <1>2, ZenonT(60) DEF Y!Off, SP!Y!Off, Y!Init, SP!Y!Init
<1>3. ASSUME Y!Next PROVE SP!Y!Next
  BY <1>3, ZenonT(60) DEF Y!Off, SP!Y!Off, Y!Wishes, SP!Y!Wishes, Y!Clash, SP!Y!Clash, Y!Free,
      SP!Y!Free, Y!Asked, SP!Y!Asked, Y!Configure, SP!Y!Configure, Y!Close, SP!Y!Close,
      Y!Granted, SP!Y!Granted, Y!Applied, SP!Y!Applied, Y!Begin, SP!Y!Begin, Y!Listens,
      SP!Y!Listens, Y!Bind, SP!Y!Bind, Y!StopOld, SP!Y!StopOld, Y!AfterRefusal,
      SP!Y!AfterRefusal, Y!NextAfterRefusal, SP!Y!NextAfterRefusal, Y!Rebind, SP!Y!Rebind,
      Y!Restore, SP!Y!Restore, Y!Elsewhere, SP!Y!Elsewhere, Y!Next, SP!Y!Next
<1>4. ASSUME SP!Y!ListenerKept PROVE Y!ListenerKept
  BY <1>4, ZenonT(60) DEF Y!Off, SP!Y!Off, Y!ListenerKept, SP!Y!ListenerKept
<1>5. ASSUME SP!Y!ClosedStaysClosed PROVE Y!ClosedStaysClosed
  BY <1>5, ZenonT(60) DEF Y!ClosedStaysClosed, SP!Y!ClosedStaysClosed
<1>6. ASSUME UNCHANGED Y!vars PROVE UNCHANGED SP!Y!vars
  BY <1>6, ZenonT(60) DEF Y!vars, SP!Y!vars
<1> QED BY <1>1, <1>2, <1>3, <1>4, <1>5, <1>6

LEMMA ScrapeHolds ==
  ASSUME ServicesAssumption
  PROVE  Spec => [](part = "scrape" => Y!ListenerKept /\ Y!ClosedStaysClosed)
<1>1. Init => (part = "scrape" => SP!Y!Init)
  BY SameScrape, PartsBegin
<1>2. [Next]_vars => /\ part = "scrape" => [SP!Y!Next]_(SP!Y!vars)
                     /\ part = "scrape" <=> (part = "scrape")'
  BY SameScrape, PartsStep
<1>3. SP!Y!ScrapeAssumption
  BY SameScrape DEF ServicesAssumption
<1>4. SP!Y!Spec => []SP!Y!ListenerKept
  BY <1>3, SP!ScrapeListenerKept
<1>5. SP!Y!Spec => []SP!Y!ClosedStaysClosed
  BY <1>3, SP!ScrapeClosedStaysClosed
<1> QED BY <1>1, <1>2, <1>4, <1>5, SameScrape, PTL DEF Spec, SP!Y!Spec

\* Daemon here and Daemon in ServiceProofs.
LEMMA SameDaemon ==
  /\ D!DaemonAssumption => SP!D!DaemonAssumption
  /\ D!Init => SP!D!Init
  /\ [D!Next]_(D!vars) => [SP!D!Next]_(SP!D!vars)
  /\ SP!D!SocketIsKept => D!SocketIsKept
  /\ SP!D!NothingLeftOpen => D!NothingLeftOpen
  /\ SP!D!HupNotLost => D!HupNotLost
<1>1. ASSUME D!DaemonAssumption PROVE SP!D!DaemonAssumption
  BY <1>1, ZenonT(60) DEF D!DaemonAssumption, SP!D!DaemonAssumption
<1>2. ASSUME D!Init PROVE SP!D!Init
  BY <1>2, ZenonT(60) DEF D!Nobody, SP!D!Nobody, D!Init, SP!D!Init
<1>3. ASSUME D!Next PROVE SP!D!Next
  BY <1>3, ZenonT(60) DEF D!Nobody, SP!D!Nobody, D!Binding, SP!D!Binding, D!Closing,
      SP!D!Closing, D!Goes, SP!D!Goes, D!MayAct, SP!D!MayAct, D!Start, SP!D!Start, D!CoreStart,
      SP!D!CoreStart, D!Bound, SP!D!Bound, D!Bind, SP!D!Bind, D!InUse, SP!D!InUse, D!Answers,
      SP!D!Answers, D!Probe, SP!D!Probe, D!ClearStale, SP!D!ClearStale, D!Replayed,
      SP!D!Replayed, D!Replay, SP!D!Replay, D!Up, SP!D!Up, D!Sighup, SP!D!Sighup, D!Stop,
      SP!D!Stop, D!HasClosing, SP!D!HasClosing, D!Closes, SP!D!Closes, D!CloseApi, SP!D!CloseApi,
      D!CloseServer, SP!D!CloseServer, D!Unlink, SP!D!Unlink, D!CoreStop, SP!D!CoreStop, D!Kill,
      SP!D!Kill, D!Next, SP!D!Next
<1>4. ASSUME SP!D!SocketIsKept PROVE D!SocketIsKept
  BY <1>4, ZenonT(60) DEF D!SocketIsKept, SP!D!SocketIsKept
<1>5. ASSUME SP!D!NothingLeftOpen PROVE D!NothingLeftOpen
  BY <1>5, ZenonT(60) DEF D!NothingLeftOpen, SP!D!NothingLeftOpen
<1>6. ASSUME SP!D!HupNotLost PROVE D!HupNotLost
  BY <1>6, ZenonT(60) DEF D!HupNotLost, SP!D!HupNotLost
<1>7. ASSUME UNCHANGED D!vars PROVE UNCHANGED SP!D!vars
  BY <1>7, ZenonT(60) DEF D!vars, SP!D!vars
<1> QED BY <1>1, <1>2, <1>3, <1>4, <1>5, <1>6, <1>7

LEMMA DaemonHolds ==
  ASSUME ServicesAssumption
  PROVE  Spec => [](part = "daemon" => D!SocketIsKept /\ D!NothingLeftOpen /\ D!HupNotLost)
<1>1. Init => (part = "daemon" => SP!D!Init)
  BY SameDaemon, PartsBegin
<1>2. [Next]_vars => /\ part = "daemon" => [SP!D!Next]_(SP!D!vars)
                     /\ part = "daemon" <=> (part = "daemon")'
  BY SameDaemon, PartsStep
<1>3. SP!D!DaemonAssumption
  BY SameDaemon DEF ServicesAssumption
<1>4. SP!D!Spec => []SP!D!SocketIsKept
  BY <1>3, SP!DaemonSocketIsKept
<1>5. SP!D!Spec => []SP!D!NothingLeftOpen
  BY <1>3, SP!DaemonNothingLeftOpen
<1>6. SP!D!Spec => []SP!D!HupNotLost
  BY <1>3, SP!DaemonHupNotLost
<1> QED BY <1>1, <1>2, <1>4, <1>5, <1>6, SameDaemon, PTL DEF Spec, SP!D!Spec

\* Shell here and Shell in ServiceProofs.
LEMMA SameShell ==
  /\ J!ShellAssumption => SP!J!ShellAssumption
  /\ J!Init => SP!J!Init
  /\ [J!Next]_(J!vars) => [SP!J!Next]_(SP!J!vars)
  /\ SP!J!NothingRunsOn => J!NothingRunsOn
  /\ SP!J!OutcomeIsTrue => J!OutcomeIsTrue
  /\ SP!J!OutputKept => J!OutputKept
<1>1. ASSUME J!ShellAssumption PROVE SP!J!ShellAssumption
  BY <1>1, ZenonT(60) DEF J!ShellAssumption, SP!J!ShellAssumption
<1>2. ASSUME J!Init PROVE SP!J!Init
  BY <1>2, ZenonT(60) DEF J!Init, SP!J!Init
<1>3. ASSUME J!Next PROVE SP!J!Next
  BY <1>3, ZenonT(60) DEF J!Refuse, SP!J!Refuse, J!Begin, SP!J!Begin, J!StartsHelper,
      SP!J!StartsHelper, J!LeaderExits, SP!J!LeaderExits, J!HelperExits, SP!J!HelperExits,
      J!PipesOpen, SP!J!PipesOpen, J!Prints, SP!J!Prints, J!Signals, SP!J!Signals, J!Abort,
      SP!J!Abort, J!ForceKill, SP!J!ForceKill, J!Settles, SP!J!Settles, J!Outcome, SP!J!Outcome,
      J!Ends, SP!J!Ends, J!Next, SP!J!Next
<1>4. ASSUME SP!J!NothingRunsOn PROVE J!NothingRunsOn
  BY <1>4, ZenonT(60) DEF J!NothingRunsOn, SP!J!NothingRunsOn
<1>5. ASSUME SP!J!OutcomeIsTrue PROVE J!OutcomeIsTrue
  BY <1>5, ZenonT(60) DEF J!OutcomeIsTrue, SP!J!OutcomeIsTrue
<1>6. ASSUME SP!J!OutputKept PROVE J!OutputKept
  BY <1>6, ZenonT(60) DEF J!OutputKept, SP!J!OutputKept
<1>7. ASSUME UNCHANGED J!vars PROVE UNCHANGED SP!J!vars
  BY <1>7, ZenonT(60) DEF J!vars, SP!J!vars
<1> QED BY <1>1, <1>2, <1>3, <1>4, <1>5, <1>6, <1>7

LEMMA ShellHolds ==
  ASSUME ServicesAssumption
  PROVE  Spec => [](part = "shell" => J!NothingRunsOn /\ J!OutcomeIsTrue /\ J!OutputKept)
<1>1. Init => (part = "shell" => SP!J!Init)
  BY SameShell, PartsBegin
<1>2. [Next]_vars => /\ part = "shell" => [SP!J!Next]_(SP!J!vars)
                     /\ part = "shell" <=> (part = "shell")'
  BY SameShell, PartsStep
<1>3. SP!J!ShellAssumption
  BY SameShell DEF ServicesAssumption
<1>4. SP!J!Spec => []SP!J!NothingRunsOn
  BY <1>3, SP!ShellNothingRunsOn
<1>5. SP!J!Spec => []SP!J!OutcomeIsTrue
  BY <1>3, SP!ShellOutcomeIsTrue
<1>6. SP!J!Spec => []SP!J!OutputKept
  BY <1>3, SP!ShellOutputKept
<1> QED BY <1>1, <1>2, <1>4, <1>5, <1>6, SameShell, PTL DEF Spec, SP!J!Spec

\* No poller emits an item of its list twice, and retention drops no row a cap still counts.
THEOREM NothingRepeatedOrDropped == ASSUME ServicesAssumption PROVE Spec => NoStepRepeatsOrDrops
BY PollerSteps, RetentionSteps, PTL DEF NoStepRepeatsOrDrops
=============================================================================
