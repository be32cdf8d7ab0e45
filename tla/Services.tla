------------------------------ MODULE Services ------------------------------
(***************************************************************************)
(* The components of the daemon that share no state in the models, and the *)
(* properties that ask the same thing of several of them. In a behaviour   *)
(* one of them runs alone: the behaviours of this specification are those  *)
(* of all of them, and a property of one part says nothing of the others'. *)
(* Their variables share the slots s1 .. s10, and a slot a part has no     *)
(* variable for keeps 0; a name is kept in one slot whichever parts have   *)
(* it. A constant that several components have (Conns, Keys) stands for    *)
(* each one's own, except where they differ in its value (LlmTime,         *)
(* CronTime).                                                              *)
(***************************************************************************)
EXTENDS Integers, FiniteSets, Sequences

CONSTANTS
  CallRuns, BatchRuns, LlmAttempts, Cap, RunCap, Worst, BatchWorst, DayLength,
  WaitFor, AbandonAfter, Ids, LlmTime, Crashes,  \* Llm
  RunNames, AgentCalls, BadCalls, MaxToolCalls, MaxAttempts, DailyCap, MaxCost,  \* Agent
  Conns, Connectors, Ops, Grants, BridgeServes,  \* Bridge
  StepKinds, SequenceAttempts, MaxLosses,  \* Sequence
  Due, RunOnce, MaxMissed, CronTime,  \* Cron
  Keys, Keep, SkipFirst, MaxItems, MaxEmissions,  \* Poller
  Agents, KeepRuns, KeepLedger, KeepEvents, KeepSpaces, Batch, MaxRows, MaxTime,  \* Retention
  Versions, Valid, MaxQueue, Builtin,  \* Reload
  HostConns,  \* Host
  Launchers,  \* Process
  ProxyNames, Exact, Below, ProxyConnections, MaxOwed,  \* NetProxy
  Mailboxes, MaxMails, MaxSeen, Limit, FailsAfterReset,  \* Mail
  Matrix, SkipHistory, Questions, Options, PendingLimit, Tries,  \* Chat
  Apis, PerPage, Wants, Pulls, OpsItems, MaxFaults,  \* Ops
  Tree, Extra, Servers,  \* Ftp
  MaxConnections, MaxTries,  \* Webhook
  Reqs, ApiTries, ApiBodies, ApiAsks,  \* Api
  Clients, Forced,  \* Backup
  Releases,  \* Upgrade
  ListenAddresses, MaxRequests,  \* Scrape
  Daemons,  \* Daemon
  TextMax, MaxTurns, MaxUnits,  \* Transcript
  Streams, Room, MaxChars, LoggedLines,  \* Output
  MaxPrinted,  \* Shell
  Pop3Session, MaxLines,  \* Pop3
  Size  \* Cycles

VARIABLES part, s1, s2, s3, s4, s5, s6, s7, s8, s9, s10
slots == <<s1, s2, s3, s4, s5, s6, s7, s8, s9, s10>>

L == INSTANCE Llm
  WITH MaxAttempts <- LlmAttempts, MaxTime <- LlmTime, now <- s3, spent <- s9, tripped <- s10,
       status <- s2, attempt <- s1, began <- s8, held <- s4, wait <- s5, batch <- s6, pass <- s7
G == INSTANCE Agent
  WITH Runs <- RunNames, Calls <- AgentCalls, phase <- s2, attempt <- s1,
       side <- s8, session <- s7, calls <- s3, foul <- s5, ledger <- s4, real <- s6
B == INSTANCE Bridge
  WITH Serves <- BridgeServes, bridge <- s4, run <- s1, sock <- s2,
       serves <- s7, call <- s6, op <- s3, ran <- s5
Q == INSTANCE Sequence
  WITH Kinds <- StepKinds, MaxAttempts <- SequenceAttempts, status <- s2, attempt <- s1,
       at <- s4, did <- s6, results <- s9, resume <- s10, progress <- s8, wait <- s5,
       effects <- s7, lost <- s3
C == INSTANCE Cron
  WITH MaxTime <- CronTime, now <- s3, mode <- s1, present <- s8, next <- s7, cursor <- s4,
       ticked <- s10, caughtUp <- s5, missed <- s6, since <- s9, excused <- s2
P == INSTANCE Poller
  WITH armed <- s2, flight <- s4, seen <- s1, stored <- s7, emitted <- s3, seeded <- s5,
       steady <- s6
R == INSTANCE Retention
  WITH Runs <- RunNames, now <- s3, event <- s2, run <- s1, ledger <- s4,
       space <- s5, pass <- s7
A == INSTANCE Reload
  WITH disk <- s7, queue <- s1, turn <- s2, agents <- s4, conns <- s6, pollers <- s9,
       running <- s10, active <- s3, broken <- s5, life <- s8
H == INSTANCE Host
  WITH Conns <- HostConns, sock <- s2, proc <- s4, waitsFor <- s6, current <- s1,
       generation <- s3, serving <- s5
X == INSTANCE Process
  WITH Kinds <- Launchers, kind <- s3, alive <- s4, swept <- s10, ended <- s1, launch <- s8,
       aborted <- s7, stop <- s5, call <- s6, proxy <- s9, daemon <- s2
N == INSTANCE NetProxy
  WITH Names <- ProxyNames, MaxConnections <- ProxyConnections,
       server <- s5, client <- s4, target <- s8, upstream <- s9, reached <- s7, ended <- s1,
       owed <- s3, counts <- s6, answers <- s2
M == INSTANCE Mail
  WITH Kinds <- Mailboxes, kind <- s3, server <- s5, state <- s7, cursor <- s4, run <- s1,
       counted <- s6, waived <- s8, evicted <- s2
Ch == INSTANCE Chat
  WITH timeline <- s9, core <- s4, events <- s3, mem <- s8, batch <- s6, stage <- s5, asks <- s7,
       copy <- s1, told <- s10, excused <- s2
O == INSTANCE Ops
  WITH MaxItems <- OpsItems, op <- s3, status <- s2, attempt <- s1, conn <- s4, waiting <- s9,
       handler <- s5, got <- s6, list <- s8, writes <- s10, faults <- s7
F == INSTANCE Ftp
  WITH op <- s3, status <- s2, attempt <- s1, at <- s4, error <- s6, net <- s7, remote <- s8,
       stage <- s5, staged <- s9, todo <- s10
W == INSTANCE Webhook
  WITH route <- s6, post <- s2, server <- s5, conn <- s4, events <- s3, seen <- s1, tries <- s7
K == INSTANCE Api
  WITH Bodies <- ApiBodies, Asks <- ApiAsks, MaxTries <- ApiTries,
       server <- s5, ask <- s2, req <- s6, made <- s3, unsure <- s8, task <- s7, run <- s1,
       conn <- s4
U == INSTANCE Backup
  WITH daemon <- s2, handler <- s5, copy <- s1, line <- s7, at <- s4, partial <- s9, dest <- s6,
       lost <- s3, older <- s8, stuck <- s10
V == INSTANCE Upgrade
  WITH build <- s3, step <- s2, schema <- s5, copies <- s4, back <- s1
Y == INSTANCE Scrape
  WITH Addresses <- ListenAddresses, wanted <- s10, held <- s4,
       others <- s8, queue <- s1, step <- s2, job <- s6, old <- s7, closed <- s5, served <- s9,
       lost <- s3
D == INSTANCE Daemon
  WITH phase <- s2, core <- s4, accepts <- s1, file <- s3, hup <- s5, refused <- s6, rival <- s7
T == INSTANCE Transcript
  WITH turn <- s2, open <- s5, buffered <- s1, failed <- s3, rows <- s6, fed <- s4
E == INSTANCE Output
  WITH Lines <- LoggedLines, reader <- s5, ended <- s1, limiter <- s2,
       reported <- s6, printed <- s4, lines <- s3
J == INSTANCE Shell
  WITH mode <- s1, signal <- s9, runner <- s8, child <- s2, alive <- s4, holds <- s3, stop <- s5,
       output <- s7, outcome <- s6
I == INSTANCE Pop3
  WITH Session <- Pop3Session, starttls <- s7, phase <- s2, sent <- s5,
       waiter <- s8, wire <- s9, buffer <- s1, meant <- s4, got <- s6, owed <- s3
Z == INSTANCE Cycles
  WITH edges <- s2, visited <- s4, grouped <- s3, cycles <- s1

\* What each component asks of its constants.
ServicesAssumption ==
  /\ L!LlmAssumption /\ G!AgentAssumption /\ B!BridgeAssumption /\ Q!SequenceAssumption
  /\ C!CronAssumption /\ P!PollerAssumption /\ R!RetentionAssumption /\ A!ReloadAssumption
  /\ H!HostAssumption /\ X!ProcessAssumption /\ N!NetProxyAssumption /\ M!MailAssumption
  /\ Ch!ChatAssumption /\ O!OpsAssumption /\ F!FtpAssumption /\ W!WebhookAssumption
  /\ K!ApiAssumption /\ U!BackupAssumption /\ V!UpgradeAssumption /\ Y!ScrapeAssumption
  /\ D!DaemonAssumption /\ T!TranscriptAssumption /\ E!OutputAssumption /\ J!ShellAssumption
  /\ I!Pop3Assumption /\ Z!CyclesAssumption

Init ==
  \/ part = "llm" /\ L!Init
  \/ part = "agent" /\ G!Init /\ s9 = 0 /\ s10 = 0
  \/ part = "bridge" /\ B!Init /\ s8 = 0 /\ s9 = 0 /\ s10 = 0
  \/ part = "sequence" /\ Q!Init
  \/ part = "cron" /\ C!Init
  \/ part = "poller" /\ P!Init /\ s8 = 0 /\ s9 = 0 /\ s10 = 0
  \/ part = "retention" /\ R!Init /\ s6 = 0 /\ s8 = 0 /\ s9 = 0 /\ s10 = 0
  \/ part = "reload" /\ A!Init
  \/ part = "host" /\ H!Init /\ s7 = 0 /\ s8 = 0 /\ s9 = 0 /\ s10 = 0
  \/ part = "process" /\ X!Init
  \/ part = "netproxy" /\ N!Init /\ s10 = 0
  \/ part = "mail" /\ M!Init /\ s9 = 0 /\ s10 = 0
  \/ part = "chat" /\ Ch!Init
  \/ part = "ops" /\ O!Init
  \/ part = "ftp" /\ F!Init
  \/ part = "webhook" /\ W!Init /\ s8 = 0 /\ s9 = 0 /\ s10 = 0
  \/ part = "api" /\ K!Init /\ s9 = 0 /\ s10 = 0
  \/ part = "backup" /\ U!Init
  \/ part = "upgrade" /\ V!Init /\ s6 = 0 /\ s7 = 0 /\ s8 = 0 /\ s9 = 0 /\ s10 = 0
  \/ part = "scrape" /\ Y!Init
  \/ part = "daemon" /\ D!Init /\ s8 = 0 /\ s9 = 0 /\ s10 = 0
  \/ part = "transcript" /\ T!Init /\ s7 = 0 /\ s8 = 0 /\ s9 = 0 /\ s10 = 0
  \/ part = "output" /\ E!Init /\ s7 = 0 /\ s8 = 0 /\ s9 = 0 /\ s10 = 0
  \/ part = "shell" /\ J!Init /\ s10 = 0
  \/ part = "pop3" /\ I!Init /\ s10 = 0
  \/ part = "cycles" /\ Z!Init /\ s5 = 0 /\ s6 = 0 /\ s7 = 0 /\ s8 = 0 /\ s9 = 0 /\ s10 = 0

LlmStep == part = "llm" /\ L!Next /\ UNCHANGED part
AgentStep == part = "agent" /\ G!Next /\ UNCHANGED <<part, s9, s10>>
BridgeStep == part = "bridge" /\ B!Next /\ UNCHANGED <<part, s8, s9, s10>>
SequenceStep == part = "sequence" /\ Q!Next /\ UNCHANGED part
CronStep == part = "cron" /\ C!Next /\ UNCHANGED part
PollerStep == part = "poller" /\ P!Next /\ UNCHANGED <<part, s8, s9, s10>>
RetentionStep == part = "retention" /\ R!Next /\ UNCHANGED <<part, s6, s8, s9, s10>>
ReloadStep == part = "reload" /\ A!Next /\ UNCHANGED part
HostStep == part = "host" /\ H!Next /\ UNCHANGED <<part, s7, s8, s9, s10>>
ProcessStep == part = "process" /\ X!Next /\ UNCHANGED part
NetProxyStep == part = "netproxy" /\ N!Next /\ UNCHANGED <<part, s10>>
MailStep == part = "mail" /\ M!Next /\ UNCHANGED <<part, s9, s10>>
ChatStep == part = "chat" /\ Ch!Next /\ UNCHANGED part
OpsStep == part = "ops" /\ O!Next /\ UNCHANGED part
FtpStep == part = "ftp" /\ F!Next /\ UNCHANGED part
WebhookStep == part = "webhook" /\ W!Next /\ UNCHANGED <<part, s8, s9, s10>>
ApiStep == part = "api" /\ K!Next /\ UNCHANGED <<part, s9, s10>>
BackupStep == part = "backup" /\ U!Next /\ UNCHANGED part
UpgradeStep == part = "upgrade" /\ V!Next /\ UNCHANGED <<part, s6, s7, s8, s9, s10>>
ScrapeStep == part = "scrape" /\ Y!Next /\ UNCHANGED part
DaemonStep == part = "daemon" /\ D!Next /\ UNCHANGED <<part, s8, s9, s10>>
TranscriptStep == part = "transcript" /\ T!Next /\ UNCHANGED <<part, s7, s8, s9, s10>>
OutputStep == part = "output" /\ E!Next /\ UNCHANGED <<part, s7, s8, s9, s10>>
ShellStep == part = "shell" /\ J!Next /\ UNCHANGED <<part, s10>>
Pop3Step == part = "pop3" /\ I!Next /\ UNCHANGED <<part, s10>>
CyclesStep == part = "cycles" /\ Z!Next /\ UNCHANGED <<part, s5, s6, s7, s8, s9, s10>>

Next ==
  \/ LlmStep \/ AgentStep \/ BridgeStep \/ SequenceStep \/ CronStep \/ PollerStep
  \/ RetentionStep \/ ReloadStep \/ HostStep \/ ProcessStep \/ NetProxyStep \/ MailStep
  \/ ChatStep \/ OpsStep \/ FtpStep \/ WebhookStep \/ ApiStep \/ BackupStep \/ UpgradeStep
  \/ ScrapeStep \/ DaemonStep \/ TranscriptStep \/ OutputStep \/ ShellStep \/ Pop3Step
  \/ CyclesStep

vars == <<part, slots>>

Spec == Init /\ [][Next]_vars

-----------------------------------------------------------------------------
\* The values the variables of each part may take, as its module says.
TypeOK ==
  /\ part = "llm" => L!TypeOK
  /\ part = "agent" => G!TypeOK
  /\ part = "bridge" => B!TypeOK
  /\ part = "sequence" => Q!TypeOK
  /\ part = "cron" => C!TypeOK
  /\ part = "poller" => P!TypeOK
  /\ part = "retention" => R!TypeOK
  /\ part = "reload" => A!TypeOK
  /\ part = "host" => H!TypeOK
  /\ part = "process" => X!TypeOK
  /\ part = "netproxy" => N!TypeOK
  /\ part = "mail" => M!TypeOK
  /\ part = "chat" => Ch!TypeOK
  /\ part = "ops" => O!TypeOK
  /\ part = "ftp" => F!TypeOK
  /\ part = "webhook" => W!TypeOK
  /\ part = "api" => K!TypeOK
  /\ part = "backup" => U!TypeOK
  /\ part = "upgrade" => V!TypeOK
  /\ part = "scrape" => Y!TypeOK
  /\ part = "daemon" => D!TypeOK
  /\ part = "transcript" => T!TypeOK
  /\ part = "output" => E!TypeOK
  /\ part = "shell" => J!TypeOK
  /\ part = "pop3" => I!TypeOK
  /\ part = "cycles" => Z!TypeOK

\* What is spent is counted before more is: the llm service (llm/service.ts) goes over a cap
\* by no more than the call that reaches it and reports a spend over its budget, and the
\* agent runner (actions/agent.ts) books what its sessions report and succeeds only within
\* its budget.
SpendIsCounted ==
  /\ part = "llm" => L!CapOvershootsByOneCall /\ L!NoSilentOverspend
  /\ part = "agent" => G!LedgerIsReported /\ G!SucceedsCleanly

\* Nothing is done twice that must be done once, beyond what the code cannot know: a batch
\* whose run is parked is not submitted again, a step of a sequence is repeated only after
\* an error of it or when what came of it was lost, a cron boundary is ticked or missed, a
\* mail is got by one successful run, a choice confirmed in a chat is the one the core has, a
\* write to a forge's API and a transfer to a file server are retried only where that is
\* safe, and an answer to a webhook or a client of the API says what was done, so that
\* asking again is safe.
NothingDoneTwice ==
  /\ part = "llm" => L!ParkedBatchNotRepeated
  /\ part = "sequence" => Q!RepeatedOnlyAfterFailure /\ Q!ResultsBelongToSteps
  /\ part = "cron" => C!TickedOrMissed
  /\ part = "mail" => M!GotOnce
  /\ part = "chat" => Ch!ConfirmedIsReply
  /\ part = "ops" => O!WriteNotRepeated
  /\ part = "ftp" => F!RetriesAreClean
  /\ part = "webhook" => W!AnswersAreTrue
  /\ part = "api" => K!AnswersAreTrue /\ K!RetryIsSafe

\* What came in is not forgotten: an instant of a cron task that fell in a downtime is run or
\* counted as missed (scheduler/cron.ts; those a late timer, a refused event, a failed check
\* or a reload loses are excused), an item a poller remembers was emitted
\* (connectors/poller.ts), retention deletes nothing still needed (retention.ts), a cursor of
\* a mailbox (FailsAfterReset aside) or of a chat passes only what was handled and a posted
\* question stays answerable, a listing that succeeds is complete, a SIGHUP that came before
\* the daemon could reload is replayed, the transcript has all a session sent
\* (actions/agent-transcript.ts), a connector's lines are whole and those not logged are
\* counted (connectors/output.ts), a shell step tells its command's outcome and has all it
\* printed (actions/shell.ts), and tasks that trigger one another in a circle are named
\* (config/lint.ts).
NothingForgotten ==
  /\ part = "cron" => C!NoInstantForgotten
  /\ part = "poller" => P!SeenWasEmitted
  /\ part = "retention" => R!NeededStays
  /\ part = "mail" => M!PassedOrHandled
  /\ part = "chat" => Ch!CursorPassesHandled /\ Ch!QuestionsKept
  /\ part = "ops" => O!SucceedsWithAll
  /\ part = "daemon" => D!HupNotLost
  /\ part = "transcript" => T!RowsAreSession
  /\ part = "output" => E!LinesAreWhole /\ E!DropsAreReported
  /\ part = "shell" => J!OutcomeIsTrue /\ J!OutputKept
  /\ part = "cycles" => Z!CirclesAreNamed

\* What takes several steps is done wholly or not at all, as others see it: a reload
\* (core.ts), a file put on a server or a tree synced to it (ftp/src/ops.ts), the
\* destination of a backup (commands/backup.ts), an answer of a POP3 server, whatever chunks it
\* comes in (email/src/pop3.ts), the way back from a migration (store/db.ts),
\* the move of the metrics listener (api/metrics-server.ts) and the take-over of the
\* daemon's socket (api/server.ts).
AllOrNothing ==
  /\ part = "reload" => A!NoHalfReload
  /\ part = "ftp" => F!ReadersSeeWhole /\ F!SyncMirrors
  /\ part = "backup" => U!DestIsWhole
  /\ part = "pop3" => I!AnswersBelong /\ I!NoneWaitsForLong
  /\ part = "upgrade" => V!WayBack
  /\ part = "scrape" => Y!ListenerKept
  /\ part = "daemon" => D!SocketIsKept

\* Nothing runs on once it is over: no agent turn nobody watches, no second session of a
\* connector, no process said to be gone, no half-open tunnel of the network proxy, no
\* webhook delivery cut off by a stop, no copy of the database after a backup, no metrics
\* listener after close, no server of a daemon that failed to start, no process of a shell
\* step that was aborted.
NothingLeftRunning ==
  /\ part = "agent" => G!NoUnwatchedTurn
  /\ part = "host" => H!OneSession
  /\ part = "process" => X!GoneWhenSaid
  /\ part = "netproxy" => N!NothingHalfOpenForGood /\ N!NothingCutShort
  /\ part = "webhook" => W!DrainsClean
  /\ part = "backup" => U!NoCopyLeft
  /\ part = "scrape" => Y!ClosedStaysClosed
  /\ part = "daemon" => D!NothingLeftOpen
  /\ part = "shell" => J!NothingRunsOn

\* Only what was allowed happens: an agent's tool calls stay within their cap, a call over
\* the MCP bridge is one its run was granted, the network proxy reaches no private address
\* through a wildcard, and an event a webhook emits passed the checks of its route.
OnlyWhatWasAllowed ==
  /\ part = "agent" => G!AllowedWithinCap
  /\ part = "bridge" => B!OnlyGrantedCalls
  /\ part = "netproxy" => N!WildcardStaysPublic
  /\ part = "webhook" => W!EmittedIsGenuine

\* The llm service implements BatchContract: a batch is submitted, held and settled once,
\* whatever polls, cancels, stops and crashes come in between (llm/batches.ts).
KeepsBatchContract ==
  /\ part = "llm" => L!Contract!Init
  /\ [][part = "llm" => L!Contract!Next \/ UNCHANGED L!Contract!vars]_vars

\* What came before a step is kept: no step emits an item again that stayed in the list a
\* poller reads (connectors/poller.ts), and retention deletes no row that a daily cap still
\* counts (store/retention.ts).
NoStepRepeatsOrDrops ==
  [][/\ part = "poller" => P!SteadyItemQuiet
     /\ part = "retention" => R!CapStaysCounted]_vars
=============================================================================
