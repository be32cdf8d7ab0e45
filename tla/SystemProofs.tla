---------------------------- MODULE SystemProofs -----------------------------
(***************************************************************************)
(* The composite properties of Services: the parts of LlmProofs and of     *)
(* ConnectorProofs, as SystemParts has those of ServiceProofs, and the     *)
(* theorems that put all parts together.                                   *)
(***************************************************************************)
EXTENDS SystemParts

LP == INSTANCE LlmProofs
  WITH MaxAttempts <- LlmAttempts, MaxTime <- LlmTime, now <- s3,
       spent <- s9, tripped <- s10, status <- s2, attempt <- s1, began <- s8, held <- s4,
       wait <- s5, batch <- s6, pass <- s7
CP == INSTANCE ConnectorProofs
  WITH Session <- Pop3Session, Kinds <- Mailboxes, route <- s6,
       post <- s2, server <- s5, conn <- s4, events <- s3, seen <- s1, tries <- s7, op <- s3,
       status <- s2, attempt <- s1, waiting <- s9, handler <- s5, got <- s6, list <- s8,
       writes <- s10, faults <- s7, starttls <- s7, phase <- s2, sent <- s5, waiter <- s8,
       wire <- s9, buffer <- s1, meant <- s4, owed <- s3, at <- s4, error <- s6, net <- s7,
       remote <- s8, stage <- s5, staged <- s9, todo <- s10, kind <- s3, state <- s7,
       cursor <- s4, run <- s1, counted <- s6, waived <- s8, evicted <- s2, excused <- s2, timeline <- s9,
       core <- s4, mem <- s8, batch <- s6, asks <- s7, copy <- s1, told <- s10

\* The part that runs begins as its component does, and steps as it does.
LEMMA OthersBegin ==
  Init =>
    /\ part = "llm" => L!Init
    /\ part = "mail" => M!Init
    /\ part = "chat" => Ch!Init
    /\ part = "ops" => O!Init
    /\ part = "ftp" => F!Init
    /\ part = "webhook" => W!Init
    /\ part = "pop3" => I!Init
BY DEF Init

LEMMA OthersStep ==
  [Next]_vars =>
    /\ part' = part
    /\ part = "llm" => [L!Next]_(L!vars)
    /\ part = "mail" => [M!Next]_(M!vars)
    /\ part = "chat" => [Ch!Next]_(Ch!vars)
    /\ part = "ops" => [O!Next]_(O!vars)
    /\ part = "ftp" => [F!Next]_(F!vars)
    /\ part = "webhook" => [W!Next]_(W!vars)
    /\ part = "pop3" => [I!Next]_(I!vars)
<1>1. CASE Next
  BY <1>1 DEF Next, LlmStep, AgentStep, BridgeStep, SequenceStep, CronStep, PollerStep,
              RetentionStep, ReloadStep, HostStep, ProcessStep, NetProxyStep, MailStep, ChatStep,
              OpsStep, FtpStep, WebhookStep, ApiStep, BackupStep, UpgradeStep, ScrapeStep,
              DaemonStep, TranscriptStep, OutputStep, ShellStep, Pop3Step, CyclesStep
<1>2. CASE UNCHANGED vars
  <2> /\ part' = part /\ s1' = s1 /\ s2' = s2 /\ s3' = s3 /\ s4' = s4 /\ s5' = s5
      /\ s6' = s6 /\ s7' = s7 /\ s8' = s8 /\ s9' = s9 /\ s10' = s10
    BY <1>2 DEF vars, slots
  <2> UNCHANGED <<L!vars, M!vars, Ch!vars, O!vars>>
    BY SMTT(20) DEF L!runVars, L!vars, M!vars, Ch!vars, O!vars
  <2> UNCHANGED <<F!vars, W!vars, I!vars>>
    BY SMTT(20) DEF F!vars, W!vars, I!vars
  <2> QED OBVIOUS
<1> QED BY <1>1, <1>2

-----------------------------------------------------------------------------
\* Llm here and Llm in LlmProofs.
LEMMA SameLlm ==
  /\ L!LlmAssumption => LP!LlmAssumption
  /\ L!Init => LP!Init
  /\ [L!Next]_(L!vars) => [LP!Next]_(LP!vars)
  /\ LP!CapOvershootsByOneCall => L!CapOvershootsByOneCall
  /\ LP!NoSilentOverspend => L!NoSilentOverspend
  /\ LP!ParkedBatchNotRepeated => L!ParkedBatchNotRepeated
<1>1. ASSUME L!LlmAssumption PROVE LP!LlmAssumption
  BY <1>1, ZenonT(60) DEF L!Runs, LP!Runs, L!LlmAssumption, LP!LlmAssumption, L!IsFiniteSet,
      LP!IsFiniteSet
<1>2. ASSUME L!Init PROVE LP!Init
  BY <1>2, ZenonT(60) DEF L!Runs, LP!Runs, L!Day, LP!Day, L!Days, LP!Days, L!NoWait, LP!NoWait,
      L!NoBatch, LP!NoBatch, L!Init, LP!Init
<1>3. ASSUME L!Next PROVE LP!Next
  BY <1>3, ZenonT(60) DEF L!Runs, LP!Runs, L!runVars, LP!runVars, L!Day, LP!Day, L!Outcomes,
      LP!Outcomes, L!NoBatch, LP!NoBatch, L!Plus, LP!Plus, L!Total, LP!Total, L!SumSince,
      LP!SumSince, L!SumForRun, LP!SumForRun, L!Rows, LP!Rows, L!Accepted, LP!Accepted,
      L!Reserved, LP!Reserved, L!Refused, LP!Refused, L!BatchRefused, LP!BatchRefused, L!Trip,
      LP!Trip, L!Settle, LP!Settle, L!NoSpend, LP!NoSpend, L!Starting, LP!Starting, L!Ready,
      LP!Ready, L!AfterFailure, LP!AfterFailure, L!Ends, LP!Ends, L!Hold, LP!Hold, L!Release,
      LP!Release, L!Worth, LP!Worth, L!NoProvider, LP!NoProvider, L!Call, LP!Call, L!CallReturns,
      LP!CallReturns, L!CallFails, LP!CallFails, L!CutOff, LP!CutOff, L!CallCutOff,
      LP!CallCutOff, L!NewId, LP!NewId, L!RowsOf, LP!RowsOf, L!Newest, LP!Newest, L!Park,
      LP!Park, L!Result, LP!Result, L!ReadsResult, LP!ReadsResult, L!Submit, LP!Submit,
      L!RunBatched, LP!RunBatched, L!Submitted, LP!Submitted, L!SubmitFails, LP!SubmitFails,
      L!Resume, LP!Resume, L!ProviderEnds, LP!ProviderEnds, L!StartPass, LP!StartPass, L!Polled,
      LP!Polled, L!Billed, LP!Billed, L!SettleBatch, LP!SettleBatch, L!PollAgain, LP!PollAgain,
      L!StopPass, LP!StopPass, L!Tick, LP!Tick, L!Crash, LP!Crash, L!RunStep, LP!RunStep,
      L!BatchStep, LP!BatchStep, L!Next, LP!Next, L!Cardinality, LP!Cardinality,
      L!FoldFunctionOnSet, LP!FoldFunctionOnSet, L!MapThenFoldSet, LP!MapThenFoldSet
<1>4. ASSUME LP!CapOvershootsByOneCall PROVE L!CapOvershootsByOneCall
  BY <1>4, ZenonT(60) DEF L!Runs, LP!Runs, L!Day, LP!Day, L!Plus, LP!Plus, L!Total, LP!Total,
      L!SumSince, LP!SumSince, L!Rows, LP!Rows, L!Reserved, LP!Reserved,
      L!CapOvershootsByOneCall, LP!CapOvershootsByOneCall, L!Cardinality, LP!Cardinality,
      L!FoldFunctionOnSet, LP!FoldFunctionOnSet, L!MapThenFoldSet, LP!MapThenFoldSet
<1>5. ASSUME LP!NoSilentOverspend PROVE L!NoSilentOverspend
  BY <1>5, ZenonT(60) DEF L!Day, LP!Day, L!Days, LP!Days, L!Plus, LP!Plus, L!Total, LP!Total,
      L!SpentOn, LP!SpentOn, L!NoSilentOverspend, LP!NoSilentOverspend, L!FoldFunctionOnSet,
      LP!FoldFunctionOnSet, L!MapThenFoldSet, LP!MapThenFoldSet
<1>6. ASSUME LP!ParkedBatchNotRepeated PROVE L!ParkedBatchNotRepeated
  BY <1>6, ZenonT(60) DEF L!Outcomes, LP!Outcomes, L!Accepted, LP!Accepted,
      L!ParkedBatchNotRepeated, LP!ParkedBatchNotRepeated
<1>7. ASSUME UNCHANGED L!vars PROVE UNCHANGED LP!vars
  BY <1>7, ZenonT(60) DEF L!runVars, LP!runVars, L!vars, LP!vars
<1> QED BY <1>1, <1>2, <1>3, <1>4, <1>5, <1>6, <1>7

LEMMA LlmHolds ==
  ASSUME ServicesAssumption
  PROVE  Spec => [](part = "llm" => L!CapOvershootsByOneCall /\ L!NoSilentOverspend
                                    /\ L!ParkedBatchNotRepeated)
<1>1. Init => (part = "llm" => LP!Init)
  BY SameLlm, OthersBegin
<1>2. [Next]_vars => /\ part = "llm" => [LP!Next]_(LP!vars)
                     /\ part = "llm" <=> (part = "llm")'
  BY SameLlm, OthersStep
<1>3. LP!LlmAssumption
  BY SameLlm DEF ServicesAssumption
<1>4. LP!Spec => []LP!CapOvershootsByOneCall
  BY <1>3, LP!LlmCapHolds
<1>5. LP!Spec => []LP!NoSilentOverspend
  BY <1>3, LP!LlmOverspendIsTold
<1>6. LP!Spec => []LP!ParkedBatchNotRepeated
  BY <1>3, LP!LlmBatchNotRepeated
<1> QED BY <1>1, <1>2, <1>4, <1>5, <1>6, SameLlm, PTL DEF Spec, LP!Spec

\* Mail here and Mail in ConnectorProofs.
LEMMA SameMail ==
  /\ M!MailAssumption => CP!M!MailAssumption
  /\ M!Init => CP!M!Init
  /\ [M!Next]_(M!vars) => [CP!M!Next]_(CP!M!vars)
  /\ CP!M!GotOnce => M!GotOnce
<1>1. ASSUME M!MailAssumption PROVE CP!M!MailAssumption
  BY <1>1, ZenonT(60) DEF M!MailAssumption, CP!M!MailAssumption
<1>2. ASSUME M!Init PROVE CP!M!Init
  BY <1>2, ZenonT(60) DEF M!Mails, CP!M!Mails, M!None, CP!M!None, M!Idle, CP!M!Idle, M!Init,
      CP!M!Init
<1>3. ASSUME M!Next PROVE CP!M!Next
  BY <1>3, ZenonT(60) DEF M!Mails, CP!M!Mails, M!None, CP!M!None, M!FirstOf, CP!M!FirstOf,
      M!Idle, CP!M!Idle, M!InSession, CP!M!InSession, M!Arrive, CP!M!Arrive, M!Removed,
      CP!M!Removed, M!Renumber, CP!M!Renumber, M!Handled, CP!M!Handled, M!Ask, CP!M!Ask, M!Reset,
      CP!M!Reset, M!Open, CP!M!Open, M!Search, CP!M!Search, M!SaveValidity, CP!M!SaveValidity,
      M!List, CP!M!List, M!SkipsAll, CP!M!SkipsAll, M!Retrieve, CP!M!Retrieve, M!Seen, CP!M!Seen,
      M!Kept, CP!M!Kept, M!SaveSeen, CP!M!SaveSeen, M!SavePending, CP!M!SavePending, M!LastUid,
      CP!M!LastUid, M!Succeed, CP!M!Succeed, M!Fail, CP!M!Fail, M!Next, CP!M!Next, M!Cardinality,
      CP!M!Cardinality, M!Max, CP!M!Max
<1>4. ASSUME CP!M!GotOnce PROVE M!GotOnce
  BY <1>4, ZenonT(60) DEF M!Mails, CP!M!Mails, M!GotOnce, CP!M!GotOnce
<1>5. ASSUME UNCHANGED M!vars PROVE UNCHANGED CP!M!vars
  BY <1>5, ZenonT(60) DEF M!vars, CP!M!vars
<1> QED BY <1>1, <1>2, <1>3, <1>4, <1>5

LEMMA MailHolds ==
  ASSUME ServicesAssumption
  PROVE  Spec => [](part = "mail" => M!GotOnce)
<1>1. Init => (part = "mail" => CP!M!Init)
  BY SameMail, OthersBegin
<1>2. [Next]_vars => /\ part = "mail" => [CP!M!Next]_(CP!M!vars)
                     /\ part = "mail" <=> (part = "mail")'
  BY SameMail, OthersStep
<1>3. CP!M!MailAssumption
  BY SameMail DEF ServicesAssumption
<1>4. CP!M!Spec => []CP!M!GotOnce
  BY <1>3, CP!MailGotOnce
<1> QED BY <1>1, <1>2, <1>4, SameMail, PTL DEF Spec, CP!M!Spec

\* Chat here and Chat in ConnectorProofs.
LEMMA SameChat ==
  /\ Ch!ChatAssumption => CP!Ch!ChatAssumption
  /\ Ch!Init => CP!Ch!Init
  /\ [Ch!Next]_(Ch!vars) => [CP!Ch!Next]_(CP!Ch!vars)
  /\ CP!Ch!ConfirmedIsReply => Ch!ConfirmedIsReply
  /\ CP!Ch!CursorPassesHandled => Ch!CursorPassesHandled
  /\ CP!Ch!QuestionsKept => Ch!QuestionsKept
<1>1. ASSUME Ch!ChatAssumption PROVE CP!Ch!ChatAssumption
  BY <1>1, ZenonT(60) DEF Ch!ChatAssumption, CP!Ch!ChatAssumption
<1>2. ASSUME Ch!Init PROVE CP!Ch!Init
  BY <1>2, ZenonT(60) DEF Ch!NoCursor, CP!Ch!NoCursor, Ch!NoBatch, CP!Ch!NoBatch, Ch!NewMem,
      CP!Ch!NewMem, Ch!Init, CP!Ch!Init
<1>3. ASSUME Ch!Next PROVE CP!Ch!Next
  BY <1>3, ZenonT(60) DEF Ch!NoCursor, CP!Ch!NoCursor, Ch!NoBatch, CP!Ch!NoBatch, Ch!NewMem,
      CP!Ch!NewMem, Ch!Items, CP!Ch!Items, Ch!Free, CP!Ch!Free, Ch!Released, CP!Ch!Released,
      Ch!Newest, CP!Ch!Newest, Ch!Write, CP!Ch!Write, Ch!AskPosts, CP!Ch!AskPosts, Ch!AskLoads,
      CP!Ch!AskLoads, Ch!AskSaves, CP!Ch!AskSaves, Ch!AskFails, CP!Ch!AskFails, Ch!Between,
      CP!Ch!Between, Ch!Unchanged, CP!Ch!Unchanged, Ch!LoadCursor, CP!Ch!LoadCursor,
      Ch!FirstCursor, CP!Ch!FirstCursor, Ch!After, CP!Ch!After, Ch!Fetch, CP!Ch!Fetch,
      Ch!FillFails, CP!Ch!FillFails, Ch!FillGivesUp, CP!Ch!FillGivesUp, Ch!TokenRejected,
      CP!Ch!TokenRejected, Ch!Item, CP!Ch!Item, Ch!It, CP!Ch!It, Ch!Handling, CP!Ch!Handling,
      Ch!Next1, CP!Ch!Next1, Ch!Done, CP!Ch!Done, Ch!Again, CP!Ch!Again, Ch!TriesOf,
      CP!Ch!TriesOf, Ch!Fails, CP!Ch!Fails, Ch!Skip, CP!Ch!Skip, Ch!Message, CP!Ch!Message,
      Ch!HandleText, CP!Ch!HandleText, Ch!Load, CP!Ch!Load, Ch!Answers, CP!Ch!Answers,
      Ch!HandleNoAnswer, CP!Ch!HandleNoAnswer, Ch!EmitReply, CP!Ch!EmitReply, Ch!Forgotten,
      CP!Ch!Forgotten, Ch!Forget, CP!Ch!Forget, Ch!HandleFails, CP!Ch!HandleFails, Ch!Target,
      CP!Ch!Target, Ch!Commit, CP!Ch!Commit, Ch!Crash, CP!Ch!Crash, Ch!Next, CP!Ch!Next, Ch!Min,
      CP!Ch!Min, Ch!RemoveAt, CP!Ch!RemoveAt, Ch!RemoveFirst, CP!Ch!RemoveFirst, Ch!SelectInSeq,
      CP!Ch!SelectInSeq, Ch!ToSet, CP!Ch!ToSet
<1>4. ASSUME CP!Ch!ConfirmedIsReply PROVE Ch!ConfirmedIsReply
  BY <1>4, ZenonT(60) DEF Ch!ConfirmedIsReply, CP!Ch!ConfirmedIsReply
<1>5. ASSUME CP!Ch!CursorPassesHandled PROVE Ch!CursorPassesHandled
  BY <1>5, ZenonT(60) DEF Ch!NoCursor, CP!Ch!NoCursor, Ch!After, CP!Ch!After,
      Ch!CursorPassesHandled, CP!Ch!CursorPassesHandled
<1>6. ASSUME CP!Ch!QuestionsKept PROVE Ch!QuestionsKept
  BY <1>6, ZenonT(60) DEF Ch!QuestionsKept, CP!Ch!QuestionsKept, Ch!ToSet, CP!Ch!ToSet
<1>7. ASSUME UNCHANGED Ch!vars PROVE UNCHANGED CP!Ch!vars
  BY <1>7, ZenonT(60) DEF Ch!vars, CP!Ch!vars
<1> QED BY <1>1, <1>2, <1>3, <1>4, <1>5, <1>6, <1>7

LEMMA ChatHolds ==
  ASSUME ServicesAssumption
  PROVE  Spec => [](part = "chat" => Ch!ConfirmedIsReply /\ Ch!CursorPassesHandled
                                     /\ Ch!QuestionsKept)
<1>1. Init => (part = "chat" => CP!Ch!Init)
  BY SameChat, OthersBegin
<1>2. [Next]_vars => /\ part = "chat" => [CP!Ch!Next]_(CP!Ch!vars)
                     /\ part = "chat" <=> (part = "chat")'
  BY SameChat, OthersStep
<1>3. CP!Ch!ChatAssumption
  BY SameChat DEF ServicesAssumption
<1>4. CP!Ch!Spec => []CP!Ch!ConfirmedIsReply
  BY <1>3, CP!ChatConfirmedIsReply
<1>5. CP!Ch!Spec => []CP!Ch!CursorPassesHandled
  BY <1>3, CP!ChatCursorPassesHandled
<1>6. CP!Ch!Spec => []CP!Ch!QuestionsKept
  BY <1>3, CP!ChatQuestionsKept
<1> QED BY <1>1, <1>2, <1>4, <1>5, <1>6, SameChat, PTL DEF Spec, CP!Ch!Spec

\* Ops here and Ops in ConnectorProofs.
LEMMA SameOps ==
  /\ O!OpsAssumption => CP!O!OpsAssumption
  /\ O!Init => CP!O!Init
  /\ [O!Next]_(O!vars) => [CP!O!Next]_(CP!O!vars)
  /\ CP!O!WriteNotRepeated => O!WriteNotRepeated
<1>1. ASSUME O!OpsAssumption PROVE CP!O!OpsAssumption
  BY <1>1, ZenonT(60) DEF O!OpsAssumption, CP!O!OpsAssumption
<1>2. ASSUME O!Init PROVE CP!O!Init
  BY <1>2, ZenonT(60) DEF O!Lists, CP!O!Lists, O!Gets, CP!O!Gets, O!Writes, CP!O!Writes, O!Kinds,
      CP!O!Kinds, O!Idle, CP!O!Idle, O!Init, CP!O!Init
<1>3. ASSUME O!Next PROVE CP!O!Next
  BY <1>3, ZenonT(60) DEF O!Lists, CP!O!Lists, O!Writes, CP!O!Writes, O!Idle, CP!O!Idle,
      O!Answers, CP!O!Answers, O!Fault, CP!O!Fault, O!IsWrite, CP!O!IsWrite, O!IsIdempotent,
      CP!O!IsIdempotent, O!TransientHttp, CP!O!TransientHttp, O!Transient, CP!O!Transient,
      O!Fails, CP!O!Fails, O!Call, CP!O!Call, O!CallRefused, CP!O!CallRefused, O!NoAnswer,
      CP!O!NoAnswer, O!GivesUp, CP!O!GivesUp, O!Exits, CP!O!Exits, O!Restarts, CP!O!Restarts,
      O!Removed, CP!O!Removed, O!Send, CP!O!Send, O!Answer, CP!O!Answer, O!Done, CP!O!Done,
      O!Serves, CP!O!Serves, O!Refuses, CP!O!Refuses, O!Breaks, CP!O!Breaks, O!TimesOut,
      CP!O!TimesOut, O!ArrivesLate, CP!O!ArrivesLate, O!ListChanges, CP!O!ListChanges, O!Min2,
      CP!O!Min2, O!PageSize, CP!O!PageSize, O!PageStart, CP!O!PageStart, O!Page, CP!O!Page,
      O!Wanted, CP!O!Wanted, O!LastPage, CP!O!LastPage, O!Returns, CP!O!Returns, O!NextRequest,
      CP!O!NextRequest, O!TakesOk, CP!O!TakesOk, O!TakesError, CP!O!TakesError, O!Next,
      CP!O!Next, O!Range, CP!O!Range
<1>4. ASSUME CP!O!WriteNotRepeated PROVE O!WriteNotRepeated
  BY <1>4, ZenonT(60) DEF O!WriteNotRepeated, CP!O!WriteNotRepeated
<1>5. ASSUME UNCHANGED O!vars PROVE UNCHANGED CP!O!vars
  BY <1>5, ZenonT(60) DEF O!vars, CP!O!vars
<1> QED BY <1>1, <1>2, <1>3, <1>4, <1>5

LEMMA OpsHolds ==
  ASSUME ServicesAssumption
  PROVE  Spec => [](part = "ops" => O!WriteNotRepeated)
<1>1. Init => (part = "ops" => CP!O!Init)
  BY SameOps, OthersBegin
<1>2. [Next]_vars => /\ part = "ops" => [CP!O!Next]_(CP!O!vars)
                     /\ part = "ops" <=> (part = "ops")'
  BY SameOps, OthersStep
<1>3. CP!O!OpsAssumption
  BY SameOps DEF ServicesAssumption
<1>4. CP!O!Spec => []CP!O!WriteNotRepeated
  BY <1>3, CP!OpsWriteNotRepeated
<1> QED BY <1>1, <1>2, <1>4, SameOps, PTL DEF Spec, CP!O!Spec

\* Ftp here and Ftp in ConnectorProofs.
LEMMA SameFtp ==
  /\ F!FtpAssumption => CP!F!FtpAssumption
  /\ F!Init => CP!F!Init
  /\ [F!Next]_(F!vars) => [CP!F!Next]_(CP!F!vars)
  /\ CP!F!ReadersSeeWhole => F!ReadersSeeWhole
  /\ CP!F!SyncMirrors => F!SyncMirrors
  /\ CP!F!RetriesAreClean => F!RetriesAreClean
<1>1. ASSUME F!FtpAssumption PROVE CP!F!FtpAssumption
  BY <1>1, ZenonT(60) DEF F!InTree, CP!F!InTree, F!FtpAssumption, CP!F!FtpAssumption
<1>2. ASSUME F!Init PROVE CP!F!Init
  BY <1>2, ZenonT(60) DEF F!InTree, CP!F!InTree, F!Names, CP!F!Names, F!Kinds, CP!F!Kinds,
      F!Init, CP!F!Init
<1>3. ASSUME F!Next PROVE CP!F!Next
  <2>1. ASSUME F!Begin PROVE CP!F!Begin
    BY <2>1, ZenonT(60) DEF F!Begin, CP!F!Begin
  <2>2. ASSUME F!Does PROVE CP!F!Does
    BY <2>2, ZenonT(60) DEF F!InTree, CP!F!InTree, F!Names, CP!F!Names, F!Step, CP!F!Step,
        F!First, CP!F!First, F!Uploads, CP!F!Uploads, F!Places, CP!F!Places, F!UploadThenPlace,
        CP!F!UploadThenPlace, F!Plan, CP!F!Plan, F!Now, CP!F!Now, F!Going, CP!F!Going, F!Effect,
        CP!F!Effect, F!Missing, CP!F!Missing, F!Exists, CP!F!Exists, F!Staging, CP!F!Staging,
        F!Surplus, CP!F!Surplus, F!Does, CP!F!Does
  <2>3. ASSUME F!FindsOtherwise PROVE CP!F!FindsOtherwise
    BY <2>3, ZenonT(60) DEF F!Step, CP!F!Step, F!First, CP!F!First, F!Uploads, CP!F!Uploads,
        F!Places, CP!F!Places, F!UploadThenPlace, CP!F!UploadThenPlace, F!Plan, CP!F!Plan, F!Now,
        CP!F!Now, F!Going, CP!F!Going, F!Missing, CP!F!Missing, F!Exists, CP!F!Exists,
        F!FindsOtherwise, CP!F!FindsOtherwise
  <2>4. ASSUME F!Busy PROVE CP!F!Busy
    BY <2>4, ZenonT(60) DEF F!Step, CP!F!Step, F!First, CP!F!First, F!Uploads, CP!F!Uploads,
        F!Places, CP!F!Places, F!UploadThenPlace, CP!F!UploadThenPlace, F!Plan, CP!F!Plan, F!Now,
        CP!F!Now, F!Going, CP!F!Going, F!StagingBegun, CP!F!StagingBegun, F!Fault, CP!F!Fault,
        F!Busy, CP!F!Busy
  <2>5. ASSUME F!Refused PROVE CP!F!Refused
    BY <2>5, ZenonT(60) DEF F!Step, CP!F!Step, F!First, CP!F!First, F!Uploads, CP!F!Uploads,
        F!Places, CP!F!Places, F!UploadThenPlace, CP!F!UploadThenPlace, F!Plan, CP!F!Plan, F!Now,
        CP!F!Now, F!Going, CP!F!Going, F!StagingBegun, CP!F!StagingBegun, F!Fault, CP!F!Fault,
        F!Refused, CP!F!Refused
  <2>6. ASSUME F!Returns PROVE CP!F!Returns
    BY <2>6, ZenonT(60) DEF F!Step, CP!F!Step, F!First, CP!F!First, F!Uploads, CP!F!Uploads,
        F!Places, CP!F!Places, F!UploadThenPlace, CP!F!UploadThenPlace, F!Plan, CP!F!Plan,
        F!Returns, CP!F!Returns
  <2>7. ASSUME F!ResolveFails PROVE CP!F!ResolveFails
    BY <2>7, ZenonT(60) DEF F!Step, CP!F!Step, F!First, CP!F!First, F!Uploads, CP!F!Uploads,
        F!Places, CP!F!Places, F!UploadThenPlace, CP!F!UploadThenPlace, F!Plan, CP!F!Plan, F!Now,
        CP!F!Now, F!Going, CP!F!Going, F!StagingBegun, CP!F!StagingBegun, F!Fault, CP!F!Fault,
        F!ResolveFails, CP!F!ResolveFails
  <2>8. ASSUME F!Breaks PROVE CP!F!Breaks
    BY <2>8, ZenonT(60) DEF F!Step, CP!F!Step, F!First, CP!F!First, F!Uploads, CP!F!Uploads,
        F!Places, CP!F!Places, F!UploadThenPlace, CP!F!UploadThenPlace, F!Plan, CP!F!Plan, F!Now,
        CP!F!Now, F!Going, CP!F!Going, F!IsRead, CP!F!IsRead, F!RepeatsAfterBreak,
        CP!F!RepeatsAfterBreak, F!Effect, CP!F!Effect, F!Missing, CP!F!Missing, F!Exists,
        CP!F!Exists, F!StagingBegun, CP!F!StagingBegun, F!Fault, CP!F!Fault, F!Breaks,
        CP!F!Breaks
  <2>9. ASSUME F!DropIgnored PROVE CP!F!DropIgnored
    BY <2>9, ZenonT(60) DEF F!Step, CP!F!Step, F!First, CP!F!First, F!Uploads, CP!F!Uploads,
        F!Places, CP!F!Places, F!UploadThenPlace, CP!F!UploadThenPlace, F!Plan, CP!F!Plan, F!Now,
        CP!F!Now, F!Going, CP!F!Going, F!Effect, CP!F!Effect, F!Fault, CP!F!Fault, F!DropIgnored,
        CP!F!DropIgnored
  <2>10. ASSUME F!LinkGone PROVE CP!F!LinkGone
    BY <2>10, ZenonT(60) DEF F!Step, CP!F!Step, F!First, CP!F!First, F!Uploads, CP!F!Uploads,
        F!Places, CP!F!Places, F!UploadThenPlace, CP!F!UploadThenPlace, F!Plan, CP!F!Plan, F!Now,
        CP!F!Now, F!Going, CP!F!Going, F!IsRead, CP!F!IsRead, F!RepeatsAfterBreak,
        CP!F!RepeatsAfterBreak, F!LinkGone, CP!F!LinkGone
  <2>11. ASSUME NEW x, F!Prunes(x) PROVE CP!F!Prunes(x)
    BY <2>11, ZenonT(60) DEF F!Step, CP!F!Step, F!First, CP!F!First, F!Uploads, CP!F!Uploads,
        F!Places, CP!F!Places, F!UploadThenPlace, CP!F!UploadThenPlace, F!Plan, CP!F!Plan,
        F!Pruning, CP!F!Pruning, F!Removed, CP!F!Removed, F!Prunes, CP!F!Prunes
  <2>12. ASSUME NEW x, F!PruneFails(x) PROVE CP!F!PruneFails(x)
    BY <2>12, ZenonT(60) DEF F!Step, CP!F!Step, F!First, CP!F!First, F!Uploads, CP!F!Uploads,
        F!Places, CP!F!Places, F!UploadThenPlace, CP!F!UploadThenPlace, F!Plan, CP!F!Plan,
        F!Fault, CP!F!Fault, F!Pruning, CP!F!Pruning, F!Removed, CP!F!Removed, F!PruneFails,
        CP!F!PruneFails
  <2>13. ASSUME NEW f, F!Cleans(f) PROVE CP!F!Cleans(f)
    BY <2>13, ZenonT(60) DEF F!Cleans, CP!F!Cleans
  <2> QED BY <1>3, <2>1, <2>2, <2>3, <2>4, <2>5, <2>6, <2>7, <2>8, <2>9, <2>10, <2>11, <2>12,
      <2>13 DEF F!Names, CP!F!Names, F!Next, CP!F!Next, F!InTree, CP!F!InTree
<1>4. ASSUME CP!F!ReadersSeeWhole PROVE F!ReadersSeeWhole
  BY <1>4, ZenonT(60) DEF F!InTree, CP!F!InTree, F!ReadersSeeWhole, CP!F!ReadersSeeWhole
<1>5. ASSUME CP!F!SyncMirrors PROVE F!SyncMirrors
  BY <1>5, ZenonT(60) DEF F!InTree, CP!F!InTree, F!SyncMirrors, CP!F!SyncMirrors
<1>6. ASSUME CP!F!RetriesAreClean PROVE F!RetriesAreClean
  BY <1>6, ZenonT(60) DEF F!First, CP!F!First, F!RetriesAreClean, CP!F!RetriesAreClean
<1>7. ASSUME UNCHANGED F!vars PROVE UNCHANGED CP!F!vars
  BY <1>7, ZenonT(60) DEF F!vars, CP!F!vars
<1> QED BY <1>1, <1>2, <1>3, <1>4, <1>5, <1>6, <1>7

LEMMA FtpHolds ==
  ASSUME ServicesAssumption
  PROVE  Spec => [](part = "ftp" => F!ReadersSeeWhole /\ F!SyncMirrors /\ F!RetriesAreClean)
<1>1. Init => (part = "ftp" => CP!F!Init)
  BY SameFtp, OthersBegin
<1>2. [Next]_vars => /\ part = "ftp" => [CP!F!Next]_(CP!F!vars)
                     /\ part = "ftp" <=> (part = "ftp")'
  BY SameFtp, OthersStep
<1>3. CP!F!FtpAssumption
  BY SameFtp DEF ServicesAssumption
<1>4. CP!F!Spec => []CP!F!ReadersSeeWhole
  BY <1>3, CP!FtpReadersSeeWhole
<1>5. CP!F!Spec => []CP!F!SyncMirrors
  BY <1>3, CP!FtpSyncMirrors
<1>6. CP!F!Spec => []CP!F!RetriesAreClean
  BY <1>3, CP!FtpRetriesAreClean
<1> QED BY <1>1, <1>2, <1>4, <1>5, <1>6, SameFtp, PTL DEF Spec, CP!F!Spec

\* Webhook here and Webhook in ConnectorProofs.
LEMMA SameWebhook ==
  /\ W!WebhookAssumption => CP!W!WebhookAssumption
  /\ W!Init => CP!W!Init
  /\ [W!Next]_(W!vars) => [CP!W!Next]_(CP!W!vars)
  /\ CP!W!DrainsClean => W!DrainsClean
  /\ CP!W!EmittedIsGenuine => W!EmittedIsGenuine
  /\ CP!W!AnswersAreTrue => W!AnswersAreTrue
<1>1. ASSUME W!WebhookAssumption PROVE CP!W!WebhookAssumption
  BY <1>1, ZenonT(60) DEF W!WebhookAssumption, CP!W!WebhookAssumption
<1>2. ASSUME W!Init PROVE CP!W!Init
  BY <1>2, ZenonT(60) DEF W!Verify, CP!W!Verify, W!NoDelivery, CP!W!NoDelivery, W!Free,
      CP!W!Free, W!Init, CP!W!Init
<1>3. ASSUME W!Next PROVE CP!W!Next
  BY <1>3, ZenonT(60) DEF W!NoDelivery, CP!W!NoDelivery, W!Free, CP!W!Free, W!PlanReady,
      CP!W!PlanReady, W!TokenPasses, CP!W!TokenPasses, W!HeadersPass, CP!W!HeadersPass,
      W!BodyPasses, CP!W!BodyPasses, W!At, CP!W!At, W!Set, CP!W!Set, W!Answer, CP!W!Answer,
      W!Held, CP!W!Held, W!Connects, CP!W!Connects, W!Leaves, CP!W!Leaves, W!Unheard,
      CP!W!Unheard, W!Posts, CP!W!Posts, W!AsksElse, CP!W!AsksElse, W!Ages, CP!W!Ages, W!Reads,
      CP!W!Reads, W!Duplicate, CP!W!Duplicate, W!Arrive, CP!W!Arrive, W!Inserted, CP!W!Inserted,
      W!Emits, CP!W!Emits, W!CoreRefuses, CP!W!CoreRefuses, W!CoreGone, CP!W!CoreGone,
      W!EmitFails, CP!W!EmitFails, W!Replies, CP!W!Replies, W!StaysOpen, CP!W!StaysOpen,
      W!Finishes, CP!W!Finishes, W!Stop, CP!W!Stop, W!OnTheirWay, CP!W!OnTheirWay, W!Exits,
      CP!W!Exits, W!CutOff, CP!W!CutOff, W!Closed, CP!W!Closed, W!Starts, CP!W!Starts, W!Next,
      CP!W!Next, W!Cardinality, CP!W!Cardinality
<1>4. ASSUME CP!W!DrainsClean PROVE W!DrainsClean
  BY <1>4, ZenonT(60) DEF W!At, CP!W!At, W!DrainsClean, CP!W!DrainsClean
<1>5. ASSUME CP!W!EmittedIsGenuine PROVE W!EmittedIsGenuine
  BY <1>5, ZenonT(60) DEF W!EmittedIsGenuine, CP!W!EmittedIsGenuine
<1>6. ASSUME CP!W!AnswersAreTrue PROVE W!AnswersAreTrue
  BY <1>6, ZenonT(60) DEF W!AnswersAreTrue, CP!W!AnswersAreTrue
<1>7. ASSUME UNCHANGED W!vars PROVE UNCHANGED CP!W!vars
  BY <1>7, ZenonT(60) DEF W!vars, CP!W!vars
<1> QED BY <1>1, <1>2, <1>3, <1>4, <1>5, <1>6, <1>7

LEMMA WebhookHolds ==
  ASSUME ServicesAssumption
  PROVE  Spec => [](part = "webhook" => W!DrainsClean /\ W!EmittedIsGenuine /\ W!AnswersAreTrue)
<1>1. Init => (part = "webhook" => CP!W!Init)
  BY SameWebhook, OthersBegin
<1>2. [Next]_vars => /\ part = "webhook" => [CP!W!Next]_(CP!W!vars)
                     /\ part = "webhook" <=> (part = "webhook")'
  BY SameWebhook, OthersStep
<1>3. CP!W!WebhookAssumption
  BY SameWebhook DEF ServicesAssumption
<1>4. CP!W!Spec => []CP!W!DrainsClean
  BY <1>3, CP!WebhookDrainsClean
<1>5. CP!W!Spec => []CP!W!EmittedIsGenuine
  BY <1>3, CP!WebhookEmittedIsGenuine
<1>6. CP!W!Spec => []CP!W!AnswersAreTrue
  BY <1>3, CP!WebhookAnswersAreTrue
<1> QED BY <1>1, <1>2, <1>4, <1>5, <1>6, SameWebhook, PTL DEF Spec, CP!W!Spec

\* Pop3 here and Pop3 in ConnectorProofs.
LEMMA SamePop3 ==
  /\ I!Pop3Assumption => CP!I!Pop3Assumption
  /\ I!Init => CP!I!Init
  /\ [I!Next]_(I!vars) => [CP!I!Next]_(CP!I!vars)
  /\ CP!I!AnswersBelong => I!AnswersBelong
  /\ CP!I!NoneWaitsForLong => I!NoneWaitsForLong
<1>1. ASSUME I!Pop3Assumption PROVE CP!I!Pop3Assumption
  BY <1>1, ZenonT(60) DEF I!Pop3Assumption, CP!I!Pop3Assumption
<1>2. ASSUME I!Init PROVE CP!I!Init
  BY <1>2, ZenonT(60) DEF I!Nothing, CP!I!Nothing, I!Init, CP!I!Init
<1>3. ASSUME I!Next PROVE CP!I!Next
  BY <1>3, ZenonT(60) DEF I!Nothing, CP!I!Nothing, I!Bodies, CP!I!Bodies, I!Stuffed,
      CP!I!Stuffed, I!Kind, CP!I!Kind, I!Answers, CP!I!Answers, I!OneLine, CP!I!OneLine,
      I!EndsAt, CP!I!EndsAt, I!FirstEnd, CP!I!FirstEnd, I!Complete, CP!I!Complete, I!Length,
      CP!I!Length, I!Unstuffed, CP!I!Unstuffed, I!AnswerOf, CP!I!AnswerOf, I!After, CP!I!After,
      I!Receives, CP!I!Receives, I!Upgrades, CP!I!Upgrades, I!Secures, CP!I!Secures, I!Sends,
      CP!I!Sends, I!Breaks, CP!I!Breaks, I!Next, CP!I!Next
<1>4. ASSUME CP!I!AnswersBelong PROVE I!AnswersBelong
  BY <1>4, ZenonT(60) DEF I!Nothing, CP!I!Nothing, I!AnswersBelong, CP!I!AnswersBelong
<1>5. ASSUME CP!I!NoneWaitsForLong PROVE I!NoneWaitsForLong
  BY <1>5, ZenonT(60) DEF I!Nothing, CP!I!Nothing, I!OneLine, CP!I!OneLine, I!EndsAt,
      CP!I!EndsAt, I!Complete, CP!I!Complete, I!NoneWaitsForLong, CP!I!NoneWaitsForLong
<1>6. ASSUME UNCHANGED I!vars PROVE UNCHANGED CP!I!vars
  BY <1>6, ZenonT(60) DEF I!vars, CP!I!vars
<1> QED BY <1>1, <1>2, <1>3, <1>4, <1>5, <1>6

LEMMA Pop3Holds ==
  ASSUME ServicesAssumption
  PROVE  Spec => [](part = "pop3" => I!AnswersBelong /\ I!NoneWaitsForLong)
<1>1. Init => (part = "pop3" => CP!I!Init)
  BY SamePop3, OthersBegin
<1>2. [Next]_vars => /\ part = "pop3" => [CP!I!Next]_(CP!I!vars)
                     /\ part = "pop3" <=> (part = "pop3")'
  BY SamePop3, OthersStep
<1>3. CP!I!Pop3Assumption
  BY SamePop3 DEF ServicesAssumption
<1>4. CP!I!Spec => [](CP!I!AnswersBelong /\ CP!I!NoneWaitsForLong)
  BY <1>3, CP!Pop3AnswersBelong
<1> QED BY <1>1, <1>2, <1>4, SamePop3, PTL DEF Spec, CP!I!Spec

\* The contract of batches here and in LlmProofs.
LEMMA SameContract ==
  /\ LP!Contract!Init => L!Contract!Init
  /\ LP!Contract!Next => L!Contract!Next
  /\ UNCHANGED LP!Contract!vars => UNCHANGED L!Contract!vars
<1> USE DEF L!Fate, LP!Fate, L!Contract!vars, LP!Contract!vars, L!Contract!Init,
            LP!Contract!Init, L!Contract!Submit, LP!Contract!Submit, L!Contract!End,
            LP!Contract!End, L!Contract!Abandon, LP!Contract!Abandon, L!Contract!Next,
            LP!Contract!Next
<1>1. ASSUME LP!Contract!Init PROVE L!Contract!Init
  BY <1>1
<1>2. ASSUME LP!Contract!Next PROVE L!Contract!Next
  BY <1>2
<1>3. ASSUME UNCHANGED LP!Contract!vars PROVE UNCHANGED L!Contract!vars
  BY <1>3
<1> QED BY <1>1, <1>2, <1>3

\* The batches of the llm service keep the contract, whatever else the parts are.
THEOREM BatchContractKept == ASSUME ServicesAssumption PROVE Spec => KeepsBatchContract
<1>1. Init => (part = "llm" => LP!Init)
  BY SameLlm, OthersBegin
<1>2. [Next]_vars => /\ part = "llm" => [LP!Next]_(LP!vars)
                     /\ part = "llm" <=> (part = "llm")'
  BY SameLlm, OthersStep
<1>3. LP!LlmAssumption
  BY SameLlm DEF ServicesAssumption
<1>4. LP!Spec => LP!Contract!Init /\ [][LP!Contract!Next]_(LP!Contract!vars)
  BY <1>3, LP!LlmKeepsBatchContract DEF LP!KeepsBatchContract, LP!Contract!Spec
<1> QED BY <1>1, <1>2, <1>4, SameContract, PTL DEF Spec, LP!Spec, KeepsBatchContract

-----------------------------------------------------------------------------
\* What must be done once is repeated only where the code cannot know that it was done.
THEOREM NothingIsDoneTwice == ASSUME ServicesAssumption PROVE Spec => []NothingDoneTwice
BY LlmHolds, SequenceHolds, CronHolds, MailHolds, ChatHolds, OpsHolds, FtpHolds, WebhookHolds,
   ApiHolds, PTL DEF NothingDoneTwice

\* No service spends past a cap by more than one call, or books less than a session reports.
THEOREM SpendIsAlwaysCounted == ASSUME ServicesAssumption PROVE Spec => []SpendIsCounted
BY LlmHolds, AgentHolds, PTL DEF SpendIsCounted

\* What others see of a reload, an upload, a backup, an answer, an upgrade, a listener or a
\* socket is whole at every step, whatever fails in between.
THEOREM AllOrNothingHolds == ASSUME ServicesAssumption PROVE Spec => []AllOrNothing
BY ReloadHolds, FtpHolds, BackupHolds, UpgradeHolds, ScrapeHolds, DaemonHolds, Pop3Holds,
   PTL DEF AllOrNothing

\* What is over has nothing left that runs, at every step of every component that starts any.
THEOREM NothingStaysRunning == ASSUME ServicesAssumption PROVE Spec => []NothingLeftRunning
BY AgentHolds, HostHolds, ProcessHolds, NetProxyHolds, WebhookHolds, BackupHolds, ScrapeHolds,
   DaemonHolds, ShellHolds, PTL DEF NothingLeftRunning

\* No agent, bridge call, proxied connection or webhook delivery gets further than allowed.
THEOREM OnlyTheAllowedHappens == ASSUME ServicesAssumption PROVE Spec => []OnlyWhatWasAllowed
BY AgentHolds, BridgeHolds, NetProxyHolds, WebhookHolds, PTL DEF OnlyWhatWasAllowed
=============================================================================
