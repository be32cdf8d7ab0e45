SPECIFICATION MCSpec
CONSTANTS
  CallRuns = {1, 2}  BatchRuns = {3}  LlmAttempts <- TheLlmAttempts  Cap = 1  RunCap = 2
  Worst = 1  BatchWorst = 1  DayLength = 2  WaitFor = 0  AbandonAfter = 1  Ids = {1, 2}
  LlmTime = 2  Crashes = TRUE
  RunNames = {1}  AgentCalls = {"a", "b", "c"}  BadCalls = {"b"}  MaxToolCalls = 1  MaxAttempts = 2
  DailyCap = 3  MaxCost = 2
  Conns = {1, 2}  Connectors = {"mail", "chat", "ftp"}  Ops = {"send", "drop"}
  Grants <- TheGrants  BridgeServes <- TheServes
  StepKinds <- TheStepKinds  SequenceAttempts = 3  MaxLosses = 2
  Due = {1, 2, 4, 5}  RunOnce = TRUE  MaxMissed = 1  CronTime = 5
  Keys = {"a", "b", "c"}  Keep = 1  SkipFirst = TRUE  MaxItems = 2  MaxEmissions = 2
  Agents = {1}  KeepRuns = 2  KeepLedger = 2  KeepEvents = 0  KeepSpaces = 0  Batch = 1
  MaxRows = 2  MaxTime = 3
  Versions = {0, 1, 2}  Valid <- TheValid  MaxQueue = 2  Builtin <- TheBuiltin
  HostConns = {1, 2, 3, 4}
  Launchers = {"stdio", "acp", "none"}
  ProxyNames = {"x", "y", "z"}  Exact = {"x"}  Below = {"x", "y"}  ProxyConnections = 1  MaxOwed = 1
  Mailboxes <- TheMailboxes  MaxMails = 3  MaxSeen = 2  Limit = 2  FailsAfterReset = FALSE
  Matrix = TRUE  SkipHistory = TRUE  Questions = {1}  Options = {1, 2}  PendingLimit = 1
  Tries = 2
  Apis = {"github", "cloud", "server"}  PerPage = 2  Wants = {1, 2, 3}  Pulls = {2}
  OpsItems = 4  MaxFaults = 2
  Tree <- TheTree  Extra = {"z"}  Servers <- TheServers
  MaxConnections = 2  MaxTries = 2
  Reqs = {1}  ApiTries = 3  ApiBodies = {"good", "large", "json", "invalid"}
  ApiAsks = {"emit", "keyed", "run", "cancel", "pause", "resume", "put", "delete",
          "restart", "read"}
  Clients = {"c", "d"}  Forced = {}
  Releases = 3
  ListenAddresses <- TheAddresses  MaxRequests = 2
  Daemons = {"d", "e"}
  TextMax = 2  MaxTurns = 2  MaxUnits = 6
  Streams = {"out", "err"}  Room <- TheRoom  MaxChars = 2  LoggedLines = 1
  MaxPrinted = 2
  Pop3Session <- TheSession  MaxLines = 2
  Size = 4
INVARIANTS TypeOK SpendIsCounted NothingDoneTwice NothingForgotten AllOrNothing
  NothingLeftRunning OnlyWhatWasAllowed SecondSetUps
PROPERTIES KeepsBatchContract NoStepRepeatsOrDrops
CHECK_DEADLOCK FALSE
