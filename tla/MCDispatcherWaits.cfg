SPECIFICATION Spec
CONSTANTS
  Types = {"ask", "reply"}
  Tasks = {1, 2}
  Triggers <- AskTriggers
  CronTasks = {2}
  OverlapSkip = {2}
  Emits <- NoEmits
  Operated = {}
  Awaited = {"reply"}
  Timeouts = {1}
  BatchSize = 2
  MaxDepth = 1
  MaxChainRuns = 1
  ReportedLimit = 1
  StoreCanFail = TRUE
  MaxEvents = 4
  MaxTime = 1
INVARIANTS TypeOK ReplyNotMissed ReplyEndsOneWait DeadlineIsFair IndexIsFresh OverlapKept
