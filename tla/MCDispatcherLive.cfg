SPECIFICATION LiveSpec
CONSTANTS
  Types = {"ask", "reply"}
  Tasks = {1}
  Triggers <- AskTriggers
  CronTasks = {}
  OverlapSkip = {}
  Emits <- NoEmits
  Operated = {}
  Awaited = {"reply"}
  Timeouts = {0, 1}
  BatchSize = 1
  MaxDepth = 1
  MaxChainRuns = 1
  ReportedLimit = 1
  StoreCanFail = TRUE
  MaxEvents = 2
  MaxTime = 2
PROPERTIES EveryEventDispatched DeadlineEndsWait
