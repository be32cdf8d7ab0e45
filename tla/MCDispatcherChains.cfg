SPECIFICATION Spec
CONSTANTS
  Types = {"ping"}
  Tasks = {1, 2, 3}
  Triggers <- ChainTriggers
  CronTasks = {}
  OverlapSkip = {}
  Emits <- ChainEmits
  Operated = {2}
  Awaited = {}
  Timeouts = {0}
  BatchSize = 1
  MaxDepth = 1
  MaxChainRuns = 2
  ReportedLimit = 1
  StoreCanFail = TRUE
  MaxEvents = 4
  MaxTime = 0
INVARIANTS ChainCapKept DropsReported NoLostWake
