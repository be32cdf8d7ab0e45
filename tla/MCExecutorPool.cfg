SPECIFICATION Spec
CONSTANTS
  Runs = {1, 2, 3}
  Tasks = {"twice", "once"}
  TaskOf <- MCTaskOf
  Limit <- MCLimit
  Attempts <- MCAttempts
  FewestAttempts <- MCFewest
  WorkerCounts = {1}
  AdoptBatch = 1
  StoreCanFail = FALSE
INVARIANTS ConcurrencyKept NoLostPump
PROPERTIES StopSpendsNoAttempt CancelEndsRun
