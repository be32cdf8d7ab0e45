SPECIFICATION LiveSpec
CONSTANTS
  Runs = {1, 2}
  Tasks = {"twice", "once"}
  TaskOf <- MixedTaskOf
  Limit <- MCLimit
  Attempts <- MCAttempts
  FewestAttempts <- MCFewest
  WorkerCounts = {1, 2}
  AdoptBatch = 1
  StoreCanFail = TRUE
INVARIANTS TypeOK PoolAgrees PoolMatchesStore WaitingHasWait AttemptsWithinPolicy
PROPERTIES FailedAttemptIsSpent KeepsContract EveryQueuedRunSettles StopCompletes
