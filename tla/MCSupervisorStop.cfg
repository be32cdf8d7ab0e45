\* A stop that comes while a health check or a restart is killing the process.
SPECIFICATION Spec
CONSTANTS
  Entries = {1, 2}
  Spawns = {1, 2}
  Kinds = {"process"}
  RestartWhileReplacing = FALSE
INVARIANT StopWaits
