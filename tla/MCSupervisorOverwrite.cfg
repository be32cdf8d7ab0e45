\* A restart may land while a reload kills the entry it replaces.
SPECIFICATION Spec
CONSTANTS
  Entries = {1, 2}
  Spawns = {1, 2, 3}
  Kinds = {"process"}
  RestartWhileReplacing = TRUE
INVARIANT NoneForgotten
