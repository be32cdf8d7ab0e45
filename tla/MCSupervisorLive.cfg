\* Two processes and a replaced entry: crashes, restarts, reloads, health kills and a stop,
\* with the fairness of timers and promises; no symmetry, as for every liveness check.
SPECIFICATION LiveSpec
CONSTANTS
  Entries = {1, 2}
  Spawns = {1, 2}
  Kinds = {"process", "external"}
  RestartWhileReplacing = FALSE
INVARIANTS TypeOK NoneForgotten OneAtATime NeverStranded
PROPERTIES ComesUp StopReturns
