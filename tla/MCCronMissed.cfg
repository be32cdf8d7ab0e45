\* A task that only counts its missed ticks; a check of a start may fail.
SPECIFICATION MCSpec
CONSTANTS
  Due = {1, 2, 3}
  RunOnce = FALSE
  MaxMissed = 3
  MaxTime = 3
PROPERTY NextStartReports
CHECK_DEADLOCK FALSE
