SPECIFICATION Spec
CONSTANTS
  Runs = {1}
  Agents = {1}
  DayLength = 2
  KeepRuns = 2
  KeepLedger = 2
  KeepEvents = 0
  KeepSpaces = 0
  Batch = 1
  MaxRows = 2
  MaxTime = 3
PROPERTIES WorkKeptByRetention
CHECK_DEADLOCK FALSE
