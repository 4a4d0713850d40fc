SPECIFICATION Spec
CONSTANTS
  Tries = 3
  Minutes = {1}
  MaxRuns = 1
  MaxRecords = 4
  SyncFails = TRUE
INVARIANTS
  NoHoles
CHECK_DEADLOCK FALSE
