SPECIFICATION Spec
CONSTANTS
  Tries = 3
  Minutes = {1, 2}
  MaxRuns = 2
  MaxRecords = 3
  SyncFails = TRUE
INVARIANTS
  TypeOK
  OneRunOneFile
PROPERTIES
  NeverClobbers
  JournalSpec
\* The last run may end.
CHECK_DEADLOCK FALSE
