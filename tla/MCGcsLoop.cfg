SPECIFICATION Spec
CONSTANTS
  SendInterval = 4
  LoraInterval = 5
  HeartbeatEvery = 3
  RequestEvery = 6
  SyncEvery = 4
  MaxPoll = 1
  OpenRetry = 2
  ReadRetry = 1
  Late = 1
  Stall = 1
  LogFails = TRUE
  HangupReads = {"eof", "error"}
  StartTime = 6
  MaxTime = 18
  LogTime = 12
  StallTime = 15
INVARIANTS
  TypeOK
  LoraPaced
  NoBurst
  NoDrift
  LogMatchesWire
  SyncWindow
  HeartbeatPrompt
CONSTRAINT Followed
\* The process stops on a signal or a power loss, and the clock stops at MaxTime.
CHECK_DEADLOCK FALSE
