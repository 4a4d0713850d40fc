SPECIFICATION Spec
CONSTANTS
  HeartbeatEvery = 2
  RequestEvery = 5
  MaxPass = 1
  Autopilot = 1
  Foreign = {}
  HangupReads = {"eof"}
  Trimmed = FALSE
  MaxEvents = 1
PROPERTIES
  Recovers
