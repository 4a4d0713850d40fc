SPECIFICATION Spec
CONSTANTS
  HeartbeatEvery = 2
  RequestEvery = 5
  MaxPass = 1
  Autopilot = 1
  Foreign = {}
  HangupReads = {"error"}
  Trimmed = TRUE
  MaxEvents = 1
INVARIANTS
  GpsHonest
