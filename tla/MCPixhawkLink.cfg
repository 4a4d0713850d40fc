SPECIFICATION Spec
CONSTANTS
  HeartbeatEvery = 2
  RequestEvery = 5
  MaxPass = 1
  Autopilot = 7
  Foreign = {1}
  HangupReads = {"error"}
  Trimmed = FALSE
  MaxEvents = 2
INVARIANTS
  TypeOK
  AskedInTime
  NothingStale
  GpsHonest
PROPERTIES
  Recovers
