SPECIFICATION FairSpec
CONSTANTS
  Settings = {"vga", "hd"}
  Configured = "vga"
  Handlers = {"h1", "h2"}
  Duration = 2
  MaxChanges = 2
  MaxCrashes = 1
  MaxStarts = 2
  MaxRequests = 3
INVARIANTS
  TypeOK
  OneCamera
  StaleIsFlagged
  BackoffOnlyForCrashes
  ReleasedWhatWasSeen
  OnlyFirstRowEarly
  ReportedOnce
PROPERTIES
  CameraComesAndGoes
\* The program ends.
CHECK_DEADLOCK FALSE
