SPECIFICATION Spec
CONSTANTS
  Bits = 2
  Taps = {0, 1}
  Magic0 = 3
  Magic1 = 2
  Version = 1
  AngleUnit = 2
  MmPerDm = 2
  Readings <- MCReadings
  Fresh = 2
  PollTime = 1
  LookTime = 1
  DrawTime = 1
  MaxDelay = 1
  Capacity = 2
  DamageAt = {18}
  MaxNoise = 1
  MaxSent = 2
  StartTime = 1
  MaxTime = 13
  HighTime = 8
INVARIANTS
  TypeOK
  ShowsWhatWasSent
  OnlineIsCurrent
CONSTRAINT Followed
\* The user ends the GUI, and the clock stops at MaxTime.
CHECK_DEADLOCK FALSE
