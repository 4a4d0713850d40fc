SPECIFICATION FlightSpec
CONSTANTS
  Attitudes <- MCAttitudes
  Contents <- MCContents
  Keys <- MCKeys
  MaxKeys = 1
INVARIANTS
  TypeOK
  NeverBroken
  GimbalAttended
  OrphanedOnlyUnheard
  GimbalTypeOK
  ServoTested
  ZeroPointHonest
PROPERTIES
  Ends
\* A mission ends.
CHECK_DEADLOCK FALSE
