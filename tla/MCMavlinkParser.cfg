\* A protocol small enough to enumerate every byte stream up to MaxStream.
SPECIFICATION Spec
CONSTANTS
  Byte = {0, 1, 2, 3}
  StxV1 = 2
  StxV2 = 3
  HdrV1 = 2
  HdrV2 = 3
  CrcLen = 1
  BufSize = 7
  Crc <- MCCrc
  MaxStream = 8
INVARIANTS
  TypeOK
  OverflowBranchDead
  AcceptedAreFrames
  AcceptedAreDisjoint
  MatchesReference
\* The port goes quiet after MaxStream bytes.
CHECK_DEADLOCK FALSE
