SPECIFICATION Spec
INVARIANTS
  NoCameraLeft
CHECK_DEADLOCK FALSE
