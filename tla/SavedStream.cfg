SPECIFICATION FairSpec
CONSTANTS
  Readers = {r1, r2}
  MaxLen = 3
PROPERTIES  ReadReleased
CHECK_DEADLOCK FALSE
