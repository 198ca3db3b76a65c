SPECIFICATION FairSpec
CONSTANTS
  Clients = {c1, c2}
  MaxWrites = 2
  MaxLen = 3
  Cap = 2
  ReadLen = 2
INVARIANTS CompleteChunks
PROPERTIES CloseReleasesWriters
CHECK_DEADLOCK FALSE
