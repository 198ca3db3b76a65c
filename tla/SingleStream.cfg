SPECIFICATION FairSpec
CONSTANTS
  Writers = {w1, w2}
  Readers = {r1, r2}
  MaxWrites = 3
  ChunkLen = 3
  ReadLen = 2
  None = None
INVARIANTS OneToken DataInOrder 
PROPERTIES CloseReleasesReads
CHECK_DEADLOCK FALSE
