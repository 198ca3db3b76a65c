SPECIFICATION FairSpec
CONSTANTS
  Readers = {r1, r2}
  Kinds = {"dropping", "blocking", "skipping"}
  BufLen = 1
  MaxWrites = 2
  ChunkLen = 2
  ReadLen = 3
  None = None
INVARIANTS ChunksInOrder AllDelivered 
PROPERTIES WriteReturns
CHECK_DEADLOCK FALSE
