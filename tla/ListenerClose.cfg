SPECIFICATION FairSpec
CONSTANTS
  Fids = {f1, f2, f3}
  Acceptors = {a1, a2}
  Cap = 1
PROPERTIES CloseUnblocksAccept
CHECK_DEADLOCK FALSE
