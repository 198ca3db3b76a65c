SPECIFICATION FairSpec
CONSTANTS
  Calls = {1, 2, 3}
  Tags = {t1, t2}
  Workers = {w1, w2}
  InCap = 2
  OutCap = 1
  Window = 2
  Kinds = {"request", "flush", "invalid", "badAttach"}
  DistinctTags = TRUE
  ServerErrors = TRUE
  None = None
INVARIANTS NoReplySwallowed ContextsDropped ShutdownOrder 
PROPERTIES RequestsAnswered ShutdownCompletes
CHECK_DEADLOCK FALSE
