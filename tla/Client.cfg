SPECIFICATION Spec
CONSTANTS
  Procs = {g1, g2}
  Paths = {a, b}
  Parent = parent
  NoFid = NoFid
  NoPath = NoPath
  MaxTag = 8
  MaxFid = 3
  MaxEvents = 3
  MaxChunks = 2
  Ops = {"open", "create", "stat", "remove", "read", "write", "close"}
  SharedClose = FALSE
  Refusals = {"Twalk", "open", "create", "stat", "read", "write"}
  MayDisconnect = TRUE
SYMMETRY Symmetry
INVARIANTS RepliesMatch FidsExclusive FidBinding AnswerUnderWay 
CHECK_DEADLOCK FALSE
