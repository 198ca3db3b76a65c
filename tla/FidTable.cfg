SPECIFICATION Spec
CONSTANTS
  Workers = {w1, w2}
  Fid = {f1, f2}
  Root = Root
  Dirs = {}
  Files = {a}
  AuthFile = AuthFile
  Modes = {"Ordwr", "Oread"}
  None = None
  Ops = {"walk", "open", "create", "read", "write", "clunk", "remove"}
  AuthRequired = TRUE
  Pipelined = FALSE
  MaxAuths = 1
SYMMETRY Symmetry
INVARIANTS FileContract HandlesMatch  OnlyAuthenticated
CHECK_DEADLOCK FALSE
