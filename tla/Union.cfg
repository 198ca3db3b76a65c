SPECIFICATION Spec
CONSTANTS
  c1 = c1
  c2 = c2
  None = None
  Clients = {c1, c2}
  Fids = {f1}
  Tree <- MCTree
  MountPoints <- AtRootAndA
  BindPaths <- BoundDeep
  Options = {"REPLACE", "AFTER"}
  Creates = {TRUE, FALSE}
  NewNames = {"n"}
  MaxDepth = 1
  MaxEntries = 3
  MaxCalls = 3
INVARIANTS WalkSeesOneTable  ClientsAccounted CreateHonoured
CHECK_DEADLOCK FALSE
