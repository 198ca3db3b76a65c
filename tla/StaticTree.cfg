SPECIFICATION Spec
CONSTANTS
  Workers = {w1, w2}
  Root = Root
  Dirs = {d}
  Files = {a}
  Names = {n1, n2}
  Perms = {p1, p2}
  MaxLen = 1
  Keep = Keep
  None = None
  Attrs = {"name"}
SYMMETRY Symmetry
INVARIANTS ParentChild 
PROPERTIES RemoveExact 
CHECK_DEADLOCK FALSE
