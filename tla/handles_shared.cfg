CONSTANTS
  f1 = f1
  o1 = o1
  o2 = o2
  o3 = o3
  Files = {f1}
  Opens = {o1, o2, o3}
  Ops = {}
  MaxMounts = 1
SPECIFICATION Spec
SYMMETRY Symmetric
INVARIANTS
  FcbShared
CHECK_DEADLOCK FALSE
