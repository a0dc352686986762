CONSTANTS
  f1 = f1
  o1 = o1
  rd = rd
  wt = wt
  Files = {f1}
  Opens = {o1}
  Ops = {rd, wt}
  MaxMounts = 3
SPECIFICATION Spec
INVARIANTS
  ContextLive
  InfoFreed
PROPERTIES
  RefinesSession
CHECK_DEADLOCK FALSE
