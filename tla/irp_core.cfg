CONSTANTS
  b1 = b1
  w1 = w1
  Reads = {}
  SmallWrites = {w1}
  BigWrites = {b1}
  Cancellable = {w1, b1}
  TimeoutTicks = 1
  MaxReleases = 1
  MaxMounts = 2
SPECIFICATION Spec
INVARIANTS
  OneHolder
  CompletedOnce
  HandOver
  NoDanglingEntry
  EventFreedOnce
PROPERTY RefinesService
CHECK_DEADLOCK FALSE
