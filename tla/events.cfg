CONSTANTS
  e1 = e1
  e2 = e2
  none = none
  Events = {e1, e2}
  Long = {e2}
  NoEvent = none
  ThreadCount = 1
  MaxMounts = 2
  Kills = TRUE
SPECIFICATION Spec
INVARIANTS
  TypeOK
  NoLostWakeup
  EventKept
  WaitHeldOnce
CHECK_DEADLOCK FALSE
