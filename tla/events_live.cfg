CONSTANTS
  e1 = e1
  none = none
  Events = {e1}
  Long = {}
  NoEvent = none
  ThreadCount = 2
  MaxMounts = 1
  Kills = TRUE
SPECIFICATION FairSpec
PROPERTIES
  WaiterServed
  ReleaseEnds
  LoopsEnd
CHECK_DEADLOCK FALSE
