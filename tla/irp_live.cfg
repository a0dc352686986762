CONSTANTS
  r1 = r1
  b1 = b1
  Reads = {r1}
  SmallWrites = {}
  BigWrites = {b1}
  Cancellable = {r1}
  TimeoutTicks = 2
  MaxReleases = 0
  MaxMounts = 1
SPECIFICATION FairSpec
PROPERTIES
  PendedCompletes
CHECK_DEADLOCK FALSE
