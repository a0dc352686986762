CONSTANTS
  u1 = u1
  Users = {u1}
  KeepAliveOptions = {TRUE, FALSE}
  KeepAliveTicks = 1
  MaxReleases = 2
  MaxMounts = 2
SPECIFICATION FairSpec
INVARIANTS TypeOK Serviced ThreadFreedOnce ForcesOwnMount
PROPERTIES
  SilentUnmounted
  ReleaseReturns
CHECK_DEADLOCK FALSE
