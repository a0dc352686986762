CONSTANTS
  Users = {}
  KeepAliveOptions = {TRUE}
  KeepAliveTicks = 2
  MaxReleases = 0
  MaxMounts = 1
SPECIFICATION FairSpec
PROPERTY StopsTimeoutThread
CHECK_DEADLOCK FALSE
