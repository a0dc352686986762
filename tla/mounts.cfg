SPECIFICATION Spec
CONSTANTS
  Programs = {p1, p2}
  Tools = {ctl1, ctl2}
  Letters = {L1, L2}
  DeviceMax = 2
  MaxStops = 1
INVARIANTS TypeOK DrivesStand HarmNeedsCause
SYMMETRY Symmetry
CHECK_DEADLOCK FALSE
