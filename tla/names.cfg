SPECIFICATION Spec
CONSTANTS
  h1 = h1
  h2 = h2
  Handles = {h1, h2}
  Names = {n1, n2}
  n1 = n1
  Existing <- MCExisting
  Kinds <- MCKinds
  GiveUps = {"rename"}
  Relative = TRUE
INVARIANTS TypeOK ContextSound NameCurrent DeleteOnClose
CHECK_DEADLOCK FALSE
