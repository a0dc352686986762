SPECIFICATION Spec
CONSTANTS
  Programs = {p1, p2}
  Life = 2
  Offset = 1
  MaxTime = 3
  MaxRuns = 3
  Accounts <- MCAccounts
  PageLength = 2
  Paths <- MCPaths
INVARIANTS TypeOK RefreshKept StartsFresh PathsResolve
SYMMETRY Symmetry
CHECK_DEADLOCK FALSE
