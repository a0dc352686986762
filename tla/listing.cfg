SPECIFICATION Spec
CONSTANTS
  Directories <- MCDirectories
  Patterns <- MCPatterns
  Size <- MCSize
  Pages <- MCPages
  Indexes = {1}
  MaxQueries = 3
  MaxChanges = 1
  Serial = TRUE
  Expressions <- MCExpressions
  FileNames <- MCFileNames
INVARIANTS TypeOK MatchMissesNothing MatchSettled PagesInOrder ListingComplete
CHECK_DEADLOCK FALSE
