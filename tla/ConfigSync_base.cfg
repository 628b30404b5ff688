CONSTANTS
  VALUES = {"night", "dawn"}
  DERIVED = "night"
  SAVED <- MCSaved
  START <- MCStart
  MAX_WORK = 2
SPECIFICATION Spec
INVARIANTS
  TypeOK
  LastMatchesFile
  SocketFollowsFile
  Converged
  WarningIsNewest
CHECK_DEADLOCK FALSE
