CONSTANTS
  VALUES = {"night", "dawn"}
  DERIVED = "night"
  SAVED <- MCSaved
  START <- UnreadableFile
  MAX_WORK = 1
SPECIFICATION Spec
INVARIANTS
  FailureShown
CHECK_DEADLOCK FALSE
