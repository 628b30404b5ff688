CONSTANTS
  GRACE = 1
  MAX_GEN = 2
  MAX_ASKS = 1
  EARLY <- AllChannels
  OUTSIDE = {"exit", "restart", "remote", "hang", "sessions"}
SPECIFICATION Spec
INVARIANTS
  TypeOK
  AckedMeansAlive
PROPERTIES
  ConsentBeforeTeardown
  FallbackMeansUnanswered
  DialogKept
CHECK_DEADLOCK FALSE
