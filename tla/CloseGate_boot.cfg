CONSTANTS
  GRACE = 1
  MAX_GEN = 1
  MAX_ASKS = 1
  EARLY <- NoChannel
  OUTSIDE = {}
SPECIFICATION Spec
PROPERTIES
  FallbackMeansUnanswered
CHECK_DEADLOCK FALSE
