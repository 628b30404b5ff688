CONSTANTS
  GRACE = 1
  MAX_GEN = 2
  MAX_ASKS = 1
  EARLY <- CloseOnly
  OUTSIDE = {"settings", "gone", "hang"}
SPECIFICATION FairSpec
PROPERTIES
  TeardownEnds
  AskAnswered
  HungEscape
CHECK_DEADLOCK FALSE
