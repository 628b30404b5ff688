CONSTANTS
  MAX_PANES = 3
  MAX_SESSIONS = 3
  RACES = {"commit"}
SPECIFICATION Spec
INVARIANTS
  WindowHasTab
CHECK_DEADLOCK FALSE
