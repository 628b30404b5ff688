CONSTANTS
  MAX_PANES = 2
  MAX_SESSIONS = 2
  RACES = {"attach"}
SPECIFICATION Spec
INVARIANTS
  DeadPaneNotified
CHECK_DEADLOCK FALSE
