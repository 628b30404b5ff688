CONSTANTS
  MAX_PANES = 3
  MAX_SESSIONS = 3
  RACES = {}
SPECIFICATION FairSpec
INVARIANTS
  TypeOK
  SessionsOwned
  RecordsMatchPanes
  DeadPaneNotified
PROPERTIES
  NothingThrownAway
  SessionsSettle
CHECK_DEADLOCK FALSE
