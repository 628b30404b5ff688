CONSTANTS
  READ_BUF = 2
  PTY_HANDOFF_CHUNKS = 2
  PTY_BATCH_MAX_BYTES = 2
  PTY_CREDIT_BYTES = 2
  PTY_CREDIT_FLOOR <- Floor
  KERNEL_BYTES = 2
  MAX_BYTES = 7
SPECIFICATION Spec
INVARIANTS
  TypeOK
  InOrder
  CreditAccounting
  UnackedBound
  ExitComesLast
PROPERTY
  StreamSpec
CHECK_DEADLOCK FALSE
