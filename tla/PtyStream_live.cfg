CONSTANTS
  READ_BUF = 2
  PTY_HANDOFF_CHUNKS = 1
  PTY_BATCH_MAX_BYTES = 2
  PTY_CREDIT_BYTES = 1
  PTY_CREDIT_FLOOR <- FloorOfOne
  KERNEL_BYTES = 2
  MAX_BYTES = 4
SPECIFICATION FairSpec
PROPERTIES
  BytesArrive
  SessionEnds
  FailureReleases
CHECK_DEADLOCK FALSE
