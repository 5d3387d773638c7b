SPECIFICATION LogSpec
CONSTANTS
  Threads = {t1, t2}
  None = None
  SECC_LOG_BUFFER_SIZE = 2
  MaxEntries = {1}
  MaxCalls = 3
  MaxInits = 1
  QuietClose = FALSE
INVARIANT MutualExclusion
CHECK_DEADLOCK FALSE
