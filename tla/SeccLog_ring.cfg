SPECIFICATION LogSpec
CONSTANTS
  Threads = {t1, t2, t3}
  None = None
  SECC_LOG_BUFFER_SIZE = 3
  MaxEntries = {2, 5}
  MaxCalls = 5
  MaxInits = 2
  QuietClose = TRUE
INVARIANTS
  LogTypeOK
  MutualExclusion
  ThreadOrderKept
  RingIsEndOfFile
  ClosedFileIsJson
PROPERTY ImplementsQueue
CHECK_DEADLOCK FALSE
