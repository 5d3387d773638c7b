SPECIFICATION FairPlainSpec
CONSTANTS
  HDR = 2
  BUFFER_SIZE = 5
  MaxFrames = 4
  Window = 2
  CodecRejects = {}
  Payloads <- LockstepPayloads
INVARIANTS
  PlainTypeOK
  OneMessagePerRead
PROPERTIES
  ImplementsStream
  LockstepServed
CHECK_DEADLOCK FALSE
