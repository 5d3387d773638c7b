SPECIFICATION StreamSpec
CONSTANTS
  HDR = 2
  BUFFER_SIZE = 6
  MaxFrames = 2
  Window = 2
  CodecRejects = {}
  Payloads <- SequencePayloads
INVARIANTS
  AnsweredIsNoError
CHECK_DEADLOCK FALSE
