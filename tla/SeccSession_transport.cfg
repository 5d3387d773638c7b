SPECIFICATION Spec
CONSTANTS
  HDR = 2
  BUFFER_SIZE = 6
  MaxFrames = 3
  Window = 3
  CodecRejects = {}
  Payloads <- SessionPayloads
INVARIANTS
  TransportAsNegotiated
CHECK_DEADLOCK FALSE
