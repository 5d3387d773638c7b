SPECIFICATION FairStreamSpec
CONSTANTS
  HDR = 2
  BUFFER_SIZE = 7
  MaxFrames = 4
  Window = 4
  CodecRejects = {}
  Payloads <- MixedPayloads
INVARIANTS
  TypeOK
  Reassembly
  AnswersInOrder
  NoMessageLeftWaiting
  OverflowNeedsBacklog
  StateFollowsRequests
PROPERTIES
  ImplementsServer
  EveryMessageServed
CHECK_DEADLOCK FALSE
