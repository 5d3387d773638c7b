SPECIFICATION FairSpec
CONSTANTS
  HDR = 2
  BUFFER_SIZE = 6
  MaxFrames = 2
  Window = 2
  CodecRejects = {"CableCheckRes"}
  Payloads <- SessionPayloads
INVARIANTS
  SessionTypeOK
  ConnectionClosedOnce
  StateBelongsToPhase
  AnswersFit
  SchemaNegotiation
PROPERTIES
  SessionImplementsServer
  FailureEndsSession
CHECK_DEADLOCK FALSE
