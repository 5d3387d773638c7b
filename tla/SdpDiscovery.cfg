SPECIFICATION FairSdpSpec
CONSTANTS
  EVs = {e1, e2}
  NoDatagram = NoDatagram
  MaxTries = 2
INVARIANTS
  SdpTypeOK
  GrantAgreed
  StrandedOnlyByMishap
PROPERTIES
  TimelyEvsConnect
  ImplementsSessionStart
CHECK_DEADLOCK FALSE
