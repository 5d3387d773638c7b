SPECIFICATION FairSlacSpec
CONSTANTS
  EVs = {e1}
  EVSEs = {s1}
  Unset = Unset
  Keys = {k1, k2}
  Samples = {20}
  NUM_SOUNDS = 1
  C_EV_MATCH_RETRY = 3
  Duplicates = FALSE
PROPERTY EvseWaitIsBounded
CHECK_DEADLOCK FALSE
