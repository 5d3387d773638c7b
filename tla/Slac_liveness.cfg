SPECIFICATION LineSpec
CONSTANTS
  EVs = {e1}
  EVSEs = {s1, s2}
  Unset = Unset
  Keys = {k1, k2}
  Samples = {20, 39}
  NUM_SOUNDS = 3
  C_EV_MATCH_RETRY = 3
  Duplicates = FALSE
INVARIANT AverageWhileSumFits
PROPERTIES
  EvTerminates
  EvseTerminates
  LostRequestsSurvivedInTime
CHECK_DEADLOCK FALSE
