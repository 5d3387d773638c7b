SPECIFICATION SlacSpec
CONSTANTS
  EVs = {e1}
  EVSEs = {s1}
  Unset = Unset
  Keys = {k1, k2}
  Samples = {20, 39}
  NUM_SOUNDS = 10
  C_EV_MATCH_RETRY = 1
  Duplicates = FALSE
INVARIANT AverageWithinSamples
CHECK_DEADLOCK FALSE
