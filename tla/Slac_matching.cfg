SPECIFICATION SlacSpec
CONSTANTS
  EVs = {e1, e2}
  EVSEs = {s1, s2}
  Unset = Unset
  Keys = {k1, k2}
  Samples = {20}
  NUM_SOUNDS = 2
  C_EV_MATCH_RETRY = 2
  Duplicates = TRUE
INVARIANTS
  SlacTypeOK
  KeyAgreement
  MatchEarned
PROPERTIES
  ImplementsMatching
  MovesAreUsedUp
CHECK_DEADLOCK FALSE
