CONSTANTS
  NumPhases = 3
  MAX_PARTIAL_REENTRIES = 1
  Reasons = {"r"}
  InPlaceModes = {TRUE, FALSE}
  SpawnBudget = 6
  MaxMishaps = 1
SPECIFICATION PhaseSpec
CHECK_DEADLOCK FALSE
INVARIANTS
  NoStaleStamp
PROPERTIES
  NothingLost
  EndsUnlessGone
