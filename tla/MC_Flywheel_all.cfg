SPECIFICATION FlywheelSpec
CHECK_DEADLOCK FALSE
CONSTANTS
  onface = onface
  apart = apart
  NumRuns = 3
  Cases = {onface, apart}
  OnFace = {onface}
  Track <- MCTrack
  Version <- MCVersion
  Expected <- MCExpected
  Label <- MCLabel
  PriorMetrics <- MCMetrics
  PriorRows <- MCRows
  MIN_PRIOR_RUNS = 1
  GATE_MIN_MATCHED_PAIRS = 1
  STREAK_N = 2
  PROPOSAL_MIN_RUNS = 2
  PROPOSAL_NEW_RUNS = 2
  Answers = {"fail", "degraded"}
  MaxEvents = 1
INVARIANTS
  RedraftIsEarned
