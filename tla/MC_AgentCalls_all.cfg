CONSTANTS
  NumReviewers = 3
  MaxConcurrency = 2
  MaxAgents = 3
  CostCap = 2
  Retries = 1
  a = a
  n = n
  t = t
  Paths = {a, n, t}
  TestFiles = {t}
  Tracked = {a}
  ReviewerPaths = {a}
  GitFaults = TRUE
SPECIFICATION Spec
CHECK_DEADLOCK FALSE
INVARIANTS
  EditIsReported
  MergedReviewIsClean
PROPERTIES
  ImplementerSurvives
