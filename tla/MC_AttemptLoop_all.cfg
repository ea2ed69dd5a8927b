SPECIFICATION FairSpec
CONSTANTS
  maxPhaseAttempts = 2
  MAX_RED_RETRIES = 2
  MAX_RED_ENV_RESTARTS = 1
  MAX_RED_JUDGE_ROUTES = 1
  MAX_PARALLEL_REVIEW_REJECTS = 1
  MAX_CHALLENGE_REAUTHORS = 1
  faultRecurrenceLimit = 2
  Contracts = {TRUE, FALSE}
  MaxAgents = 5
  MaxJudgeCalls = 2
INVARIANTS
  GreenKeepsTests
  ConfirmedBeforeImplement
  ReviewIsJoined
PROPERTIES
  Ends
