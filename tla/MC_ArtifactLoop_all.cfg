CONSTANTS
  MaxRounds = 2
  PROGRESS_EXTENSION_ROUNDS = 4
  MAX_TOTAL_ROUND_MULTIPLE = 2
  AGENT_ERROR_FATAL_CONSECUTIVE = 2
  ESCALATION_RETRY_CAP = 1
  MaxAgents = 6
  MaxCalls = 6
  MaxStarts = 3
  MaxReroutes = 1
  MaxMishaps = 1
  MaxDetours = 1
SPECIFICATION Spec
CHECK_DEADLOCK FALSE
INVARIANTS
  CleanReplay
