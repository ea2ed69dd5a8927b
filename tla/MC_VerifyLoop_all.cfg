SPECIFICATION Spec
CONSTANTS
  Reviewers = {"code", "adversarial"}
  Verdicts = {"approves", "rejects", "upstream", "bare"}
  Roles = {"api"}
  MaxAgents = 4
  MaxLives = 2
  MaxJumps = 1
  InfraLimit = 2
  ChangedFixFloor = 3
INVARIANTS
  ConvergedIsVerified
  
