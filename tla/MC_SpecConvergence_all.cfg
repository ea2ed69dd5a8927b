SPECIFICATION SpecSpec
CONSTANTS
  up = up
  down = down
  plan = plan
  gate = gate
  Identities <- MCIdentities
  Owner <- MCOwner
  High <- MCHigh
  Replan <- plan
  Gate <- gate
  MaxRounds = 2
  Extension = 1
  DutyRound = 2
  FatalErrors = 2
  MaxAgents = 5
  MaxJumps = 1
  MaxCrashes = 1
  Words = {"silent", "blocks", "asks-advisory", "closed"}
  MaxSpoken = 2
  MaxOrphans = 1
INVARIANTS
  TracedUnlessBounced
  ApprovalCloses
