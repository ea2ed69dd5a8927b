CONSTANTS
  LastStage = 3
  Owners = {1, 2}
  EdgeBudget = 1
  MaxInlineJumps = 2
  MaxStarts = 2
  Crashes = TRUE
  Faults = TRUE
  Carries = TRUE
  Sessions = {s1, s2}
  MaxTurns = 3
SPECIFICATION WalkSpec
CHECK_DEADLOCK FALSE
INVARIANTS
  SuffixInvalidated
  LedgerIsWellFormed
  LedgerTellsTheRows
  SuccessIsEarned
PROPERTIES
  BudgetPerRun
  OwedStageRuns
