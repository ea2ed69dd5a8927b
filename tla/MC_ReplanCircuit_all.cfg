SPECIFICATION FairSpec
CONSTANTS
  f1 = f1
  f2 = f2
  LastStage = 3
  Owners = {1, 2}
  Findings = {f1, f2}
  Pairs <- Classes
  MaxReplanRounds = 2
  MaxMishaps = 1
INVARIANTS
  ReplanBudget
  AddressedUnlessCut
PROPERTIES
  RestartRevises
  SessionEnds
