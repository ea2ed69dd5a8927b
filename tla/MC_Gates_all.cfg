SPECIFICATION GatesSpec
CONSTANTS
  Worlds <- MCWorlds
  Family <- MCFamily
  Nested <- MCNested
  MaxEdits <- MCMaxEdits
  MaxFaults = 1
CHECK_DEADLOCK FALSE
INVARIANTS
  ReleaseIsEarned
PROPERTIES
  GreenIsMet
