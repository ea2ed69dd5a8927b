SPECIFICATION SessionSpec
CONSTANTS
  Procs = {p1, p2}
  Tracks = {t1}
  None = None
  MaxRuns = 2
  MaxFaults = 2
  Calls = {c1, c2}
  MaxCalls = 3
  DegradeAt = 2
  Sigs = {s1, s2}
  MaxPerSignature = 2
  MaxPerRun = 3
  MaxCandidates = 2
  MaxProcesses = 2
  Execs = {e1, e2}
  NoExec = NoExec
  MaxModules = 2
  MaxNotes = 2
  MaxQueued = 1
  MaxReplanRounds = 1
  MaxMisses = 1
CHECK_DEADLOCK FALSE
INVARIANTS
  RowsSurvive
  OneRunPerTrack
  NoOrphan
  JudgeBudget
  GuardHolds
  NoteReachesAgents
PROPERTIES
  CallEnds
  ServicesGo
  ReadyIsOwn
  ShutdownIsHonest
