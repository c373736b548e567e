CONSTANTS
  Threads = {t1, t2}
  Suspenders = {}
  NBlocks = 3
  BlkRecs = 1
  LogErrors = FALSE
  MaxRec = 3
  MaxTxg = 2
  MaxCrash = 2
  MaxWork = 4
CONSTANT Kinds <- TwoFiles
SPECIFICATION Spec
SYMMETRY ThreadSymmetry
CHECK_DEADLOCK FALSE
INVARIANTS
  AckedSurvive
  SurvivorsClosed
  NoLeak
  NoDangling
PROPERTIES
  ReplayOnce
