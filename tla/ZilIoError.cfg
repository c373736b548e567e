CONSTANTS
  Threads = {t1, t2}
  Suspenders = {}
  NBlocks = 3
  BlkRecs = 1
  LogErrors = TRUE
  MaxRec = 2
  MaxTxg = 2
  MaxCrash = 1
  MaxWork = 3
CONSTANT Kinds <- AsyncKinds
SPECIFICATION Spec
CHECK_DEADLOCK FALSE
INVARIANT AckedSurvive
