CONSTANTS
  Threads = {t1}
  Suspenders = {}
  NBlocks = 3
  BlkRecs = 1
  LogErrors = FALSE
  MaxRec = 3
  MaxTxg = 2
  MaxCrash = 0
  MaxWork = 3
CONSTANT Kinds <- MixedKinds
SPECIFICATION Spec
CHECK_DEADLOCK FALSE
INVARIANT LogInOrder
