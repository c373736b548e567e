CONSTANTS
  Threads = {t1}
  Suspenders = {s1, s2}
  NBlocks = 3
  BlkRecs = 1
  LogErrors = FALSE
  MaxRec = 2
  MaxTxg = 2
  MaxCrash = 1
  MaxWork = 3
CONSTANT Kinds <- SyncKind
SPECIFICATION FairSpec
CHECK_DEADLOCK FALSE
INVARIANTS
  CreateAfterDestroy
  SuspendedEmpty
PROPERTIES
  FreedOnce
  WriterFinishes
  SleepersWake
  ImportFinishes
