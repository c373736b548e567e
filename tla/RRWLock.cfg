CONSTANTS
  Threads = {t1, t2, t3}
  NULL = NULL
  MaxDepth = 3
SPECIFICATION FairSpec
INVARIANTS
  WriterIsAlone
  ReentrantNeverSleeps
  SleepersHaveAReason
PROPERTIES
  WriterNotStarved
