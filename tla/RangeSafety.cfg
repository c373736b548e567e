CONSTANTS
  Threads = {t1, t2, t3}
  NONE = NONE
  SPA_MAXBLOCKSIZE = 4
  Limit = 4
  MaxLen = 3
  Offs = {0, 2}
  Lens = {1, 3}
  Ops = {"read", "write", "append", "resize", "putpage"}
SPECIFICATION Spec
SYMMETRY ThreadSymmetry
INVARIANTS
  TypeOK
  TreeIsExact
  SleepersAreFlagged
  
PROPERTIES
  ImplementsByteLocks
