CONSTANTS
  Threads = {t1, t2, t3}
  NONE = NONE
  SPA_MAXBLOCKSIZE = 2
  Limit = 2
  MaxLen = 2
  Offs = {0, 1}
  Lens = {2}
  Ops = {"read", "write", "append"}
SPECIFICATION FairSpec
PROPERTIES
  WaitersGranted
