CONSTANTS
  Threads = {t1, t2}
  Ctl = ctl
  Quiescer = quiescer
  Free = free
  NCpus = 1
  InitTxg = 4
  WaitTxgs = {0}
  MaxTxg = 5
SPECIFICATION FairSpec
PROPERTIES
  WaitersReturn
  StopReturns
  CallbackDelivered
  ImplementsGroupCommit
