CONSTANTS
  Threads = {t1, t2}
  Ctl = ctl
  Quiescer = quiescer
  Free = free
  NCpus = 2
  InitTxg = 4
  WaitTxgs = {5}
  MaxTxg = 6
SYMMETRY ThreadSymmetry
SPECIFICATION Spec
INVARIANTS
  Pipeline
  HeldIsOpenOrQuiescing
  TcLockPinsOpen
  DispatchNeedsNoLock
  StopLeavesNothing
