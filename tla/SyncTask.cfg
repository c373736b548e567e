CONSTANTS
  Threads = {t1, t2}
  Datasets = {d1, d2}
  Targets = {{d1}, {d1, d2}}
  Names = {n1, n2}
  NoSnap = NoSnap
  ZFS_DEBUG = TRUE
  MaxOps = 3
  MaxRefused = 1
  MaxTxg = 1
  MaxCrash = 1
SPECIFICATION Spec
SYMMETRY Symmetry
CHECK_DEADLOCK FALSE
INVARIANTS
  AllOrNone
  ResultIsTrue
  SnapshotIsAMoment
  SnapshotsKeepTheirNames
  EventsGoWithTheirGroup
  NoCallIsStuck
