SPECIFICATION ComputationSpec
CONSTANTS
  None = None
  Jobs <- MCJobs
  LaneCapacity = 4
  Window = 2
  ScanCap = 4
  MaxTotal = 6
  Threads = {t1, t2}
  WindowBits = 2
  PageCap = 2
  Routings <- MCRoutings
SYMMETRY ThreadSymmetry
INVARIANTS QueriesExact WalkComplete MirroredOnce DecisionWhole
CHECK_DEADLOCK FALSE
