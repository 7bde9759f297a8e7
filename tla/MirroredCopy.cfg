SPECIFICATION ComputationSpec
CONSTANTS
  None = None
  Jobs <- RoutingJobs
  LaneCapacity = 4
  Window = 2
  ScanCap = 4
  MaxTotal = 6
  Threads = {t1, t2}
  WindowBits = 2
  PageCap = 2
  Routings <- ModuleRoutings
SYMMETRY ThreadSymmetry
INVARIANTS CopyRecovers
CHECK_DEADLOCK FALSE
