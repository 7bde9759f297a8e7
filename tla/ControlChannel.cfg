SPECIFICATION FairSpec
CONSTANTS
  Threads = {t1, t2}
  None = None
  MaxSlowStops = 1
  MaxFailures = 1
INVARIANTS TypeOK ServedStopIsFrozen ResumeOnlyFrozen NoParkDuringStop
PROPERTIES HitLeadsToStop StepEnds
\* Pin's VM may end the process
CHECK_DEADLOCK FALSE
