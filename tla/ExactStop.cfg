SPECIFICATION Spec
CONSTANTS
  Threads = {t1, t2}
  None = None
  Addrs = {1, 2, 3}
  Succ <- ProgramSucc
  Fallthrough <- ProgramFallthrough
  TraceOf <- OwnTraces
  NumSlots = 2
  MaxId = 2
  Entry = 1
  MaxSteps = 1
SYMMETRY ThreadSymmetry
INVARIANTS StopExact StubRewound FreshCallbacks BreakpointArmed
