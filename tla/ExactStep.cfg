SPECIFICATION Spec
CONSTANTS
  Threads = {t1}
  None = None
  Addrs = {1, 2, 3}
  Succ <- ProgramSucc
  Fallthrough <- ProgramFallthrough
  TraceOf <- OwnTraces
  NumSlots = 1
  MaxId = 0
  Entry = None
  MaxSteps = 2
INVARIANTS ExactPosition
