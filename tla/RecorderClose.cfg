CONSTANTS
  None = None
  p1 = p1
  p2 = p2
  q1 = q1
  q2 = q2
  Control = Control
  Threads = {p1, p2}
  Readers = {q1, q2}
  Limit = 1
  MaxVersions = 4
  Capacity = 2
  ContextSlots = 1
  Workloads <- MCWorkloads
SPECIFICATION Spec
INVARIANTS NothingLost
CHECK_DEADLOCK FALSE
