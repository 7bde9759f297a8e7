CONSTANTS
  None = None
  t1 = t1
  t2 = t2
  w1 = w1
  w2 = w2
  Threads = {t1, t2}
  Writers = {w1, w2}
  Entries = {1, 3}
  RetOf <- MCRetOf
  Routine <- MCRoutine
  Window = 1
  HookCapacity = 3
  FrameCap = 2
  Kinds = {"exec"}
  MaxStack = 2
  Workloads <- MCWorkloads
SPECIFICATION Spec
INVARIANTS SnapshotAlive CodeCurrent ReturnsPair ActedOnce EnginesSettle
CHECK_DEADLOCK FALSE
