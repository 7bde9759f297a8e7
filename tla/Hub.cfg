SPECIFICATION Spec
CONSTANTS
  h1 = h1
  h2 = h2
  a1 = a1
  s1 = s1
  n1 = n1
  None = None
  Human = {h1, h2}
  Ai = {a1}
  System = {s1}
  JournalCapacity = 2
  Addrs = {1, 2}
  Exports = {1, 2}
  HookCapacity = 1
  BpIds = {1, 2}
  Names = {n1}
  Processes = {1, 2}
  SelectionCap = 1
  MaxFaults = 1
  Workloads <- MCWorkloads
INVARIANTS JournalSettled ScriptsAgree SoleWriterBooks
PROPERTIES LeaseRefined CallReturns
CHECK_DEADLOCK FALSE
