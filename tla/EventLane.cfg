SPECIFICATION FairSpec
CHECK_DEADLOCK FALSE
CONSTANTS
  Threads = {t1, t2}
  Plugins = {p1, p2}
  None = None
  Host = Host
  Capacity = 2
  PageCap = 2
  MaxSubmits = 3
  MaxCommands = 1
INVARIANTS
  PageIsFaithful
  ExactAccounting
  LostOnlyWhenLapped
PROPERTIES
  PluginCatchesUp
