SPECIFICATION FairSpec
CONSTANTS
  Threads = {t1, t2}
  SlotCount = 2
  MaxCalls = 3
INVARIANTS TypeOK OwnDecision HandlerOwnsSlot OneCallerPerSlot
PROPERTIES SlotComesBack
