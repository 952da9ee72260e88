SPECIFICATION FairSpec
CONSTANTS
  t1 = t1
  t2 = t2
  NoThread = NoThread
  NoData = NoData
  Threads = {t1, t2}
  SlotNum = 1
  Passes = 2
  MaxCopies = 1
  Calls <- AllCalls
  Timeouts = {}
INVARIANTS
  CopySound
  EngineExclusive
PROPERTIES
  CopyEnds
CHECK_DEADLOCK FALSE
