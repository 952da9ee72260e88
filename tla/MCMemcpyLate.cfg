SPECIFICATION Spec
CONSTANTS
  t1 = t1
  t2 = t2
  NoThread = NoThread
  NoData = NoData
  Threads = {t1, t2}
  SlotNum = 1
  Passes = 1
  MaxCopies = 1
  Calls <- LateCalls
  Timeouts = {"lock", "engine"}
INVARIANTS
  CopySound
CHECK_DEADLOCK FALSE
