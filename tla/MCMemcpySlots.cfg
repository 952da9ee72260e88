SPECIFICATION Spec
CONSTANTS
  t1 = t1
  t2 = t2
  t3 = t3
  t4 = t4
  NoThread = NoThread
  NoData = NoData
  Threads = {t1, t2, t3, t4}
  SlotNum = 2
  Passes = 1
  MaxCopies = 1
  Calls <- SlotCalls
  Timeouts = {"lock", "engine"}
SYMMETRY Symmetry
INVARIANTS
  TypeOK
  SlotsAccounted
  NoLostWakeup
CHECK_DEADLOCK FALSE
