SPECIFICATION Spec
CONSTANTS
  t1 = t1
  t2 = t2
  h1 = h1
  NoThread = NoThread
  NoHandle = NoHandle
  Threads = {t1}
  Handles = {h1}
  RingMsgs = 2
  FifoEntries = 3
  CountedIrq = TRUE
  MaxSeq = 2
  MaxSyncs = 1
  Calls <- HandleSyncCalls
  Timeouts = {}
INVARIANTS
  HandleSyncSound
CHECK_DEADLOCK FALSE
