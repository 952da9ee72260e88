SPECIFICATION FairSpec
CONSTANTS
  t1 = t1
  t2 = t2
  h1 = h1
  NoThread = NoThread
  NoHandle = NoHandle
  Threads = {t1, t2}
  Handles = {h1}
  RingMsgs = 2
  FifoEntries = 1
  CountedIrq = TRUE
  MaxSeq = 3
  MaxSyncs = 1
  Calls <- ThreadSyncCalls
  Timeouts = {}
PROPERTIES
  ThreadSyncEnds
CHECK_DEADLOCK FALSE
