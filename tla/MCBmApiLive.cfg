SPECIFICATION FairSpec
CONSTANTS
  t1 = t1
  t2 = t2
  h1 = h1
  NoThread = NoThread
  NoHandle = NoHandle
  Threads = {t1, t2}
  Handles = {h1}
  RingMsgs = 2
  FifoEntries = 3
  CountedIrq = FALSE
  MaxSeq = 3
  MaxSyncs = 1
  Calls <- LiveCalls
  Timeouts = {}
PROPERTIES
  MessagesComplete
  ThreadSyncEnds
CHECK_DEADLOCK FALSE
