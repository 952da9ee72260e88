SPECIFICATION Spec
CONSTANTS
  t1 = t1
  t2 = t2
  h1 = h1
  NoThread = NoThread
  NoHandle = NoHandle
  Threads = {t1, t2}
  Handles = {h1}
  RingMsgs = 1
  FifoEntries = 3
  CountedIrq = FALSE
  MaxSeq = 4
  MaxSyncs = 1
  Calls <- ListCalls
  Timeouts = {"query"}
INVARIANTS
  CpuEntryFound
  QueryHasItsEntry
  CpuMarkerFollowsApis
CHECK_DEADLOCK FALSE
