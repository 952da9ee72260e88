SPECIFICATION Spec
CONSTANTS
  t1 = t1
  t2 = t2
  h1 = h1
  h2 = h2
  NoThread = NoThread
  NoHandle = NoHandle
  Threads = {t1, t2}
  Handles = {h1, h2}
  RingMsgs = 2
  FifoEntries = 2
  CountedIrq = TRUE
  MaxSeq = 3
  MaxSyncs = 1
  Calls <- XpuCalls
  Timeouts = {"send", "sync"}
SYMMETRY Symmetry
INVARIANTS
  TypeOK
  EntriesMatchMessages
  InterruptPerMessage
  NoMarkerLeftBehind
  MarkerFollowsApis
  ThreadSyncSound
  HandleSyncSound
PROPERTIES
  CompletionInOrder
CHECK_DEADLOCK FALSE
