SPECIFICATION PartsSpec
CONSTANTS
  t1 = t1  t2 = t2  t3 = t3
  f1 = f1  f2 = f2  c1 = c1
  m1 = m1  m2 = m2  fn1 = fn1  fn2 = fn2
  JpuThreads <- MCThreads
  JpuFiles = {f1, f2}
  JpuFileOf <- MCFileOf
  JpuCores = {c1}
  JpuNone = JpuNone
  JpuMaxSem = 3
  VppThreads <- MCThreads
  VppNone = VppNone
  LibThreads = {t1, t2}
  LibMods = {m1, m2}
  LibFuncs = {fn1, fn2}
  LibModOf <- MCModOf
  LibNone = LibNone
  LibMaxLoads = 1
  LibMaxId = 2
  DecQueueLen = 2
  DecDepth = 2
  DecExtra = 1
  DecFrames = 1
ACTION_CONSTRAINT
  MCLibQuiet
INVARIANTS
  PartsTypeOK
  JpuPoolExact
  JpuCoresExclusive
  JpuPictureDone
  VppPoolSound
  VppBatchDone
  LibLoadedExact
  LibFunctionsKnown
  DecFramesExact
  DecEndAfterAll
PROPERTIES
  VppServed
  DecCallsReturn
CHECK_DEADLOCK FALSE
