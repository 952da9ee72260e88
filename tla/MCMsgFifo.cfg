SPECIFICATION Spec
CONSTANTS
  a = a
  b = b
  c = c
  q = q
  f1 = f1
  f2 = f2
  NoApi = NoApi
  FifoWords = 11
  HeaderWords = 4
  Apis <- MCApis
  PayloadWords <- MCPayload
  FileOf <- MCFileOf
  Quit = {q}
INVARIANTS
  TypeOK
  OccupancyExact
  QueuedIntact
  PointersAligned
  ClosedFileInvalidated
  ResultIsForMessage
