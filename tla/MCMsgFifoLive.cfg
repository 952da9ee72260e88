SPECIFICATION FairSpec
CONSTANTS
  a = a
  b = b
  c = c
  q = q
  f1 = f1
  f2 = f2
  NoApi = NoApi
  FifoWords = 9
  HeaderWords = 4
  Apis <- LiveApis
  PayloadWords <- LivePayload
  FileOf <- LiveFileOf
  Quit = {}
PROPERTIES
  QueueSpec
  WaiterIsServed
  CloseEnds
