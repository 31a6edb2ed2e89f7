CONSTANTS
  Chats = {c1}
  Requests = {r1, r2, r3}
  Buckets = {b1}
  NoRequest = NoRequest
  NoBucket = NoBucket
  QueueCap = 1
  Rate = 1
  IdleTimeout = 1
SPECIFICATION FairSpec
PROPERTIES EveryWaitReturns CloseReturns
