CONSTANTS
  Chats = {c1}
  Requests = {r1, r2, r3}
  Buckets = {b1, b2}
  NoRequest = NoRequest
  NoBucket = NoBucket
  QueueCap = 1
  Rate = 2
  IdleTimeout = 2
SPECIFICATION Spec
SYMMETRY Symm
INVARIANTS TypeOK NoLostRequest HeldOnce PauseRemembered
PROPERTY BucketSpacing
