SPECIFICATION Spec
CONSTANTS
  Slots = {"pool_1", "pool_2", "pool_3"}
  Absent = Absent
  Empty = Empty
  Urls = {"a"}
  Passwords = {"p"}
  QueueSize = 2
  MaxRequests = 3
  MaxCrashes = 1
CHECK_DEADLOCK FALSE
INVARIANTS CacheIsPrefix FlashIsPrefix
PROPERTY RequestReturns
