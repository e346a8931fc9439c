SPECIFICATION Spec
CONSTANTS
  Slots = {"pool_1", "pool_2", "pool_3"}
  Absent = Absent
  Empty = Empty
  Urls = {"a"}
  Passwords = {"p"}
  QueueSize = 2
  MaxRequests = 1
  MaxCrashes = 0
CHECK_DEADLOCK FALSE
INVARIANT OverclockHonoured
