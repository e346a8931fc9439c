SPECIFICATION BapSpec
CONSTANTS
 NumTopics = 2
 Expiry = 1
 ClockSize = 16
 SendQueue = 1
 MaxTicks = 3
 MaxValue = 1
 MaxCommands = 2
CHECK_DEADLOCK FALSE
INVARIANT ExpiresInTime
