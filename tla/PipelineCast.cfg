CONSTANTS
    None = None
    PoolLists <- StandardAndExtended
    QueueSize = 1
    Slots = 2
    MaxJobs = 2
    MaxSessions = 2
    MaxRolls = 2
SPECIFICATION Spec
INVARIANT CastSafe
