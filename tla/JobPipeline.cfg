CONSTANTS
    None = None
    PoolLists <- V1AndV2
    QueueSize = 1
    Slots = 2
    MaxJobs = 2
    MaxSessions = 2
    MaxRolls = 2
SPECIFICATION Spec
INVARIANTS CastSafe JobsFreedOnce NoRepeatedWork ShareIntact
