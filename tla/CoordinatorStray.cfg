SPECIFICATION Spec
CONSTANTS
    Tasks = {t1, t2}
    NoTask = NoTask
    ProtocolOf <- V1V1
    Settings <- JustFailover
    EventQueueSize = 2
    MaxRetries = 1
    StopPolls = 1
    PoolHealth = {"down", "good"}
    EnvChanges = {"wifi", "asic"}
    PromptExit = FALSE
    CreateMayFail = FALSE
INVARIANT PausedMeansIdle
