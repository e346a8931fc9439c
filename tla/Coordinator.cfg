SPECIFICATION FairSpec
CONSTANTS
    Tasks = {t1, t2}
    NoTask = NoTask
    ProtocolOf <- V2V1
    Settings <- AllSettings
    EventQueueSize = 2
    MaxRetries = 2
    StopPolls = 1
    PoolHealth = {"down", "rejecting", "good"}
    EnvChanges = {"wifi", "asic"}
    PromptExit = TRUE
    CreateMayFail = FALSE
INVARIANTS
    OneTask
    PausedMeansIdle
    NoForeignWork
PROPERTIES
    MiningComesBack
