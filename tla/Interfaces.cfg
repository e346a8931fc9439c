SPECIFICATION Spec
CONSTANTS
    MaxAp = 1
    MaxEvents = 3
    MaxLosses = 2
    MaxScans = 1
    Fds = {1, 2}
    MaxClients = 2
    LogSize = 3
    ScanLimit = 2
    ChunkSize = 2
    MaxLine = 2
    MaxWritten = 6
    MaxVersion = 2
    NumTopics = 2
    Expiry = 1
    ClockSize = 16
    SendQueue = 1
    MaxTicks = 2
    MaxValue = 1
    MaxCommands = 2
    MaxMessage = 4
    MaxBytesIn = 8
    GiveUpAfter = 2
    MaxFailures = 4
    MaxEdits = 3
    MaxDrops = 3
    CarouselDelay = 2
    WakeTime = 3
    Timeouts <- MCTimeouts
    IdentifyTime = 2
    MaxChanges = 4
INVARIANTS
    KeepsTrying
    ReachableAndTruthful
    LogStreamIntact
    
    AccessoryCurrent
    LineFits
    ClientOwned
    AlarmOnDisplay
CHECK_DEADLOCK FALSE
