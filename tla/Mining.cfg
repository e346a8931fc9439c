SPECIFICATION MiningSpec
CONSTANTS
    Ring = 2
    TimingSlots = 2
    QueueLength = 2
    MaxRetries = 2
    MaxJob = 3
    MaxHash = 2
    MaxShare = 3
    MaxSession = 2
    IdSlots = 3
    MaxBytes = 3
    MaxChunk = 2
    V1Retries = 2
    MaxLines = 2
    MaxV1Shares = 2
    MaxV1Sessions = 2
    BoardSize = 3
    MaxBest = 5
    MaxResets = 1
    SampleCount = 5
    Frequency = 2
    MaxClock = 12
    Domains = {1}
    Expected = 1
    Loops = 2
    MaxMeasure = 3
    MaxNonces = 2
    MaxBoots = 2
    Presets <- MCPresets
    UserValues = {3, 7, 9}
    Warmup = 2
    Interval = 2
    Cooldown = 1
    Window = 2
    Families = {"turbo", "hex", "gamma"}
    Asked = {1150, 5000}
    Attempts = 2
    MaxGlitches = 2
    MaxRegResets = 1
    Size = 2
    Producers = {v1, v2}
    Consumers = {jobs}
    Clearers = {coord}
    Items = {j1, j2, j3, j4}
    FreeFns = {free_job}
    None = None
INVARIANTS
    JobsOnNewestHash
    ResponseTimeNotStale
    LinesWhole
    VerdictsCounted
    ScoreboardSurvives
    SamplesInOrder
    TestEarned
    NeverRash
    OutputAsAsked
    LimitsProgrammed
    NoMissedWakeup
CHECK_DEADLOCK FALSE
