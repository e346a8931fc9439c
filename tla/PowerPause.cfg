SPECIFICATION FairSpec
CONSTANTS
    ChipReadings = {"none", "cool", "warm"}
    VrReadings = {"cool"}
    VinReadings = {"ok", "low", "absent"}
    Faults = {"vcore", "chips", "fan", "power_sensor"}
    Requests = {"pause", "pools"}
    ColdBoot = {TRUE, FALSE}
    InternalSensor = FALSE
    ThrottleFloor = 1
    FMin = 5
    FMax = 5
    FDefault = 4
    VMin = 3
    VMax = 3
    VDefault = 3
    RegulatorMin = 2
    Reduction = 2
    MaxFailures = 3
    SensorTimeout = 2
    SensorGrace = 4
    MinCoolingCycles = 3
    SaveQueue = 2
INVARIANTS
    StoppedMeansDown
    RunningMeansUp
PROPERTIES
    FaultStopsForGood
    PauseEnds
