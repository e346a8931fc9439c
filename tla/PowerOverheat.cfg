SPECIFICATION Spec
CONSTANTS
    ChipReadings = {"cool", "hot"}
    VrReadings = {"cool", "hot"}
    VinReadings = {"ok"}
    Faults = {"vcore"}
    Requests = {"pause", "settings"}
    ColdBoot = {FALSE}
    InternalSensor = FALSE
    ThrottleFloor = 1
    FMin = 2
    FMax = 2
    FDefault = 2
    VMin = 3
    VMax = 4
    VDefault = 3
    RegulatorMin = 2
    Reduction = 2
    MaxFailures = 3
    SensorTimeout = 1
    SensorGrace = 1
    MinCoolingCycles = 2
    SaveQueue = 2
PROPERTIES
    RestartsCooled
