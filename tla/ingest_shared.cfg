SPECIFICATION FairSpec
CONSTANTS
    Sensors <- MCSensors
    Bodies <- MCBodies
    Readings <- MCReadings
    Retention = 2
    TicksPerSecond = 1
    CounterCap = 3
    MsgIds = {"m1", "m2"}
    Content <- MCContent
    Instances = {"a", "b"}
    Requests = {q1}
    Host <- OneHost
    Idle = Idle
    BatchSize = 1
    MaxLen = 3
    Rejected = {"m1"}
    MaxFaults = 2
    MaxExpiries = 0
INVARIANTS
    AckedIsDurable
    NoSilentLoss
    DuplicatesNeedFaults
    ExtraRowsNeedFaults
    OvertakingNeedsFault
PROPERTIES
    GroupSpec
    EveryMessageServed
