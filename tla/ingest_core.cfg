SPECIFICATION Spec
CONSTANTS
    Sensors <- MCSensors
    Bodies <- MCBodies
    Readings <- MCReadings
    Retention = 2
    TicksPerSecond = 1
    CounterCap = 5
    MsgIds = {"m1", "m2"}
    Content <- MCContent
    Instances = {"a"}
    Requests = {q1, q2}
    Host <- OneHost
    Idle = Idle
    BatchSize = 2
    MaxLen = 2
    Rejected = {}
    MaxFaults = 2
    MaxExpiries = 1
SYMMETRY RequestSymmetry
INVARIANTS
    TypeOK
    AckedIsDurable
    NoSilentLoss
    OncePerKeyLife
    DuplicatesNeedFaults
    WorksOnPending
    ExtraRowsNeedFaults
    CounterTracksEntries
    OvertakingNeedsFault
PROPERTY
    HotSpec
