SPECIFICATION Spec
CONSTANTS
    Sensors <- MCSensors
    Bodies <- MCBodies
    Readings <- MCReadings
    Retention = 2
    TicksPerSecond = 1
    CounterCap = 3
    MsgIds = {"m1", "m2"}
    Content <- MCContent
    Instances = {"a", "b"}
    Requests = {q1}
    Host <- OneHost
    Idle = Idle
    BatchSize = 2
    MaxLen = 2
    Rejected = {}
    MaxFaults = 0
    MaxExpiries = 0
INVARIANTS
    ExactlyOneConsumer
