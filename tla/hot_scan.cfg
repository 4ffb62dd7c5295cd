SPECIFICATION ScanSpec
CONSTANTS
    Sensors <- MCSensors
    Bodies <- MCBodies
    Readings <- MCReadings
    Retention = 2
    TicksPerSecond = 8
    CounterCap = 1
    Sensor = "s1"
    From = 0
    To = 4
    Limit = 2
    MemberRank <- MCMemberRank
INVARIANTS
    ScanTypeOK
    ScanMissesNothing
PROPERTY
    LatestNeverRecedes
