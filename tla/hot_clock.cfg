SPECIFICATION ClockSpec
CONSTANTS
    Sensors <- MCSensors
    Bodies <- MCBodies
    Readings <- MCReadings
    Retention = 4
    TicksPerSecond = 2
    CounterCap = 2
    ThroughputTTL = 5
    MaxWindow = 2
    MaxAhead = 1
    MaxTime = 9
INVARIANTS
    ClockTypeOK
    EvictedOnlyByAge
    LatestIsServed
    WindowIsComplete
    RecentIsKept
