SPECIFICATION Spec
CONSTANTS
    a = a
    b = b
    Sessions <- MCSessions
    MaxMsgs = 3
    SessionOf <- MCSessionOf
    Zone <- MCZone
    Day = 3
    Hour = 1
    Spread = 2
    Limit = 2
    Budget = 2
    MinDelay = 1
    MaxDelay = 1
    Opens = 2
    Closes = 1
    Ramp <- MCRamp
    CapMax = 2
    CapDays = 1
    HourCap = 0
    PauseAfter = 1
    MaxEvents = 1
INVARIANTS
    TypeOK
    WithinCaps
    FailuresPause
PROPERTIES
    PacedUnlessLost
    OptOutBeforeRun
    QueueDrains
