CONSTANTS
    LongWidth = 5
    Windows <- ThreeWindows
    MinStartupBackoff = 4
    MaxBackoff = 16
    Timeout = 150
    MinDelay = 2
    MaxAttemptTime = 2
SPECIFICATION FairSpec
CHECK_DEADLOCK FALSE
INVARIANTS
    TypeOK
    ReturnsLoaded
    CrashesSlowly
    AttemptRate
    OverInTime
PROPERTIES
    EndsInTime
    Terminates
