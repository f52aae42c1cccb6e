CONSTANTS
    c1 = c1
    DrainTime = 5
    ShutdownTimeout = 15
    KillAfter = 10
    ProbeInterval = 5
    RetryDuration = 10
    CheckTime = 1
    StartupTime = 2
    Clients = {c1}
    MaxAge = 15
    MaxStops = 1
    MaxCrashes = 1
    MaxOutages = 1
SPECIFICATION Spec
INVARIANTS
    TypeOK
    GraceIsGiven
    ClosedServerIsLeft
PROPERTIES
    Stops
    ReadyInTheEnd
