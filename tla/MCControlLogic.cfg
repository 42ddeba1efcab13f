CONSTANTS
    p1 = p1
    t1 = t1
    t2 = t2
    t3 = t3
    Ports <- MCOnePort
    TimerIds <- MCTimerIds
    SlaveIds <- MCSlaveIds
    ManualAddrs <- MCManualAddrs
    Quantities <- MCQuantities
    ConfigValues <- MCConfigValues
    NoPort = NoPort
    NoClient = NoClient
    NoRequest = NoRequest
    NotAnInt = NotAnInt
    NoTimer = NoTimer
SPECIFICATION Spec
INVARIANTS
    TypeOK
    LoopJobTracked
PROPERTY
    ImplementsPeriodicJob
