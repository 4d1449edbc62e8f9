SPECIFICATION Spec
CONSTANTS
    Users = {1, 2}
    Requests = {r1, r2}
    Paths <- EveryPath
    MaxRows = 3
    Bodies <- SomeBodies
    Payer <- PayerOf
    AccessExpire = 2
    ClockSkew = 1
    Claimed = {2}
    Drifts <- Clocks
    PerfPaths <- LoadTest
    Beside <- Rivals
    MaxTime = 4
    MaxRequests = 2
INVARIANTS CallsForCaller
PROPERTY AuthExact
SYMMETRY Symmetry
CHECK_DEADLOCK FALSE
