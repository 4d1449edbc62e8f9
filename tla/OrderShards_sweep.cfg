SPECIFICATION Spec
CONSTANTS
    u1 = u1  u2 = u2  c1 = c1  c2 = c2
    Users = {u1, u2}
    Genes <- MCGenes
    GeneRange = 2
    WorkerRange = 2
    SequenceRange = 2
    WorkerID = 1
    Callers = {c1, c2}
    RouteOf <- MCRouteOf
    PageSize = 1
    MinQuery = 1
    SweepLimits = {1, 2}
    FirstSlot = 1
    LastSlot = 2
    PayWindow = 1
    MaxClock = 3
    MaxNumbers = 5
    MaxRows = 2
SYMMETRY Symmetry
INVARIANTS DuplicateNeedsWait StoredWhereSought SweepExact
CHECK_DEADLOCK FALSE
