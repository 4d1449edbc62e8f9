SPECIFICATION Spec
CONSTANTS
    o1 = o1  o2 = o2  o4 = o4
    u1 = u1  u2 = u2  v1 = v1  v2 = v2
    Orders = {o1, o2}
    Users = {u1, u2}
    Viewers = {v1, v2}
    UserOf <- MCUserOf
    ViewersOf <- MCViewersOf
    InitialQuota = 2
    None = None
    Workers = {w1, w2}
    Seats = {s1}
    PerOrderLimit = 1
    PerAccountLimit = 1
    Hazards = {"lease", "rebalance", "crash", "reply", "ttl"}
SYMMETRY Symmetry
INVARIANTS NoConflictingOrders QuotaNeverOvercredited SuccessHasOrder FailedHasNoActiveOrder SingleConsumer
CHECK_DEADLOCK FALSE
