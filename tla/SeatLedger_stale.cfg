SPECIFICATION Spec
CONSTANTS
    t1 = t1  t2 = t2
    Seats = {s1}
    Tokens = {t1, t2}
    CountOf <- OneEach
    Clients = {c1, c2}
    InstanceOf <- OwnInstance
    Loaders = {l1}
    None = None
    MaxLosses = 2
    Hazards = {"overlap", "reply", "evict", "prime"}
SYMMETRY AllSymmetry
PROPERTY SeatNotStolen
CHECK_DEADLOCK FALSE
