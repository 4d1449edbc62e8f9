SPECIFICATION HouseSpec
CONSTANTS
    t1 = t1  t2 = t2
    Callers = {"one", "two", "three", "more"}
    Seats = {s1, s2, s3}
    Tokens = {t1, t2}
    CountOf <- OneAndTwo
    Clients = {c1, c2, c3}
    InstanceOf <- OneInstance
    Loaders = {l1}
    None = None
    MaxLosses = 2
    Hazards = {"overlap", "reply"}
INVARIANTS LedgerConserved
PROPERTIES ImplementsHold BestSeats
CHECK_DEADLOCK FALSE
