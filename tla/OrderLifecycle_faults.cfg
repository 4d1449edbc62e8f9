SPECIFICATION Spec
CONSTANTS
    Orders = {o1, o2}
    Seats = {s1}
    SeatsOf <- MCSeatsOf
    Price = 2
    Percents = {0, 50}
    Handlers = {h1, h2}
    Hazards = {"error", "crash", "lease"}
    None = None
SYMMETRY Symmetry
INVARIANTS NoSeatSoldTwice SoldWasCharged PaidKeepsSeats ViewAgrees
PROPERTIES Settled
CHECK_DEADLOCK FALSE
