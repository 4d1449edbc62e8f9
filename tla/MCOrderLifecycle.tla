-------------------------- MODULE MCOrderLifecycle --------------------------
(* Small instance of OrderLifecycle: orders that want the same seat.        *)
EXTENDS OrderLifecycle, TLC

MCSeatsOf == [o \in Orders |-> Seats]

Symmetry == Permutations(Handlers) \cup Permutations(Orders)
=============================================================================
