---------------------------- MODULE MCSeatLedger ----------------------------
(***************************************************************************)
(* Small instances of SeatLedger: orders of one and of two tickets for few  *)
(* seats, handlers in one process or each in its own.                       *)
(***************************************************************************)
EXTENDS SeatLedger, TLC

CONSTANTS t1, t2

OneAndTwo == [t \in Tokens |-> IF t = t2 THEN 2 ELSE 1]
OneEach == [t \in Tokens |-> 1]
OneInstance == [c \in Clients |-> 1]
OwnInstance == [c \in Clients |-> c]

Symmetry == Permutations(Seats) \cup Permutations(Clients) \cup Permutations(Loaders)
AllSymmetry == Symmetry \cup Permutations(Tokens)
=============================================================================
