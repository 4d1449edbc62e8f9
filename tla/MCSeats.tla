------------------------------- MODULE MCSeats -------------------------------
(***************************************************************************)
(* SeatLedger and SeatAssignment for TLC.  SeatLedger takes any seats and   *)
(* SeatAssignment says which, on sorted sets of its own, in a house of two  *)
(* rows with a gap and with ids out of order.  The two share no variable,   *)
(* so that it is enough to let one of them move in a behaviour.             *)
(***************************************************************************)
EXTENDS MCSeatLedger

CONSTANT Callers

VARIABLES part, zavailable, zfrozen, zanswer

zsets == <<zavailable, zfrozen, zanswer>>

Seat(i, r, c) == [id |-> i, category |-> 7, row |-> r, col |-> c, price |-> 80]
House == {Seat(9, 1, 1), Seat(2, 1, 2), Seat(3, 1, 4), Seat(4, 1, 5), Seat(5, 1, 6),
          Seat(6, 2, 1), Seat(1, 2, 2), Seat(8, 2, 3), Seat(7, 2, 4)}
Count == [t \in Callers |-> IF t = "one" THEN 1 ELSE IF t = "two" THEN 2 ELSE 3]

Choice == INSTANCE SeatAssignment WITH
    DSeats <- House, Stride <- 7, Tokens <- Callers, CountOf <- Count,
    available <- zavailable, frozen <- zfrozen, answer <- zanswer

ASSUME HouseAssumption == Choice!SeatsAssumption

HouseInit == part \in {"ledger", "assignment"} /\ Init /\ Choice!Init

HouseNext ==
    /\ \/ part = "ledger" /\ Next /\ UNCHANGED zsets
       \/ part = "assignment" /\ Choice!Next /\ UNCHANGED vars
    /\ UNCHANGED part

HouseSpec == HouseInit /\ [][HouseNext]_<<part, vars, zsets>>

\* A freeze takes the best seats, and a repeated one the same (SeatAssignment).
BestSeats == Choice!BestSeats
=============================================================================
