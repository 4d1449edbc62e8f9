----------------------------- MODULE TicketSale -----------------------------
(***************************************************************************)
(* What order-rpc promises to sell for one show time: an order is placed    *)
(* at most once, in one step, with a seat for every viewer, and only while  *)
(* no other active order has its user, one of its viewers or one of its     *)
(* seats; an order that has been cancelled stays cancelled.                 *)
(***************************************************************************)
EXTENDS Integers, FiniteSets

CONSTANTS Orders, UserOf, ViewersOf, Seats

VARIABLES status, seats

saleVars == <<status, seats>>

SaleInit ==
    /\ status = [o \in Orders |-> "none"]
    /\ seats = [o \in Orders |-> {}]

Compatible(o, S, p) ==
    /\ UserOf[o] # UserOf[p]
    /\ ViewersOf[o] \cap ViewersOf[p] = {}
    /\ S \cap seats[p] = {}

Place(o, S) ==
    /\ status[o] = "none"
    /\ Cardinality(S) = Cardinality(ViewersOf[o])
    /\ \A p \in Orders : status[p] = "unpaid" => Compatible(o, S, p)
    /\ status' = [status EXCEPT ![o] = "unpaid"]
    /\ seats' = [seats EXCEPT ![o] = S]

Cancel(o) ==
    /\ status[o] = "unpaid"
    /\ status' = [status EXCEPT ![o] = "cancelled"]
    /\ UNCHANGED seats

SaleNext ==
    \E o \in Orders : Cancel(o) \/ \E S \in SUBSET Seats : Place(o, S)

SaleSpec == SaleInit /\ [][SaleNext]_saleVars

=============================================================================
