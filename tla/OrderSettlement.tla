-------------------------- MODULE OrderSettlement --------------------------
(***************************************************************************)
(* What order-rpc, pay-rpc and program-rpc together promise about an order  *)
(* once it is written, whatever fails in between: its status only moves     *)
(* forward, money is taken at most once and given back at most once, an     *)
(* order counts as paid only while money was taken for it, and it counts    *)
(* as refunded only after the money went back.                              *)
(***************************************************************************)
EXTENDS Integers

CONSTANTS Orders, Price

VARIABLES
    order,   \* status of the order row, "none" before it is inserted
    bill,    \* status of the pay bill, "none" before there is one
    refund   \* amount of the refund bill, 0 before there is one

Init ==
    /\ order = [o \in Orders |-> "none"]
    /\ bill = [o \in Orders |-> "none"]
    /\ refund = [o \in Orders |-> 0]

\* The next status of an order, given the status of its bill.
Moves(o) ==
    IF order[o] = "none" THEN {"unpaid"}
    ELSE IF order[o] = "unpaid"
         THEN {"cancelled"} \cup (IF bill[o] = "none" THEN {} ELSE {"paid"})
    ELSE IF order[o] \in {"paid", "cancelled"} /\ bill[o] = "refunded"
         THEN {"refunded"}
    ELSE {}

Move(o) ==
    /\ \E s \in Moves(o) : order' = [order EXCEPT ![o] = s]
    /\ UNCHANGED <<bill, refund>>

Charge(o) ==
    /\ order[o] # "none"
    /\ bill[o] = "none"
    /\ bill' = [bill EXCEPT ![o] = "paid"]
    /\ UNCHANGED <<order, refund>>

GiveBack(o) ==
    /\ order[o] \in {"paid", "cancelled", "refunded"}
    /\ bill[o] = "paid"
    /\ bill' = [bill EXCEPT ![o] = "refunded"]
    /\ \E amount \in 1..Price : refund' = [refund EXCEPT ![o] = amount]
    /\ UNCHANGED order

Next == \E o \in Orders : Move(o) \/ Charge(o) \/ GiveBack(o)

Spec == Init /\ [][Next]_<<order, bill, refund>>
=============================================================================
