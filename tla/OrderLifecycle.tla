--------------------------- MODULE OrderLifecycle ---------------------------
(***************************************************************************)
(* The life of an order after its creation: PayOrder, PayCheck,             *)
(* RefundOrder, CancelOrder, CloseExpiredOrder and CloseExpiredOrders of    *)
(* order-rpc, step by step, with the pay bills of pay-rpc and the seat rows *)
(* of program-rpc they change.  A step is a local transaction of one        *)
(* service or one call of another.  The creation of the order (RushOrder)   *)
(* and the seat ledger (SeatLedger) are reduced to what they leave in the   *)
(* two databases.                                                           *)
(***************************************************************************)
EXTENDS Integers, FiniteSets

CONSTANTS
    Orders,    \* order numbers; the freeze token of an order is its number
    Seats,
    SeatsOf,   \* the seats of an order's ticket rows
    Price,     \* order_price
    Percents,  \* what the stages of the refund rule give back, in percent
    Handlers,  \* calls being served by the order-rpc processes
    Hazards,   \* which of "error", "crash" and "lease" can happen
    None

ASSUME LifecycleAssumption ==
    /\ SeatsOf \in [Orders -> (SUBSET Seats) \ {{}}]
    /\ Price \in Nat \ {0}
    /\ Percents \subseteq 0..100
    /\ None \notin Orders \cup Handlers

VARIABLES
    order,       \* d_order.order_status
    expired,     \* orders whose order_expire_time has passed
    guards,      \* orders whose user, viewer and seat guard rows exist
    bill,        \* d_pay_bill.pay_status
    refund,      \* d_refund_bill.refund_amount, 0 without a row
    seatStatus,  \* d_seat.seat_status
    freezeToken, \* d_seat.freeze_token; a sold seat keeps it
    lock,        \* the handler that holds the etcd lock of an order's status
    call,        \* what a handler is doing
    doubled      \* history: orders with two RefundOrder calls at a time

dbVars == <<order, guards>>
payVars == <<bill, refund>>
seatVars == <<seatStatus, freezeToken>>
vars == <<dbVars, expired, payVars, seatVars, lock, call, doubled>>

-----------------------------------------------------------------------------
OrderStatuses == {"none", "unpaid", "cancelled", "paid", "refunded"}

\* pay-rpc writes a bill as paid: the status "created" is never stored.
PayStatuses == {"none", "paid", "refunded"}

Ops == {"pay", "check", "refund", "cancel", "close"}

\* Where a handler can be between two of its steps.
Points == {"load", "mockpay", "confirm", "finalize", "bill", "evaluate",
           "payrefund", "release", "converge"}

Idle == [op |-> "idle"]

Calls == [op : Ops, at : Points, order : Orders, amount : 0..Price]

TypeOK ==
    /\ order \in [Orders -> OrderStatuses]
    /\ expired \subseteq Orders
    /\ guards \subseteq Orders
    /\ bill \in [Orders -> PayStatuses]
    /\ refund \in [Orders -> 0..Price]
    /\ seatStatus \in [Seats -> {"free", "frozen", "sold"}]
    /\ freezeToken \in [Seats -> Orders \cup {None}]
    /\ lock \in [Orders -> Handlers \cup {None}]
    /\ call \in [Handlers -> Calls \cup {Idle}]
    /\ doubled \subseteq Orders

Init ==
    /\ order = [o \in Orders |-> "none"]
    /\ expired = {}
    /\ guards = {}
    /\ bill = [o \in Orders |-> "none"]
    /\ refund = [o \in Orders |-> 0]
    /\ seatStatus = [s \in Seats |-> "free"]
    /\ freezeToken = [s \in Seats |-> None]
    /\ lock = [o \in Orders |-> None]
    /\ call = [h \in Handlers |-> Idle]
    /\ doubled = {}

At(h, op, at) == call[h] # Idle /\ call[h].op = op /\ call[h].at = at

GotoWith(h, at, amount) ==
    call' = [call EXCEPT ![h] = [op |-> call[h].op, at |-> at,
                                 order |-> call[h].order, amount |-> amount]]

Goto(h, at) == GotoWith(h, at, call[h].amount)

\* The deferred unlock gives back the handler's own lease, nothing else.
Unlocked(h, o) == [lock EXCEPT ![o] = IF @ = h THEN None ELSE @]

Return(h) ==
    /\ call' = [call EXCEPT ![h] = Idle]
    /\ lock' = Unlocked(h, call[h].order)

-----------------------------------------------------------------------------
(* The seat rows of program-rpc.                                            *)

HeldBy(o) == {s \in Seats : freezeToken[s] = o}

SetSeats(S, status, token) ==
    /\ seatStatus' = [s \in Seats |-> IF s \in S THEN status ELSE seatStatus[s]]
    /\ freezeToken' = [s \in Seats |-> IF s \in S THEN token ELSE freezeToken[s]]

\* ConfirmSeatFreeze answers with success.
ConfirmAllowed(o) ==
    /\ HeldBy(o) # {}
    /\ \/ \A s \in HeldBy(o) : seatStatus[s] = "sold"
       \/ \A s \in HeldBy(o) : seatStatus[s] = "frozen"

ConfirmSeatFreeze(o) == SetSeats(HeldBy(o), "sold", o)

\* Faulty: sold seats are released as well.
ReleaseAllowedAlways(o) == TRUE

\* ReleaseSeatFreeze answers with success.
ReleaseAllowed(o) == \A s \in HeldBy(o) : seatStatus[s] = "frozen"

ReleaseSeatFreeze(o) == SetSeats(HeldBy(o), "free", None)

\* The rows are found, and locked, by the seat ids that the order names.
FindByShowTimeAndIDsForUpdate(o) == SeatsOf[o]

\* ReleaseSoldSeats of the seats of o: any of them that is frozen refuses the
\* call; for whom a seat is sold is not looked at.
ReleaseSoldAllowed(o) ==
    \A s \in FindByShowTimeAndIDsForUpdate(o) : seatStatus[s] # "frozen"

ReleaseSoldSeats(o) == SetSeats(SeatsOf[o], "free", None)

-----------------------------------------------------------------------------
(* How orders come into being: the freeze, and the transaction that inserts *)
(* the order with its guards or, on a conflict, gives the seats back.       *)

Freeze(o) ==
    /\ order[o] = "none"
    /\ HeldBy(o) = {}
    /\ \A s \in SeatsOf[o] : seatStatus[s] = "free"
    /\ SetSeats(SeatsOf[o], "frozen", o)
    /\ UNCHANGED <<dbVars, expired, payVars, lock, call, doubled>>

\* Faulty: the guard of a seat is not unique.
GuardConflictNever(o) == FALSE

GuardConflict(o) == \E p \in guards : SeatsOf[p] \cap SeatsOf[o] # {}

Insert(o) ==
    /\ order[o] = "none"
    /\ HeldBy(o) = SeatsOf[o]
    /\ IF GuardConflict(o)
       THEN /\ ReleaseSeatFreeze(o)
            /\ UNCHANGED dbVars
       ELSE /\ order' = [order EXCEPT ![o] = "unpaid"]
            /\ guards' = guards \cup {o}
            /\ UNCHANGED seatVars
    /\ UNCHANGED <<expired, payVars, lock, call, doubled>>

\* Once the order is not unpaid the time makes no difference any more.
Expire(o) ==
    /\ order[o] = "unpaid"
    /\ o \notin expired
    /\ expired' = expired \cup {o}
    /\ UNCHANGED <<dbVars, payVars, seatVars, lock, call, doubled>>

-----------------------------------------------------------------------------
(* The statements of the order transactions; the ticket rows of an order    *)
(* are set by the same transactions to the same status.                     *)

UpdateCancelStatus(o) == [order EXCEPT ![o] = IF @ = "unpaid" THEN "cancelled" ELSE @]

UpdatePayStatus(o) == [order EXCEPT ![o] = IF @ = "unpaid" THEN "paid" ELSE @]

UpdateRefundStatus(o) ==
    [order EXCEPT ![o] = IF @ \in {"cancelled", "paid"} THEN "refunded" ELSE @]

DeleteGuardsByOrderNumber(o) == guards \ {o}

-----------------------------------------------------------------------------
(* Starting a call.  PayOrder, CancelOrder and the two closes take the lock *)
(* and are refused as too frequent when it is held; PayCheck and            *)
(* RefundOrder take none.                                                   *)

Begin(h, o, op, at) ==
    /\ order[o] # "none"
    /\ call[h] = Idle
    /\ call' = [call EXCEPT ![h] = [op |-> op, at |-> at, order |-> o, amount |-> 0]]

TakeLock(h, o) ==
    /\ lock[o] = None
    /\ lock' = [lock EXCEPT ![o] = h]

StartLocked(h, o, op) ==
    /\ Begin(h, o, op, "load")
    /\ TakeLock(h, o)
    /\ UNCHANGED <<dbVars, expired, payVars, seatVars, doubled>>

PayOrder(h, o) == StartLocked(h, o, "pay")

CancelOrder(h, o) == StartLocked(h, o, "cancel")

CloseExpiredOrder(h, o) == StartLocked(h, o, "close")

\* The sweep cancels the orders it finds expired one after the other.
CloseExpiredOrders(h, o) ==
    /\ order[o] = "unpaid" /\ o \in expired
    /\ StartLocked(h, o, "cancel")

PayCheck(h, o) ==
    /\ Begin(h, o, "check", "load")
    /\ UNCHANGED <<dbVars, expired, payVars, seatVars, lock, doubled>>

Refunding(o) ==
    {g \in Handlers : call[g] # Idle /\ call[g].op = "refund" /\ call[g].order = o}

RefundOrder(h, o) ==
    /\ Begin(h, o, "refund", "load")
    /\ doubled' = IF Refunding(o) = {} THEN doubled ELSE doubled \cup {o}
    /\ UNCHANGED <<dbVars, expired, payVars, seatVars, lock>>

-----------------------------------------------------------------------------
(* PayOrder                                                                 *)

\* A read in a transaction of its own: its row lock is gone when the caller
\* looks at the snapshot.
LoadOrderSnapshot(o) == order[o]

\* Any other status is answered without a change.
PayLoad(h) ==
    LET o == call[h].order IN
    /\ At(h, "pay", "load")
    /\ IF LoadOrderSnapshot(o) = "unpaid" /\ o \notin expired
       THEN Goto(h, "mockpay") /\ UNCHANGED lock
       ELSE Return(h)
    /\ UNCHANGED <<dbVars, expired, payVars, seatVars, doubled>>

\* Faulty: the seats are confirmed before the bill is written.
PayMockPayLate(h) ==
    /\ At(h, "pay", "mockpay")
    /\ Goto(h, "confirm")
    /\ UNCHANGED <<dbVars, expired, payVars, seatVars, lock, doubled>>

\* The bill of the order, whose row (or gap) the transaction locks.
FindBillForUpdate(o) == bill[o]

InsertPayBill(o) == [bill EXCEPT ![o] = "paid"]

\* Faulty: the bill of the order is written anew.
MockPayAgain(o) == InsertPayBill(o)

\* MockPay returns the bill of the order, whatever its status, or writes one.
MockPay(o) == IF FindBillForUpdate(o) = "none" THEN InsertPayBill(o) ELSE bill

PayMockPay(h) ==
    /\ At(h, "pay", "mockpay")
    /\ bill' = MockPay(call[h].order)
    /\ Goto(h, "confirm")
    /\ UNCHANGED <<dbVars, expired, refund, seatVars, lock, doubled>>

PayConfirm(h) ==
    LET o == call[h].order IN
    /\ At(h, "pay", "confirm")
    /\ IF ConfirmAllowed(o)
       THEN ConfirmSeatFreeze(o) /\ Goto(h, "finalize") /\ UNCHANGED lock
       ELSE Return(h) /\ UNCHANGED seatVars
    /\ UNCHANGED <<dbVars, expired, payVars, doubled>>

FinalizeOrderPay(h) ==
    LET o == call[h].order IN
    /\ At(h, "pay", "finalize")
    /\ order' = UpdatePayStatus(o)
    /\ Return(h)
    /\ UNCHANGED <<guards, expired, payVars, seatVars, doubled>>

-----------------------------------------------------------------------------
(* CancelOrder and the sweep CloseExpiredOrders: cancelOrderWithLock.       *)

CancelOrderTx(o) ==
    /\ order' = UpdateCancelStatus(o)
    /\ guards' = DeleteGuardsByOrderNumber(o)

CancelLoad(h) ==
    /\ At(h, "cancel", "load")
    /\ IF LoadOrderSnapshot(call[h].order) = "unpaid"
       THEN Goto(h, "release") /\ UNCHANGED lock
       ELSE Return(h)
    /\ UNCHANGED <<dbVars, expired, payVars, seatVars, doubled>>

CancelRelease(h) ==
    LET o == call[h].order IN
    /\ At(h, "cancel", "release")
    /\ IF ReleaseAllowed(o)
       THEN ReleaseSeatFreeze(o) /\ Goto(h, "finalize") /\ UNCHANGED lock
       ELSE Return(h) /\ UNCHANGED seatVars
    /\ UNCHANGED <<dbVars, expired, payVars, doubled>>

FinalizeOrderCancel(h) ==
    LET o == call[h].order IN
    /\ At(h, "cancel", "finalize")
    /\ IF order[o] = "unpaid" THEN CancelOrderTx(o) ELSE UNCHANGED dbVars
    /\ Return(h)
    /\ UNCHANGED <<expired, payVars, seatVars, doubled>>

-----------------------------------------------------------------------------
(* CloseExpiredOrder: the transaction first, the seats afterwards.          *)

CloseTx(h) ==
    LET o == call[h].order IN
    /\ At(h, "close", "load")
    /\ IF order[o] = "unpaid" /\ o \in expired
       THEN CancelOrderTx(o) /\ Goto(h, "release") /\ UNCHANGED lock
       ELSE Return(h) /\ UNCHANGED dbVars
    /\ UNCHANGED <<expired, payVars, seatVars, doubled>>

\* An error of the release is logged.
CloseRelease(h) ==
    LET o == call[h].order IN
    /\ At(h, "close", "release")
    /\ IF ReleaseAllowed(o) THEN ReleaseSeatFreeze(o) ELSE UNCHANGED seatVars
    /\ Return(h)
    /\ UNCHANGED <<dbVars, expired, payVars, doubled>>

-----------------------------------------------------------------------------
(* Refund of pay-rpc: one transaction.  A refund bill that exists is        *)
(* returned; otherwise the bill must be paid and the amount positive and    *)
(* covered by it.                                                           *)

HasRefundBill(o) == refund[o] > 0

RefundAllowed(o, amount) ==
    amount > 0 /\ (HasRefundBill(o) \/ (FindBillForUpdate(o) = "paid" /\ amount <= Price))

InsertRefundBill(o, amount) == [refund EXCEPT ![o] = amount]

UpdateBillRefunded(o) == [bill EXCEPT ![o] = "refunded"]

Refund(o, amount) ==
    IF HasRefundBill(o)
    THEN UNCHANGED payVars
    ELSE /\ bill' = UpdateBillRefunded(o)
         /\ refund' = InsertRefundBill(o, amount)

\* GetPayBill, as order-rpc sees its answer.
GetPayBill(o) == bill[o]

(* PayCheck                                                                 *)

CheckLoad(h) ==
    /\ At(h, "check", "load")
    /\ IF order[call[h].order] = "cancelled"
       THEN Goto(h, "bill") /\ UNCHANGED lock
       ELSE Return(h)
    /\ UNCHANGED <<dbVars, expired, payVars, seatVars, doubled>>

CheckBill(h) ==
    LET o == call[h].order IN
    /\ At(h, "check", "bill")
    /\ \/ GetPayBill(o) = "none" /\ Return(h)
       \/ /\ GetPayBill(o) = "paid"
          /\ GotoWith(h, "payrefund", Price)
          /\ UNCHANGED lock
       \/ GetPayBill(o) = "refunded" /\ Goto(h, "converge") /\ UNCHANGED lock
    /\ UNCHANGED <<dbVars, expired, payVars, seatVars, doubled>>

(* RefundOrder.  A refunded order only asks pay-rpc for its refund bill.    *)

RefundLoad(h) ==
    LET o == call[h].order IN
    /\ At(h, "refund", "load")
    /\ \/ order[o] = "refunded" /\ RefundAllowed(o, Price) /\ Refund(o, Price) /\ Return(h)
       \/ order[o] = "refunded" /\ ~RefundAllowed(o, Price) /\ Return(h) /\ UNCHANGED payVars
       \/ order[o] = "paid" /\ Goto(h, "bill") /\ UNCHANGED <<payVars, lock>>
       \/ order[o] \notin {"paid", "refunded"} /\ Return(h) /\ UNCHANGED payVars
    /\ UNCHANGED <<dbVars, expired, seatVars, doubled>>

RefundBill(h) ==
    LET o == call[h].order IN
    /\ At(h, "refund", "bill")
    /\ \/ GetPayBill(o) = "none" /\ Return(h)
       \/ GetPayBill(o) = "paid" /\ Goto(h, "evaluate") /\ UNCHANGED lock
       \/ /\ GetPayBill(o) = "refunded"
          /\ GotoWith(h, "payrefund", Price)
          /\ UNCHANGED lock
    /\ UNCHANGED <<dbVars, expired, payVars, seatVars, doubled>>

\* evaluateRefundRule, for the stage that the time before the show selects.
RefundAmount(percent) == (Price * percent) \div 100

\* EvaluateRefundRule: no refund now, or the percentage of a stage.
RefundEvaluate(h) ==
    /\ At(h, "refund", "evaluate")
    /\ \/ Return(h)
       \/ \E p \in Percents :
             /\ GotoWith(h, "payrefund", RefundAmount(p))
             /\ UNCHANGED lock
    /\ UNCHANGED <<dbVars, expired, payVars, seatVars, doubled>>

\* Faulty: an error of pay-rpc does not stop the handler.
CallRefundGoesOn(h) ==
    LET o == call[h].order IN
    /\ \E op \in {"check", "refund"} : At(h, op, "payrefund")
    /\ IF RefundAllowed(o, call[h].amount)
       THEN Refund(o, call[h].amount) ELSE UNCHANGED payVars
    /\ Goto(h, IF call[h].op = "check" THEN "converge" ELSE "release")
    /\ UNCHANGED <<dbVars, expired, seatVars, lock, doubled>>

\* The call of pay-rpc in PayCheck and in RefundOrder.
CallRefund(h) ==
    LET o == call[h].order IN
    /\ \E op \in {"check", "refund"} : At(h, op, "payrefund")
    /\ IF RefundAllowed(o, call[h].amount)
       THEN /\ Refund(o, call[h].amount)
            /\ Goto(h, IF call[h].op = "check" THEN "converge" ELSE "release")
            /\ UNCHANGED lock
       ELSE Return(h) /\ UNCHANGED payVars
    /\ UNCHANGED <<dbVars, expired, seatVars, doubled>>

\* The sale may have been opened for the rush since the rule was evaluated:
\* then, as with a frozen seat, the call fails.
RefundRelease(h) ==
    LET o == call[h].order IN
    /\ At(h, "refund", "release")
    /\ \/ /\ ReleaseSoldAllowed(o)
          /\ ReleaseSoldSeats(o)
          /\ Goto(h, "converge")
          /\ UNCHANGED lock
       \/ Return(h) /\ UNCHANGED seatVars
    /\ UNCHANGED <<dbVars, expired, payVars, doubled>>

ConvergeOrderRefunded(h) ==
    LET o == call[h].order IN
    /\ \E op \in {"check", "refund"} : At(h, op, "converge")
    /\ IF order[o] \in {"paid", "cancelled"}
       THEN /\ order' = UpdateRefundStatus(o)
            /\ guards' = DeleteGuardsByOrderNumber(o)
       ELSE UNCHANGED dbVars
    /\ Return(h)
    /\ UNCHANGED <<expired, payVars, seatVars, doubled>>

-----------------------------------------------------------------------------
(* Failures.  A call that fails, or whose answer is lost after it took      *)
(* effect, ends the handler with an error; a crash leaves the lock to its   *)
(* lease; and the lease ends after SessionTTL, whether the handler still    *)
(* works or not, because nothing keeps it alive.                            *)

Fail(h) ==
    /\ "error" \in Hazards
    /\ call[h] # Idle
    /\ Return(h)
    /\ UNCHANGED <<dbVars, expired, payVars, seatVars, doubled>>

Crash(h) ==
    /\ "crash" \in Hazards
    /\ call[h] # Idle
    /\ call' = [call EXCEPT ![h] = Idle]
    /\ UNCHANGED <<dbVars, expired, payVars, seatVars, lock, doubled>>

LeaseEnds(o) ==
    /\ "lease" \in Hazards
    /\ lock[o] # None
    /\ lock' = [lock EXCEPT ![o] = None]
    /\ UNCHANGED <<dbVars, expired, payVars, seatVars, call, doubled>>

Step(h) ==
    \/ PayLoad(h) \/ PayMockPay(h) \/ PayConfirm(h) \/ FinalizeOrderPay(h)
    \/ CancelLoad(h) \/ CancelRelease(h) \/ FinalizeOrderCancel(h)
    \/ CloseTx(h) \/ CloseRelease(h)
    \/ CheckLoad(h) \/ CheckBill(h)
    \/ RefundLoad(h) \/ RefundBill(h) \/ RefundEvaluate(h)
    \/ CallRefund(h) \/ RefundRelease(h) \/ ConvergeOrderRefunded(h)

Next ==
    \/ \E o \in Orders : Freeze(o) \/ Insert(o) \/ Expire(o) \/ LeaseEnds(o)
    \/ \E h \in Handlers, o \in Orders :
          \/ PayOrder(h, o) \/ CancelOrder(h, o)
          \/ CloseExpiredOrder(h, o) \/ CloseExpiredOrders(h, o)
          \/ PayCheck(h, o) \/ RefundOrder(h, o)
    \/ \E h \in Handlers : Step(h) \/ Fail(h) \/ Crash(h)

Spec == Init /\ [][Next]_vars

-----------------------------------------------------------------------------
(* Properties                                                               *)

Live(o) == order[o] \in {"unpaid", "paid"}

\* Two orders that are unpaid or paid never have a seat in common, even when
\* a late refund of a third order has freed a seat that was sold again.
NoSeatSoldTwice ==
    \A o, p \in Orders : o # p /\ Live(o) /\ Live(p) => SeatsOf[o] \cap SeatsOf[p] = {}

\* Seats are marked as sold only for an order with a bill: whatever handler
\* stops where, nobody holds a seat he never paid for.
SoldWasCharged ==
    \A s \in Seats : seatStatus[s] = "sold" =>
        freezeToken[s] \in Orders /\ bill[freezeToken[s]] # "none"

\* While the money of a paid order has not been given back, its seats are
\* sold to it, unless two RefundOrder calls for an earlier order of one of the
\* seats ran at the same time.
PaidKeepsSeats ==
    \A o \in Orders :
        /\ order[o] = "paid" /\ bill[o] = "paid"
        /\ \A p \in doubled : SeatsOf[p] \cap SeatsOf[o] = {}
        => \A s \in SeatsOf[o] : seatStatus[s] = "sold" /\ freezeToken[s] = o

\* What GetOrderServiceView shows: derivePayStatus, deriveTicketStatus and
\* previewRefundOrder, which leaves the amount to the refund rule.
DerivePayStatus(o) == IF order[o] \in {"paid", "refunded"} THEN GetPayBill(o) ELSE "none"

DeriveTicketStatus(o) == order[o]

PreviewRefund(o) == order[o] = "paid" /\ GetPayBill(o) = "paid"

MapOrderServiceView(o, payStatus, ticketStatus, preview) ==
    [orderStatus |-> order[o], payStatus |-> payStatus,
     ticketStatus |-> ticketStatus, canRefund |-> preview]

GetOrderServiceView(o) ==
    MapOrderServiceView(o, DerivePayStatus(o), DeriveTicketStatus(o), PreviewRefund(o))

\* The service view of an order never contradicts its money: a refunded order
\* shows a refunded bill, and a refund is offered only for tickets that are
\* paid and while none was booked.
ViewAgrees ==
    \A o \in Orders :
        LET view == GetOrderServiceView(o) IN
        /\ view.orderStatus = "refunded" => view.payStatus = "refunded"
        /\ view.canRefund => view.ticketStatus = "paid" /\ refund[o] = 0

\* Status and money of every order move as OrderSettlement allows: no status
\* is ever taken back, one charge, one refund of at most the price.
Settlement == INSTANCE OrderSettlement
Settled == Settlement!Spec
=============================================================================
