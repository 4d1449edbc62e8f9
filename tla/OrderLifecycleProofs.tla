------------------------ MODULE OrderLifecycleProofs ------------------------
(***************************************************************************)
(* Proofs about OrderLifecycle for any orders, seats, prices, refund rules, *)
(* handlers and hazards.  The invariant has three layers: well-formedness,  *)
(* what a handler's position says about the order and its bill (Money), and *)
(* what the guards and tokens say about the seats (Rows).                   *)
(***************************************************************************)
EXTENDS OrderLifecycle, TLAPS

\* Statements and reads that only name an expression.
USE DEF PayStatuses, MockPay, InsertPayBill, GetPayBill, HasRefundBill,
        InsertRefundBill, UpdateBillRefunded, RefundAmount, UpdateCancelStatus,
        UpdatePayStatus, UpdateRefundStatus, DeleteGuardsByOrderNumber,
        LoadOrderSnapshot, MapOrderServiceView, FindBillForUpdate

\* The lifecycle of the order and its bill, and what each handler that is
\* past its first reads may still rely on, with or without the lock.
Money ==
    /\ \A o \in Orders : bill[o] = "refunded" <=> refund[o] > 0
    /\ \A o \in Orders : order[o] = "none" => bill[o] = "none"
    /\ \A o \in Orders : order[o] = "unpaid" => bill[o] # "refunded"
    /\ \A o \in Orders : order[o] = "paid" => bill[o] # "none"
    /\ \A o \in Orders : order[o] = "refunded" => bill[o] = "refunded"

Positions ==
    \A h \in Handlers : call[h] # Idle =>
        LET o == call[h].order IN
        /\ order[o] # "none"
        /\ call[h].op = "pay" /\ call[h].at \in {"confirm", "finalize"} => bill[o] # "none"
        /\ call[h].op = "check" /\ call[h].at # "load" => order[o] \in {"cancelled", "refunded"}
        /\ call[h].op = "refund" /\ call[h].at # "load" => order[o] \in {"paid", "refunded"}
        /\ call[h].op = "check" /\ call[h].at = "converge" => bill[o] = "refunded"
        /\ call[h].op = "refund" /\ call[h].at \in {"release", "converge"} => bill[o] = "refunded"

\* Guard rows are those of the live orders; a token stands on seats of its
\* own order only, and on every seat that is not free.
Rows ==
    /\ guards = {o \in Orders : Live(o)}
    /\ \A s \in Seats : freezeToken[s] # None => s \in SeatsOf[freezeToken[s]]
    /\ \A s \in Seats : seatStatus[s] = "free" <=> freezeToken[s] = None
    /\ \A s \in Seats : freezeToken[s] # None /\ order[freezeToken[s]] = "none"
                        => seatStatus[s] = "frozen"

IInv == TypeOK /\ Money /\ Positions /\ Rows /\ NoSeatSoldTwice /\ SoldWasCharged

\* The invariant holds before the first order: there is nothing yet.
LEMMA InitIInv == Init => IInv
  BY LifecycleAssumption
  DEF Init, IInv, TypeOK, OrderStatuses, Money, Positions, Rows, NoSeatSoldTwice,
      SoldWasCharged, Live

\* Every action keeps the state well formed.
LEMMA TypeStep == TypeOK /\ [Next]_vars => TypeOK'
<1> SUFFICES ASSUME TypeOK, [Next]_vars PROVE TypeOK'
  OBVIOUS
<1> USE LifecycleAssumption DEF TypeOK, OrderStatuses, dbVars, payVars, seatVars, Calls, Ops, Points, Idle
<1>0. CASE UNCHANGED vars
  BY <1>0 DEF vars
<1>1. ASSUME NEW o \in Orders, Freeze(o) \/ Insert(o) \/ Expire(o) \/ LeaseEnds(o)
      PROVE TypeOK'
  BY <1>1 DEF Freeze, Insert, Expire, LeaseEnds, SetSeats, ReleaseSeatFreeze, GuardConflict
<1>2. ASSUME NEW h \in Handlers, NEW o \in Orders,
             PayOrder(h, o) \/ CancelOrder(h, o) \/ CloseExpiredOrder(h, o)
             \/ CloseExpiredOrders(h, o) \/ PayCheck(h, o) \/ RefundOrder(h, o)
      PROVE TypeOK'
  BY <1>2 DEF PayOrder, CancelOrder, CloseExpiredOrder, CloseExpiredOrders, PayCheck,
              RefundOrder, StartLocked, Begin, TakeLock
<1>3. ASSUME NEW h \in Handlers, call[h] # Idle
      PROVE call[h] \in Calls
  BY <1>3
<1>4. ASSUME NEW h \in Handlers, PayLoad(h) \/ PayMockPay(h) \/ PayConfirm(h) \/ FinalizeOrderPay(h)
      PROVE TypeOK'
  BY <1>3, <1>4 DEF PayLoad, PayMockPay, PayConfirm, FinalizeOrderPay, At, Goto, GotoWith, Return,
              Unlocked, ConfirmSeatFreeze, SetSeats
<1>5. ASSUME NEW h \in Handlers, CancelLoad(h) \/ CancelRelease(h) \/ FinalizeOrderCancel(h)
             \/ CloseTx(h) \/ CloseRelease(h)
      PROVE TypeOK'
  BY <1>3, <1>5 DEF CancelLoad, CancelRelease, FinalizeOrderCancel, CloseTx, CloseRelease, At,
              Goto, GotoWith, Return, Unlocked, ReleaseSeatFreeze, SetSeats, CancelOrderTx
<1>6. ASSUME NEW h \in Handlers, CheckLoad(h) \/ CheckBill(h) \/ RefundBill(h)
      PROVE TypeOK'
  BY <1>3, <1>6 DEF CheckLoad, CheckBill, RefundBill, At, Goto, GotoWith, Return, Unlocked
<1>7. ASSUME NEW h \in Handlers, RefundLoad(h) \/ CallRefund(h)
      PROVE TypeOK'
  BY <1>3, <1>7 DEF RefundLoad, CallRefund, At, Goto, GotoWith, Return, Unlocked, Refund, RefundAllowed
<1>8. ASSUME NEW h \in Handlers, RefundEvaluate(h)
      PROVE TypeOK'
  <2>1. \A p \in Percents : (Price * p) \div 100 \in 0..Price
    OBVIOUS
  <2>2. QED
    BY <1>3, <1>8, <2>1 DEF RefundEvaluate, At, GotoWith, Return, Unlocked
<1>9. ASSUME NEW h \in Handlers, RefundRelease(h) \/ ConvergeOrderRefunded(h)
      PROVE TypeOK'
  BY <1>3, <1>9 DEF RefundRelease, ConvergeOrderRefunded, At, Goto, GotoWith, Return, Unlocked,
              ReleaseSoldSeats, SetSeats
<1>10. ASSUME NEW h \in Handlers, Fail(h) \/ Crash(h)
       PROVE TypeOK'
  BY <1>3, <1>10 DEF Fail, Crash, Return, Unlocked
<1>11. QED
  BY <1>0, <1>1, <1>2, <1>4, <1>5, <1>6, <1>7, <1>8, <1>9, <1>10 DEF Next, Step

\* A call that is not idle has the fields of Calls.
LEMMA CallFields ==
  TypeOK => \A h \in Handlers : call[h] # Idle =>
               /\ call[h] \in Calls
               /\ call[h].order \in Orders
               /\ call[h].amount \in 0..Price
  BY DEF TypeOK, Calls

\* Money and positions are kept together: each handler's view of its order
\* survives the steps of all others because statuses only move forward.
LEMMA MoneyStep == TypeOK /\ Money /\ Positions /\ [Next]_vars => Money' /\ Positions'
<1> SUFFICES ASSUME TypeOK, Money, Positions, [Next]_vars PROVE Money' /\ Positions'
  OBVIOUS
<1> USE LifecycleAssumption, CallFields
    DEF TypeOK, Money, Positions, OrderStatuses, dbVars, payVars, seatVars
<1>0. CASE UNCHANGED vars
  BY <1>0 DEF vars
<1>1. ASSUME NEW o \in Orders, Freeze(o) \/ Expire(o) \/ LeaseEnds(o)
      PROVE Money' /\ Positions'
  BY <1>1 DEF Freeze, Expire, LeaseEnds, SetSeats
<1>2. ASSUME NEW o \in Orders, Insert(o)
      PROVE Money' /\ Positions'
  BY <1>2 DEF Insert
<1>3. ASSUME NEW h \in Handlers, NEW o \in Orders,
             PayOrder(h, o) \/ CancelOrder(h, o) \/ CloseExpiredOrder(h, o)
             \/ CloseExpiredOrders(h, o) \/ PayCheck(h, o) \/ RefundOrder(h, o)
      PROVE Money' /\ Positions'
  BY <1>3 DEF PayOrder, CancelOrder, CloseExpiredOrder, CloseExpiredOrders, PayCheck,
              RefundOrder, StartLocked, Begin, TakeLock, Idle
<1>4. ASSUME NEW h \in Handlers, PayLoad(h) \/ PayConfirm(h) \/ CancelLoad(h)
             \/ CancelRelease(h) \/ CloseRelease(h) \/ RefundRelease(h) \/ Fail(h) \/ Crash(h)
      PROVE Money' /\ Positions'
  BY <1>4 DEF PayLoad, PayConfirm, CancelLoad, CancelRelease, CloseRelease, RefundRelease,
              Fail, Crash, At, Goto, GotoWith, Return, Idle
<1>5. ASSUME NEW h \in Handlers, PayMockPay(h)
      PROVE Money' /\ Positions'
  BY <1>5 DEF PayMockPay, At, Goto, GotoWith, Idle
<1>6. ASSUME NEW h \in Handlers, FinalizeOrderPay(h)
      PROVE Money' /\ Positions'
  BY <1>6 DEF FinalizeOrderPay, At, Return, Idle
<1>7. ASSUME NEW h \in Handlers, FinalizeOrderCancel(h)
      PROVE Money' /\ Positions'
  BY <1>7 DEF FinalizeOrderCancel, CancelOrderTx, At, Return, Idle
<1>8. ASSUME NEW h \in Handlers, CloseTx(h)
      PROVE Money' /\ Positions'
  BY <1>8 DEF CloseTx, CancelOrderTx, At, Goto, GotoWith, Return, Idle
<1>9. ASSUME NEW h \in Handlers, CheckLoad(h) \/ CheckBill(h) \/ RefundBill(h) \/ RefundEvaluate(h)
      PROVE Money' /\ Positions'
  BY <1>9 DEF CheckLoad, CheckBill, RefundBill, RefundEvaluate, At, Goto, GotoWith, Return, Idle
<1>10. ASSUME NEW h \in Handlers, RefundLoad(h)
       PROVE Money' /\ Positions'
  BY <1>10 DEF RefundLoad, RefundAllowed, Refund, At, Goto, GotoWith, Return, Idle
<1>11. ASSUME NEW h \in Handlers, CallRefund(h)
       PROVE Money' /\ Positions'
  BY <1>11 DEF CallRefund, RefundAllowed, Refund, At, Goto, GotoWith, Return, Idle
<1>12. ASSUME NEW h \in Handlers, ConvergeOrderRefunded(h)
       PROVE Money' /\ Positions'
  BY <1>12 DEF ConvergeOrderRefunded, At, Return, Idle
<1>13. QED
  BY <1>0, <1>1, <1>2, <1>3, <1>4, <1>5, <1>6, <1>7, <1>8, <1>9, <1>10, <1>11, <1>12
  DEF Next, Step

\* The guards follow the live orders and the tokens their seats; a conflict
\* with a guard refuses the order that would share a seat.
LEMMA RowsStep == IInv /\ [Next]_vars => Rows' /\ NoSeatSoldTwice' /\ SoldWasCharged'
<1> DEFINE Goal == Rows' /\ NoSeatSoldTwice' /\ SoldWasCharged'
<1> SUFFICES ASSUME IInv, [Next]_vars PROVE Goal
  OBVIOUS
<1> USE LifecycleAssumption, CallFields
    DEF IInv, TypeOK, OrderStatuses, Rows, NoSeatSoldTwice, SoldWasCharged, Live, dbVars,
        payVars, seatVars
<1>0. CASE UNCHANGED vars
  BY <1>0 DEF vars
<1>1. ASSUME NEW o \in Orders, Freeze(o)
      PROVE Goal
  BY <1>1 DEF Freeze, SetSeats, Money
<1>2. ASSUME NEW o \in Orders, Insert(o)
      PROVE Goal
  <2>1. CASE GuardConflict(o)
    BY <1>2, <2>1 DEF Insert, ReleaseSeatFreeze, SetSeats, HeldBy
  <2>2. CASE ~GuardConflict(o)
    BY <1>2, <2>2 DEF Insert, GuardConflict
  <2>3. QED
    BY <2>1, <2>2
<1>3. ASSUME NEW o \in Orders, Expire(o) \/ LeaseEnds(o)
      PROVE Goal
  BY <1>3 DEF Expire, LeaseEnds
<1>4. ASSUME NEW h \in Handlers, NEW o \in Orders,
             PayOrder(h, o) \/ CancelOrder(h, o) \/ CloseExpiredOrder(h, o)
             \/ CloseExpiredOrders(h, o) \/ PayCheck(h, o) \/ RefundOrder(h, o)
      PROVE Goal
  BY <1>4 DEF PayOrder, CancelOrder, CloseExpiredOrder, CloseExpiredOrders, PayCheck,
              RefundOrder, StartLocked
<1>5. ASSUME NEW h \in Handlers, PayLoad(h) \/ CancelLoad(h) \/ Fail(h) \/ Crash(h)
             \/ CheckLoad(h) \/ CheckBill(h) \/ RefundBill(h) \/ RefundEvaluate(h)
      PROVE Goal
  BY <1>5 DEF PayLoad, CancelLoad, Fail, Crash, CheckLoad, CheckBill, RefundBill, RefundEvaluate
<1>6. ASSUME NEW h \in Handlers, PayMockPay(h)
      PROVE Goal
  BY <1>6 DEF PayMockPay, At
<1>7. ASSUME NEW h \in Handlers, PayConfirm(h)
      PROVE Goal
  BY <1>7 DEF PayConfirm, Positions, ConfirmSeatFreeze, SetSeats, HeldBy, At
<1>8. ASSUME NEW h \in Handlers, FinalizeOrderPay(h)
      PROVE Goal
  BY <1>8 DEF FinalizeOrderPay, At
<1>9. ASSUME NEW h \in Handlers, CancelRelease(h) \/ CloseRelease(h)
      PROVE Goal
  BY <1>9 DEF CancelRelease, CloseRelease, ReleaseSeatFreeze, SetSeats, HeldBy, At
<1>10. ASSUME NEW h \in Handlers, FinalizeOrderCancel(h) \/ CloseTx(h)
       PROVE Goal
  BY <1>10 DEF FinalizeOrderCancel, CloseTx, CancelOrderTx, At
<1>11. ASSUME NEW h \in Handlers, RefundLoad(h)
       PROVE Goal
  BY <1>11 DEF RefundLoad, Refund, At
<1>12. ASSUME NEW h \in Handlers, CallRefund(h)
       PROVE Goal
  BY <1>12 DEF CallRefund, Refund, At
<1>13. ASSUME NEW h \in Handlers, RefundRelease(h)
       PROVE Goal
  BY <1>13 DEF RefundRelease, ReleaseSoldSeats, SetSeats, At
<1>14. ASSUME NEW h \in Handlers, ConvergeOrderRefunded(h)
       PROVE Goal
  BY <1>14 DEF ConvergeOrderRefunded, Positions, At
<1>15. QED
  BY <1>0, <1>1, <1>2, <1>3, <1>4, <1>5, <1>6, <1>7, <1>8, <1>9, <1>10, <1>11, <1>12,
     <1>13, <1>14 DEF Next, Step

\* The layers are kept by every step of every handler and fault.
LEMMA IInvStep == IInv /\ [Next]_vars => IInv'
  BY TypeStep, MoneyStep, RowsStep DEF IInv

\* The invariant holds in every state of every behaviour.
LEMMA Invariance == Spec => []IInv
<1>1. Init => IInv
  BY InitIInv
<1>2. IInv /\ [Next]_vars => IInv'
  BY IInvStep
<1>3. QED
  BY <1>1, <1>2, PTL DEF Spec

\* The rows of orders, bills, refunds and seats, the lock and the calls stay
\* well formed.
THEOREM LifecycleTypeCorrect == Spec => []TypeOK
<1>1. IInv => TypeOK
  BY DEF IInv
<1>2. QED
  BY <1>1, Invariance, PTL

\* Two orders that are unpaid or paid never share a seat, although the lock
\* can be lost and refunds run without it.
THEOREM SeatSoldOnce == Spec => []NoSeatSoldTwice
<1>1. IInv => NoSeatSoldTwice
  BY DEF IInv
<1>2. QED
  BY <1>1, Invariance, PTL

\* A seat that is marked as sold was charged to the order it is sold to.
THEOREM SeatCharged == Spec => []SoldWasCharged
<1>1. IInv => SoldWasCharged
  BY DEF IInv
<1>2. QED
  BY <1>1, Invariance, PTL

\* What the service view shows of a refunded order is a refunded bill, and no
\* second refund is offered.
THEOREM ViewSafe == Spec => []ViewAgrees
<1>1. ASSUME IInv, NEW o \in Orders
      PROVE  /\ order[o] = "refunded" => DerivePayStatus(o) = "refunded"
             /\ PreviewRefund(o) => DeriveTicketStatus(o) = "paid" /\ refund[o] = 0
  BY <1>1 DEF IInv, TypeOK, Money, DerivePayStatus, DeriveTicketStatus, PreviewRefund
<1>2. ASSUME NEW o \in Orders
      PROVE  /\ GetOrderServiceView(o).orderStatus = order[o]
             /\ GetOrderServiceView(o).payStatus = DerivePayStatus(o)
             /\ GetOrderServiceView(o).ticketStatus = DeriveTicketStatus(o)
             /\ GetOrderServiceView(o).canRefund = PreviewRefund(o)
  BY Zenon DEF GetOrderServiceView
<1>3. IInv => ViewAgrees
  BY <1>1, <1>2, Zenon DEF ViewAgrees
<1>4. QED
  BY <1>3, Invariance, PTL

-----------------------------------------------------------------------------
(* The refinement of OrderSettlement.                                       *)

\* No order, bill or refund: the initial state of OrderSettlement.
LEMMA SettlementInit == Init => Settlement!Init
  BY DEF Init, Settlement!Init

\* Every step of a handler is a step of OrderSettlement or leaves its state alone.
LEMMA SettlementStep ==
  IInv /\ [Next]_vars => [Settlement!Next]_<<order, bill, refund>>
<1> DEFINE Goal == [Settlement!Next]_<<order, bill, refund>>
<1> SUFFICES ASSUME IInv, [Next]_vars PROVE Goal
  OBVIOUS
<1> USE LifecycleAssumption, CallFields
    DEF IInv, TypeOK, OrderStatuses, Money, Positions, dbVars, payVars, seatVars,
        Settlement!Next, Settlement!Move, Settlement!Moves, Settlement!Charge, Settlement!GiveBack
<1>0. CASE UNCHANGED vars
  BY <1>0 DEF vars
<1>1. ASSUME NEW o \in Orders, Freeze(o) \/ Expire(o) \/ LeaseEnds(o)
      PROVE Goal
  BY <1>1 DEF Freeze, Expire, LeaseEnds
<1>2. ASSUME NEW o \in Orders, Insert(o)
      PROVE Goal
  <2>1. CASE GuardConflict(o)
    BY <1>2, <2>1 DEF Insert
  <2>2. CASE ~GuardConflict(o)
    <3>1. Settlement!Move(o)
      BY <1>2, <2>2 DEF Insert
    <3>2. QED
      BY <3>1
  <2>3. QED
    BY <2>1, <2>2
<1>3. ASSUME NEW h \in Handlers, NEW o \in Orders,
             PayOrder(h, o) \/ CancelOrder(h, o) \/ CloseExpiredOrder(h, o)
             \/ CloseExpiredOrders(h, o) \/ PayCheck(h, o) \/ RefundOrder(h, o)
      PROVE Goal
  BY <1>3 DEF PayOrder, CancelOrder, CloseExpiredOrder, CloseExpiredOrders, PayCheck,
              RefundOrder, StartLocked
<1>4. ASSUME NEW h \in Handlers, PayLoad(h) \/ PayConfirm(h) \/ CancelLoad(h)
             \/ CancelRelease(h) \/ CloseRelease(h) \/ RefundRelease(h) \/ Fail(h) \/ Crash(h)
             \/ CheckLoad(h) \/ CheckBill(h) \/ RefundBill(h) \/ RefundEvaluate(h)
      PROVE Goal
  BY <1>4 DEF PayLoad, PayConfirm, CancelLoad, CancelRelease, CloseRelease, RefundRelease,
              Fail, Crash, CheckLoad, CheckBill, RefundBill, RefundEvaluate
<1>5. ASSUME NEW h \in Handlers, PayMockPay(h)
      PROVE Goal
  <2> DEFINE o == call[h].order
  <2>1. bill[o] = "none" => Settlement!Charge(o)
    BY <1>5 DEF PayMockPay, At
  <2>2. bill[o] # "none" => UNCHANGED <<order, bill, refund>>
    BY <1>5 DEF PayMockPay, At
  <2>3. o \in Orders
    BY <1>5 DEF PayMockPay, At
  <2>4. QED
    BY <2>1, <2>2, <2>3
<1>6. ASSUME NEW h \in Handlers, FinalizeOrderPay(h) \/ FinalizeOrderCancel(h) \/ CloseTx(h)
                                 \/ ConvergeOrderRefunded(h)
      PROVE Goal
  <2> DEFINE o == call[h].order
  <2>1. o \in Orders
    BY <1>6 DEF FinalizeOrderPay, FinalizeOrderCancel, CloseTx, ConvergeOrderRefunded, At
  <2>2. CASE FinalizeOrderPay(h)
    <3>1. Settlement!Move(o) \/ UNCHANGED <<order, bill, refund>>
      BY <2>2 DEF FinalizeOrderPay, At
    <3>2. QED
      BY <2>1, <3>1
  <2>3. CASE FinalizeOrderCancel(h) \/ CloseTx(h)
    <3>1. Settlement!Move(o) \/ UNCHANGED <<order, bill, refund>>
      BY <2>1, <2>3 DEF FinalizeOrderCancel, CloseTx, CancelOrderTx, At
    <3>2. QED
      BY <2>1, <3>1
  <2>4. CASE ConvergeOrderRefunded(h)
    <3>1. Settlement!Move(o) \/ UNCHANGED <<order, bill, refund>>
      BY <2>4 DEF ConvergeOrderRefunded, At
    <3>2. QED
      BY <2>1, <3>1
  <2>5. QED
    BY <1>6, <2>2, <2>3, <2>4
<1>7. ASSUME NEW h \in Handlers, RefundLoad(h) \/ CallRefund(h)
      PROVE Goal
  <2> DEFINE o == call[h].order
  <2>1. o \in Orders
    BY <1>7 DEF RefundLoad, CallRefund, At
  <2>2. CASE RefundLoad(h)
    <3>1. UNCHANGED <<order, bill, refund>>
      BY <2>2 DEF RefundLoad, Refund, At
    <3>2. QED
      BY <3>1
  <2>3. CASE CallRefund(h)
    <3>1. Settlement!GiveBack(o) \/ UNCHANGED <<order, bill, refund>>
      BY <2>1, <2>3 DEF CallRefund, RefundAllowed, Refund, At
    <3>2. QED
      BY <2>1, <3>1
  <2>4. QED
    BY <1>7, <2>2, <2>3
<1>8. QED
  BY <1>0, <1>1, <1>2, <1>3, <1>4, <1>5, <1>6, <1>7 DEF Next, Step

\* The handlers of order-rpc, with lost locks, crashes and lost answers,
\* implement OrderSettlement.
THEOREM SettlementRefinement == Spec => Settled
<1>1. Init => Settlement!Init
  BY SettlementInit
<1>2. IInv /\ [Next]_vars => [Settlement!Next]_<<order, bill, refund>>
  BY SettlementStep
<1>3. QED
  BY <1>1, <1>2, Invariance, PTL DEF Spec, Settled, Settlement!Spec

-----------------------------------------------------------------------------
(* A paid order keeps its seats.                                            *)

Shares(o) == \E p \in doubled : SeatsOf[p] \cap SeatsOf[o] # {}

SoldTo(o) == \A s \in SeatsOf[o] : seatStatus[s] = "sold" /\ freezeToken[s] = o

\* Only one RefundOrder call of an order that is not in doubled exists, and
\* until it ends the order stays paid; the seats of an order that can still be
\* paid are held together or not at all.
Owners ==
    /\ \A g, h \in Handlers :
          g # h /\ call[g] # Idle /\ call[h] # Idle /\ call[g].op = "refund"
          /\ call[h].op = "refund" /\ call[g].order = call[h].order
          => call[g].order \in doubled
    /\ \A h \in Handlers :
          call[h] # Idle /\ call[h].op = "refund" /\ call[h].at # "load"
          /\ call[h].order \notin doubled => order[call[h].order] = "paid"
    /\ \A o \in Orders : order[o] \in {"none", "unpaid"} /\ ~Shares(o)
          => \/ \A s \in Seats : freezeToken[s] # o
             \/ \A s \in SeatsOf[o] : freezeToken[s] = o
    /\ \A h \in Handlers :
          call[h] # Idle /\ call[h].op = "pay" /\ call[h].at = "finalize"
          /\ order[call[h].order] = "unpaid" /\ ~Shares(call[h].order)
          => SoldTo(call[h].order)
    /\ \A o \in Orders : order[o] = "paid" /\ bill[o] = "paid" /\ ~Shares(o) => SoldTo(o)

\* Who owns which seat is kept by every step, whatever handlers still run.
LEMMA OwnersStep == IInv /\ Owners /\ [Next]_vars => Owners'
<1> SUFFICES ASSUME IInv, Owners, [Next]_vars PROVE Owners'
  OBVIOUS
<1> USE LifecycleAssumption, CallFields
    DEF IInv, TypeOK, OrderStatuses, Owners, Shares, SoldTo, dbVars, payVars, seatVars
<1>0. CASE UNCHANGED vars
  BY <1>0 DEF vars
<1>1. ASSUME NEW o \in Orders, Freeze(o)
      PROVE Owners'
  BY <1>1 DEF Freeze, SetSeats, HeldBy, Rows
<1>2. ASSUME NEW o \in Orders, Insert(o)
      PROVE Owners'
  <2>1. CASE GuardConflict(o)
    BY <1>2, <2>1 DEF Insert, ReleaseSeatFreeze, SetSeats, HeldBy, Positions
  <2>2. CASE ~GuardConflict(o)
    BY <1>2, <2>2 DEF Insert, Positions, HeldBy
  <2>3. QED
    BY <2>1, <2>2
<1>3. ASSUME NEW o \in Orders, Expire(o) \/ LeaseEnds(o)
      PROVE Owners'
  BY <1>3 DEF Expire, LeaseEnds
<1>4. ASSUME NEW h \in Handlers, NEW o \in Orders,
             PayOrder(h, o) \/ CancelOrder(h, o) \/ CloseExpiredOrder(h, o)
             \/ CloseExpiredOrders(h, o) \/ PayCheck(h, o)
      PROVE Owners'
  BY <1>4 DEF PayOrder, CancelOrder, CloseExpiredOrder, CloseExpiredOrders, PayCheck,
              StartLocked, Begin, Idle
<1>5. ASSUME NEW h \in Handlers, NEW o \in Orders, RefundOrder(h, o)
      PROVE Owners'
  BY <1>5, SMTT(30) DEF RefundOrder, Begin, Refunding, Idle
<1>6. ASSUME NEW h \in Handlers, PayLoad(h) \/ CancelLoad(h) \/ Fail(h) \/ Crash(h)
             \/ CheckLoad(h) \/ CheckBill(h)
      PROVE Owners'
  BY <1>6 DEF PayLoad, CancelLoad, Fail, Crash, CheckLoad, CheckBill, At, Goto, GotoWith,
              Return, Idle
<1>7. ASSUME NEW h \in Handlers, RefundBill(h) \/ RefundEvaluate(h)
      PROVE Owners'
  BY <1>7 DEF RefundBill, RefundEvaluate, At, Goto, GotoWith, Return, Idle
<1>8. ASSUME NEW h \in Handlers, PayMockPay(h)
      PROVE Owners'
  BY <1>8 DEF PayMockPay, At, Goto, GotoWith, Idle, Money
<1>9. ASSUME NEW h \in Handlers, PayConfirm(h)
      PROVE Owners'
  BY <1>9, SMTT(30) DEF PayConfirm, ConfirmAllowed, ConfirmSeatFreeze, SetSeats, HeldBy, Rows, At, Goto,
              GotoWith, Return, Idle
<1>10. ASSUME NEW h \in Handlers, FinalizeOrderPay(h)
       PROVE Owners'
  BY <1>10 DEF FinalizeOrderPay, At, Return, Idle
<1>11. ASSUME NEW h \in Handlers, CancelRelease(h) \/ CloseRelease(h)
       PROVE Owners'
  <2> DEFINE o == call[h].order
  <2>1. o \in Orders /\ call[h] # Idle
    BY <1>11 DEF CancelRelease, CloseRelease, At
  <2>2. CASE UNCHANGED seatVars
    BY <1>11, <2>2 DEF CancelRelease, CloseRelease, At, Goto, GotoWith, Return, Idle
  <2>3. CASE ReleaseAllowed(o) /\ ReleaseSeatFreeze(o)
    <3>1. ~SoldTo(o)
      BY <2>1, <2>3 DEF ReleaseAllowed, HeldBy
    <3>2. \A p \in Orders : SoldTo(p) => SoldTo(p)'
      BY <2>1, <2>3, <3>1 DEF ReleaseAllowed, ReleaseSeatFreeze, SetSeats, HeldBy
    <3>3. \A p \in Orders :
             \/ \A s \in Seats : freezeToken[s] # p
             \/ \A s \in SeatsOf[p] : freezeToken[s] = p
             => \/ \A s \in Seats : freezeToken'[s] # p
                \/ \A s \in SeatsOf[p] : freezeToken'[s] = p
      BY <2>1, <2>3 DEF ReleaseSeatFreeze, SetSeats, HeldBy
    <3>4. UNCHANGED <<order, bill, doubled>>
      BY <1>11 DEF CancelRelease, CloseRelease
    <3>5. \A g \in Handlers : call'[g] = call[g] \/ call'[g] = Idle
                              \/ (call[g].op = "cancel" /\ call'[g].op = "cancel")
      BY <1>11 DEF CancelRelease, CloseRelease, At, Goto, GotoWith, Return
    <3>6. QED
      BY <3>2, <3>3, <3>4, <3>5, SMTT(30) DEF Idle
  <2>4. QED
    BY <1>11, <2>2, <2>3 DEF CancelRelease, CloseRelease
<1>12. ASSUME NEW h \in Handlers, FinalizeOrderCancel(h) \/ CloseTx(h)
       PROVE Owners'
  BY <1>12, SMTT(30) DEF FinalizeOrderCancel, CloseTx, CancelOrderTx, At, Goto, GotoWith, Return, Idle
<1>13. ASSUME NEW h \in Handlers, RefundLoad(h)
       PROVE Owners'
  BY <1>13 DEF RefundLoad, Refund, At, Goto, GotoWith, Return, Idle, Money
<1>14. ASSUME NEW h \in Handlers, CallRefund(h)
       PROVE Owners'
  BY <1>14 DEF CallRefund, Refund, At, Goto, GotoWith, Return, Idle
<1>15. ASSUME NEW h \in Handlers, RefundRelease(h)
       PROVE Owners'
  <2> DEFINE p == call[h].order
  <2>1. p \in Orders /\ call[h] # Idle /\ call[h].op = "refund" /\ call[h].at = "release"
    BY <1>15 DEF RefundRelease, At
  <2>2. CASE UNCHANGED seatVars
    BY <1>15, <2>2 DEF RefundRelease, At, Goto, GotoWith, Return, Idle
  <2>3. CASE ReleaseSoldAllowed(p) /\ ReleaseSoldSeats(p)
    <3>1. bill[p] = "refunded" /\ (p \notin doubled => order[p] = "paid")
      BY <2>1 DEF Positions
    <3>2. \A o \in Orders :
             /\ ~Shares(o)
             /\ order[o] = "unpaid" \/ (order[o] = "paid" /\ bill[o] = "paid")
             => SeatsOf[o] \cap SeatsOf[p] = {}
      BY <2>1, <3>1 DEF NoSeatSoldTwice, Live, Money
    <3>3. \A o \in Orders : order[o] = "none" =>
             \A s \in SeatsOf[p] : freezeToken[s] # o
      BY <2>1, <2>3 DEF ReleaseSoldAllowed, FindByShowTimeAndIDsForUpdate, Rows
    <3>4. \A o \in Orders : SeatsOf[o] \cap SeatsOf[p] = {}
             => \A s \in SeatsOf[o] : freezeToken'[s] = freezeToken[s] /\ seatStatus'[s] = seatStatus[s]
      BY <2>1, <2>3 DEF ReleaseSoldSeats, SetSeats
    <3>5. \A o \in Orders : \A s \in Seats : freezeToken'[s] = o => freezeToken[s] = o
      BY <2>1, <2>3 DEF ReleaseSoldSeats, SetSeats
    <3>6. \A o \in Orders : order[o] = "none" /\ (\A s \in SeatsOf[o] : freezeToken[s] = o)
             => SeatsOf[o] \cap SeatsOf[p] = {}
      BY <2>1, <3>3
    <3>7. UNCHANGED <<order, bill, doubled>>
      BY <1>15 DEF RefundRelease
    <3>8. \A g \in Handlers : call'[g] = call[g] \/ call'[g] = Idle
             \/ (g = h /\ call'[g].op = "refund" /\ call'[g].order = p /\ call'[g] # Idle)
      BY <1>15, <2>1 DEF RefundRelease, Goto, GotoWith, Return, Idle
    <3>9. \A o \in Orders : order[o] \in {"none", "unpaid"} /\ ~Shares(o)
             => \/ \A s \in Seats : freezeToken'[s] # o
                \/ \A s \in SeatsOf[o] : freezeToken'[s] = o
      BY <3>2, <3>4, <3>5, <3>6
    <3>10. \A o \in Orders : ~Shares(o) /\ SoldTo(o)
             /\ (order[o] = "unpaid" \/ (order[o] = "paid" /\ bill[o] = "paid")) => SoldTo(o)'
      BY <3>2, <3>4
    <3>11. \A g \in Handlers : call[g] # Idle => call[g].order \in Orders
      OBVIOUS
    <3>12. QED
      BY <2>1, <3>1, <3>7, <3>8, <3>9, <3>10, <3>11, SMTT(30) DEF Idle
  <2>4. QED
    BY <1>15, <2>2, <2>3 DEF RefundRelease
<1>16. ASSUME NEW h \in Handlers, ConvergeOrderRefunded(h)
       PROVE Owners'
  BY <1>16 DEF ConvergeOrderRefunded, Positions, At, Return, Idle
<1>17. QED
  BY <1>0, <1>1, <1>2, <1>3, <1>4, <1>5, <1>6, <1>7, <1>8, <1>9, <1>10, <1>11, <1>12,
     <1>13, <1>14, <1>15, <1>16 DEF Next, Step

\* As long as no two refunds of one order overlap, a paid order that was not
\* refunded has its seats, however often locks are lost and handlers die.
THEOREM SeatsKept == Spec => []PaidKeepsSeats
<1>1. Init => Owners
  BY LifecycleAssumption DEF Init, Owners, Shares, SoldTo
<1>2. IInv /\ Owners /\ [Next]_vars => Owners'
  BY OwnersStep
<1>3. IInv /\ Owners => PaidKeepsSeats
  BY DEF Owners, PaidKeepsSeats, Shares, SoldTo
<1>4. QED
  BY <1>1, <1>2, <1>3, Invariance, PTL DEF Spec
=============================================================================
