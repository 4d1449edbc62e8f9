--------------------------- MODULE DelayTaskOutbox ---------------------------
(***************************************************************************)
(* Closing unpaid orders by delayed tasks (order.close_timeout).  The       *)
(* create transaction writes the order and an outbox row; dispatchers scan  *)
(* the rows, enqueue them in Asynq under the row's key and mark them;       *)
(* an Asynq worker calls CloseExpiredOrder, which closes the order and      *)
(* marks the row processed in one transaction.  A task is named by the id   *)
(* of its row and belongs to one order.  Asynq is external.                 *)
(***************************************************************************)
EXTENDS Integers, FiniteSets

CONSTANTS
    Tasks,        \* ids of outbox rows, scanned in ascending order
    Dispatchers,
    MaxRetry,     \* asynq.MaxRetry of the publisher
    MaxFailures   \* bound: how many calls fail altogether

ASSUME OutboxAssumption ==
    /\ Tasks \subseteq Nat
    /\ MaxRetry \in Nat
    /\ MaxFailures \in Nat

VARIABLES
    row,       \* task_status of the row
    order,     \* order_status of its order
    expired,   \* has OrderExpireTime passed
    asynq,     \* the task with this TaskID in Asynq
    retried,   \* how often Asynq has retried it
    dpc, todo, sent,  \* per dispatcher: step, records still to do, publishErr
    failures   \* failed calls so far

dispatcherVars == <<dpc, todo, sent>>
outboxVars == <<row, order, expired, asynq, retried, dispatcherVars, failures>>

Dispatchable == {"pending", "published", "failed"}

\* Well-formed rows, orders, Asynq tasks and dispatchers.
OutboxTypeOK ==
    /\ row \in [Tasks -> Dispatchable \cup {"none", "processed"}]
    /\ order \in [Tasks -> {"none", "unpaid", "paid", "cancelled"}]
    /\ expired \in [Tasks -> BOOLEAN]
    /\ asynq \in [Tasks -> {"absent", "scheduled", "active", "answered", "archived"}]
    /\ retried \in [Tasks -> 0..MaxRetry]
    /\ dpc \in [Dispatchers -> {"idle", "publish", "mark"}]
    /\ todo \in [Dispatchers -> SUBSET Tasks]
    /\ \A d \in Dispatchers : dpc[d] # "idle" => todo[d] # {}
    /\ sent \in [Dispatchers -> BOOLEAN]
    /\ failures \in 0..MaxFailures

OutboxInit ==
    /\ row = [t \in Tasks |-> "none"]
    /\ order = [t \in Tasks |-> "none"]
    /\ expired = [t \in Tasks |-> FALSE]
    /\ asynq = [t \in Tasks |-> "absent"]
    /\ retried = [t \in Tasks |-> 0]
    /\ dpc = [d \in Dispatchers |-> "idle"]
    /\ todo = [d \in Dispatchers |-> {}]
    /\ sent = [d \in Dispatchers |-> FALSE]
    /\ failures = 0

\* A call fails, while the bound allows it.
Failure == failures < MaxFailures /\ failures' = failures + 1

-----------------------------------------------------------------------------
(***************************************************************************)
(* Orders and time                                                          *)
(***************************************************************************)
\* A row of the task, keyed by its order number.
NewCloseTimeoutDelayTaskRow(t) == row' = [row EXCEPT ![t] = "pending"]

\* The create transaction: InsertOrder ... InsertDelayTasks.
CreateTx(t) ==
    /\ order[t] = "none"
    /\ order' = [order EXCEPT ![t] = "unpaid"]
    /\ NewCloseTimeoutDelayTaskRow(t)
    /\ UNCHANGED <<expired, asynq, retried, dispatcherVars, failures>>

\* PayOrder and CancelOrder leave the row alone.
Settle(t) ==
    /\ order[t] = "unpaid"
    /\ \E s \in {"paid", "cancelled"} : order' = [order EXCEPT ![t] = s]
    /\ UNCHANGED <<row, expired, asynq, retried, dispatcherVars, failures>>

Expire(t) ==
    /\ order[t] # "none"
    /\ ~expired[t]
    /\ expired' = [expired EXCEPT ![t] = TRUE]
    /\ UNCHANGED <<row, order, asynq, retried, dispatcherVars, failures>>

-----------------------------------------------------------------------------
(***************************************************************************)
(* The dispatcher: RunOnceLogic.Run, on every tick                          *)
(***************************************************************************)
\* Faulty: only pending rows are listed, failed ones are not tried again.
ScanPending(d) ==
    LET found == {t \in Tasks : row[t] = "pending"}
    IN  /\ dpc[d] = "idle"
        /\ found # {}
        /\ todo' = [todo EXCEPT ![d] = found]
        /\ dpc' = [dpc EXCEPT ![d] = "publish"]
        /\ UNCHANGED <<row, order, expired, asynq, retried, sent, failures>>

\* ListDispatchableByTaskType; what it returns is used without a lock.
Scan(d) ==
    LET found == {t \in Tasks : row[t] \in Dispatchable}
    IN  /\ dpc[d] = "idle"
        /\ found # {}
        /\ todo' = [todo EXCEPT ![d] = found]
        /\ dpc' = [dpc EXCEPT ![d] = "publish"]
        /\ UNCHANGED <<row, order, expired, asynq, retried, sent, failures>>

\* The record at hand: ORDER BY id.
Current(d) == CHOOSE t \in todo[d] : \A u \in todo[d] : t <= u

\* External: EnqueueContext with a TaskID refuses a task that Asynq still
\* keeps, archived ones included.
Enqueue(t) ==
    IF asynq[t] = "absent"
    THEN /\ asynq' = [asynq EXCEPT ![t] = "scheduled"]
         /\ retried' = [retried EXCEPT ![t] = 0]
    ELSE UNCHANGED <<asynq, retried>>

\* A duplicate is reported as success; an enqueue that timed out may have
\* taken effect.
Publish(d) ==
    /\ dpc[d] = "publish"
    /\ \/ /\ Enqueue(Current(d))
          /\ sent' = [sent EXCEPT ![d] = TRUE]
          /\ UNCHANGED failures
       \/ /\ Failure
          /\ Enqueue(Current(d)) \/ UNCHANGED <<asynq, retried>>
          /\ sent' = [sent EXCEPT ![d] = FALSE]
    /\ dpc' = [dpc EXCEPT ![d] = "mark"]
    /\ UNCHANGED <<row, order, expired, todo>>

\* Faulty: the UPDATE has no condition on task_status.
UpdatedUnchecked(t, status) == [row EXCEPT ![t] = status]

\* UPDATE ... WHERE task_status IN (0, 1, 4)
Updated(t, status) ==
    [row EXCEPT ![t] = IF @ \in Dispatchable THEN status ELSE @]

\* MarkPublished or MarkPublishFailed, then the next record.
Mark(d) ==
    /\ dpc[d] = "mark"
    /\ row' = Updated(Current(d), IF sent[d] THEN "published" ELSE "failed")
    /\ todo' = [todo EXCEPT ![d] = @ \ {Current(d)}]
    /\ dpc' = [dpc EXCEPT ![d] = IF todo[d] = {Current(d)} THEN "idle" ELSE "publish"]
    /\ UNCHANGED <<order, expired, asynq, retried, sent, failures>>

\* The store fails or the process dies: the run is over, the rows wait for the
\* next one.
Abort(d) ==
    /\ dpc[d] # "idle"
    /\ Failure
    /\ dpc' = [dpc EXCEPT ![d] = "idle"]
    /\ todo' = [todo EXCEPT ![d] = {}]
    /\ UNCHANGED <<row, order, expired, asynq, retried, sent>>

-----------------------------------------------------------------------------
(***************************************************************************)
(* The worker                                                               *)
(***************************************************************************)
\* Asynq hands out the task at execute_at by the clock of the worker, which
\* may be ahead of the one of order-rpc.
Deliver(t) ==
    /\ asynq[t] = "scheduled"
    /\ asynq' = [asynq EXCEPT ![t] = "active"]
    /\ UNCHANGED <<row, order, expired, retried, dispatcherVars, failures>>

\* Whatever task_status was; a row that is missing is no error.
MarkProcessed(t) == row' = [row EXCEPT ![t] = "processed"]

\* Faulty: an order that is not due yet is marked as processed.
CloseExpiredOrderEarly(t) ==
    /\ asynq[t] = "active"
    /\ MarkProcessed(t)
    /\ order' = [order EXCEPT ![t] = IF @ = "unpaid" /\ expired[t] THEN "cancelled" ELSE @]
    /\ asynq' = [asynq EXCEPT ![t] = "answered"]
    /\ UNCHANGED <<expired, retried, dispatcherVars, failures>>

\* finalizeCloseTimeoutTask: close what is due, skip what is settled, and leave
\* what is too early to a later delivery.
CloseExpiredOrder(t) ==
    /\ asynq[t] = "active"
    /\ \/ /\ order[t] # "unpaid"
          /\ MarkProcessed(t)
          /\ UNCHANGED order
       \/ /\ order[t] = "unpaid" /\ expired[t]
          /\ order' = [order EXCEPT ![t] = "cancelled"]
          /\ MarkProcessed(t)
       \/ /\ order[t] = "unpaid" /\ ~expired[t]
          /\ UNCHANGED <<row, order>>
    /\ asynq' = [asynq EXCEPT ![t] = "answered"]
    /\ UNCHANGED <<expired, retried, dispatcherVars, failures>>

\* Handle returned nil: Asynq forgets the task.
Complete(t) ==
    /\ asynq[t] = "answered"
    /\ asynq' = [asynq EXCEPT ![t] = "absent"]
    /\ UNCHANGED <<row, order, expired, retried, dispatcherVars, failures>>

\* Handle returned an error (the guard, the database, the RPC), before or after
\* the transaction, or the worker died: Asynq retries and finally archives.
HandleError(t) ==
    /\ asynq[t] \in {"active", "answered"}
    /\ Failure
    /\ \/ /\ retried[t] < MaxRetry
          /\ retried' = [retried EXCEPT ![t] = @ + 1]
          /\ asynq' = [asynq EXCEPT ![t] = "scheduled"]
       \/ /\ retried[t] = MaxRetry
          /\ asynq' = [asynq EXCEPT ![t] = "archived"]
          /\ UNCHANGED retried
    /\ UNCHANGED <<row, order, expired, dispatcherVars>>

-----------------------------------------------------------------------------
Dispatch(d) == Scan(d) \/ Publish(d) \/ Mark(d)

Work(t) == Deliver(t) \/ CloseExpiredOrder(t) \/ Complete(t)

OutboxNext ==
    \/ \E t \in Tasks : CreateTx(t) \/ Settle(t) \/ Expire(t) \/ Work(t) \/ HandleError(t)
    \/ \E d \in Dispatchers : Dispatch(d) \/ Abort(d)

OutboxSpec == OutboxInit /\ [][OutboxNext]_outboxVars

\* The dispatcher ticks, Asynq delivers, time passes; nobody has to pay.
FairSpec ==
    /\ OutboxSpec
    /\ \A t \in Tasks : WF_outboxVars(Work(t)) /\ WF_outboxVars(Expire(t))
    /\ \A d \in Dispatchers : WF_outboxVars(Dispatch(d))

-----------------------------------------------------------------------------
(***************************************************************************)
(* Properties                                                               *)
(***************************************************************************)
\* A row that is processed belongs to an order that is paid or closed, whatever
\* the order of deliveries, marks and payments: no unpaid order loses its task.
ProcessedMeansSettled ==
    \A t \in Tasks : row[t] = "processed" => order[t] \in {"paid", "cancelled"}

\* A processed row stays processed: the mark of a dispatcher that scanned the
\* row before it was processed does not bring the task back.
ProcessedIsFinal ==
    [][\A t \in Tasks : row[t] = "processed" => row'[t] = "processed"]_outboxVars

\* Every row is processed in the end, and so no order stays unpaid, despite
\* aborted runs, early deliveries and failed calls, unless Asynq archived its
\* task: the archived task keeps its TaskID, the dispatcher takes the refusal of
\* the id for success, and nothing runs the task again.
TasksProcessed ==
    \A t \in Tasks : row[t] = "pending" ~> (row[t] = "processed" \/ asynq[t] = "archived")

=============================================================================
