----------------------------- MODULE RushOrder ------------------------------
(***************************************************************************)
(* Rush ordering in order-rpc, "accept + async": CreateOrder admits an      *)
(* attempt in Redis and returns; a goroutine sends the create event to      *)
(* Kafka; consumers take the attempt under a renewable processing lease,    *)
(* freeze seats, write order and guards in one database transaction and     *)
(* finalize the attempt; orders are later cancelled or closed.              *)
(* The seat freezes of program-rpc are kept as SeatLedger shows them to     *)
(* behave; Kafka is external.                                               *)
(***************************************************************************)
EXTENDS AttemptStore

CONSTANTS
    Workers,            \* consumer goroutines of all order-rpc instances
    Seats,
    PerOrderLimit,      \* PerOrderLimitPurchaseCount, 0 for none
    PerAccountLimit,    \* PerAccountLimitPurchaseCount, 0 for none
    Hazards             \* which of HazardKinds can happen

(***************************************************************************)
(* lease:     the processing lease is not renewed in time and expires        *)
(* rebalance: an event is handed to a second worker before the first is done *)
(* crash:     a process dies between two steps of a handler                  *)
(* reply:     a call to Redis, MySQL or program-rpc fails, with or without   *)
(*            having taken effect                                           *)
(* ttl:       records in a settled or waiting state reach their TTL          *)
(***************************************************************************)
HazardKinds == {"lease", "rebalance", "crash", "reply", "ttl"}

ASSUME RushAssumption ==
    /\ PerOrderLimit \in Nat /\ PerAccountLimit \in Nat
    /\ Hazards \subseteq HazardKinds
    /\ IsFiniteSet(Seats)

VARIABLES
    token,      \* the purchase token that carries the order number
    sending, failed, \* dispatchOrderCreateEventAsync goroutines: before Send,
                \* ... and before the compensation of a Send that failed
    queue,      \* create events in Kafka that no committed offset covers
    pc, work,   \* per worker: its step and the order it consumes,
    got,        \* ... and the seats of the freeze response it holds
    order,      \* d_order.order_status
    userGuard, viewerGuard, seatGuard,  \* rows of the three guard tables
    seatsOf,    \* seats written in d_order_ticket_user
    freeze,     \* program-rpc: seats frozen under the order's freeze token
    closer,     \* progress of CancelOrder / CloseExpiredOrder on the order
    revived     \* history: numbers admitted again while an order row or a
                \* consumer of their earlier admission was still there

dbVars == <<order, userGuard, viewerGuard, seatGuard, seatsOf>>
workerVars == <<pc, work, got>>
senderVars == <<sending, failed>>
vars == <<storeVars, token, senderVars, queue, workerVars, dbVars, freeze, closer, revived>>

\* The order holds its guards.  Payment (OrderLifecycle) changes neither
\* guards nor attempt: a paid order is an unpaid one that nobody closes.
Active(o) == order[o] = "unpaid"

Steps == {"idle", "lookup", "freeze", "persist", "resolve",
          "succeed", "fail", "failRelease", "release"}

WorkerTypeOK ==
    /\ queue \in [Orders -> Nat]
    /\ pc \in [Workers -> Steps]
    /\ work \in [Workers -> Orders \cup {None}]
    /\ \A w \in Workers : pc[w] # "idle" => work[w] \in Orders
    /\ got \in [Workers -> SUBSET Seats]

DbTypeOK ==
    /\ order \in [Orders -> {"none", "unpaid", "cancelled"}]
    /\ userGuard \in [Users -> Orders \cup {None}]
    /\ viewerGuard \in [Viewers -> Orders \cup {None}]
    /\ seatGuard \in [Seats -> Orders \cup {None}]
    /\ seatsOf \in [Orders -> SUBSET Seats]

\* The state is well formed; a worker that is not idle has an order in hand.
TypeOK ==
    /\ StoreTypeOK
    /\ WorkerTypeOK
    /\ DbTypeOK
    /\ token \in [Orders -> {"unissued", "valid", "expired"}]
    /\ sending \in [Orders -> Nat]
    /\ failed \in [Orders -> Nat]
    /\ freeze \in [Orders -> SUBSET Seats]
    /\ closer \in [Orders -> {"idle", "closeSync", "closeRelease",
                              "cancelTx", "cancelSync"}]
    /\ revived \subseteq Orders

Init ==
    /\ StoreInit
    /\ token = [o \in Orders |-> "unissued"]
    /\ sending = [o \in Orders |-> 0]
    /\ failed = [o \in Orders |-> 0]
    /\ queue = [o \in Orders |-> 0]
    /\ pc = [w \in Workers |-> "idle"]
    /\ work = [w \in Workers |-> None]
    /\ got = [w \in Workers |-> {}]
    /\ order = [o \in Orders |-> "none"]
    /\ userGuard = [u \in Users |-> None]
    /\ viewerGuard = [v \in Viewers |-> None]
    /\ seatGuard = [s \in Seats |-> None]
    /\ seatsOf = [o \in Orders |-> {}]
    /\ freeze = [o \in Orders |-> {}]
    /\ closer = [o \in Orders |-> "idle"]
    /\ revived = {}

-----------------------------------------------------------------------------
(***************************************************************************)
(* CreateOrder and the asynchronous sender                                  *)
(***************************************************************************)
\* The tickets of the user's unpaid and paid orders.
CountActiveTicketsByUserShowTime(u) ==
    Cardinality({t \in Orders \X Viewers :
                    Active(t[1]) /\ UserOf[t[1]] = u /\ t[2] \in ViewersOf[t[1]]})

\* The token reserves nothing: attempts under way do not count.
CreatePurchaseToken(o) ==
    /\ token[o] = "unissued"
    /\ ViewersOf[o] # {}
    /\ PerOrderLimit = 0 \/ TicketCount(o) <= PerOrderLimit
    /\ \/ PerAccountLimit = 0
       \/ CountActiveTicketsByUserShowTime(UserOf[o]) + TicketCount(o) <= PerAccountLimit
    /\ token' = [token EXCEPT ![o] = "valid"]
    /\ UNCHANGED <<storeVars, senderVars, queue, workerVars, dbVars, freeze, closer, revived>>

\* The signature is good and ExpireAt has not passed.
Verify(o) == token[o] = "valid"

\* buildAttemptCreateEvent; a goroutine of dispatchOrderCreateEventAsync.
DispatchOrderCreateEventAsync(o) == sending' = [sending EXCEPT ![o] = @ + 1]

\* Nothing is left of an earlier admission of the number.
Untouched(o) ==
    /\ order[o] = "none"
    /\ \A w \in Workers : pc[w] # "idle" => work[w] # o

\* History: which numbers were admitted although they were touched.
NoteRevived(o) == revived' = IF Untouched(o) THEN revived ELSE revived \cup {o}

CreateOrder(o) ==
    /\ Verify(o)
    /\ Admit(o)
    /\ DispatchOrderCreateEventAsync(o)
    /\ NoteRevived(o)
    /\ UNCHANGED <<token, failed, queue, workerVars, dbVars, freeze, closer>>

\* The script ran but its reply is lost: CreateOrder answers with the order
\* number and dispatches nothing.  The state is also the one a crash of the
\* process leaves before the goroutine has sent.
CreateOrderUnknown(o) ==
    /\ "crash" \in Hazards
    /\ Verify(o)
    /\ Admit(o)
    /\ NoteRevived(o)
    /\ UNCHANGED <<token, senderVars, queue, workerVars, dbVars, freeze, closer>>

\* The measured handler makes the same calls; what it adds is for its log.
PerfCreateOrder(o) == CreateOrder(o) \/ CreateOrderUnknown(o)

SendOk(o) ==
    /\ sending[o] > 0
    /\ sending' = [sending EXCEPT ![o] = @ - 1]
    /\ queue' = [queue EXCEPT ![o] = @ + 1]
    /\ UNCHANGED <<storeVars, token, failed, workerVars, dbVars, freeze, closer, revived>>

\* Send returns an error (ProducerTimeout); the event may have been written.
SendError(o) ==
    /\ sending[o] > 0
    /\ sending' = [sending EXCEPT ![o] = @ - 1]
    /\ failed' = [failed EXCEPT ![o] = @ + 1]
    /\ \E delivered \in {0, 1} : queue' = [queue EXCEPT ![o] = @ + delivered]
    /\ UNCHANGED <<storeVars, token, workerVars, dbVars, freeze, closer, revived>>

\* Faulty: the send error is only logged.
FailPendingAttemptForgotten(o) ==
    /\ failed[o] > 0
    /\ failed' = [failed EXCEPT ![o] = @ - 1]
    /\ UNCHANGED <<storeVars, token, sending, queue, workerVars, dbVars, freeze, closer, revived>>

\* The compensation; PENDING is the only state it fails.
FailPendingAttemptAfterAsyncSendError(o) ==
    /\ failed[o] > 0
    /\ failed' = [failed EXCEPT ![o] = @ - 1]
    /\ \/ FailBeforeProcessing(o)
       \/ attempt[o] # "PENDING" /\ UNCHANGED storeVars
       \/ "reply" \in Hazards /\ UNCHANGED storeVars
    /\ UNCHANGED <<token, sending, queue, workerVars, dbVars, freeze, closer, revived>>

-----------------------------------------------------------------------------
(***************************************************************************)
(* The consumer                                                             *)
(***************************************************************************)
Goto(w, step) == pc' = [pc EXCEPT ![w] = step]

\* The worker is done with its event.
Leave(w) ==
    /\ Goto(w, "idle")
    /\ work' = [work EXCEPT ![w] = None]
    /\ got' = [got EXCEPT ![w] = {}]

\* Consume returned nil; a commit of the offset that fails leaves the event.
Ack(w) ==
    /\ Leave(w)
    /\ \E committed \in IF "reply" \in Hazards THEN {0, 1} ELSE {1} :
          queue' = [queue EXCEPT ![work[w]] = IF @ > committed THEN @ - committed ELSE 0]

\* Consume returned an error: the reader goes on with the next event, whose
\* commit covers this one, or a rebalance delivers this one again.
ReturnError(w) ==
    /\ Leave(w)
    /\ \E seen \in {0, 1} :
          queue' = [queue EXCEPT ![work[w]] = IF @ > seen THEN @ - seen ELSE 0]

\* One event is handled by one worker, unless the group has rebalanced while
\* a worker of the old generation was still handling it.
Fetched(w, o) ==
    /\ pc[w] = "idle"
    /\ queue[o] > 0
    /\ "rebalance" \in Hazards \/ \A v \in Workers : work[v] # o

\* The record the script answers with: the worker renews and finalizes it by
\* its order number.
TakePreparedAttempt(w, o) == work' = [work EXCEPT ![w] = o]

ConsumePrepare(w, o) ==
    /\ Fetched(w, o)
    /\ PrepareAttemptForConsume(o)
    /\ Goto(w, "lookup")
    /\ TakePreparedAttempt(w, o)
    /\ UNCHANGED <<token, senderVars, queue, got, dbVars, freeze, closer, revived>>

\* Missing record or !shouldProcess: the event is acknowledged.
ConsumeSkip(w, o) ==
    /\ Fetched(w, o)
    /\ ~ShouldProcess(o)
    /\ queue' = [queue EXCEPT ![o] = @ - 1]
    /\ UNCHANGED <<storeVars, token, senderVars, workerVars, dbVars, freeze, closer, revived>>

\* lease.lost: a tick of the lease goroutine has not renewed the lease.  The
\* flag is never reset and whoever finds it set leaves, so that it needs no
\* state: it can be set where a tick since the start can have failed.
MayBeLost(w) == "lease" \in Hazards \/ ~LeaseRefreshed(work[w])

\* FindOrderByNumber; the first call that can fail after the record is taken.
ConsumeLookup(w) ==
    /\ pc[w] = "lookup"
    /\ \/ /\ Goto(w, IF order[work[w]] = "none" THEN "freeze" ELSE "succeed")
          /\ UNCHANGED <<queue, work, got>>
       \/ "reply" \in Hazards /\ ReturnError(w)
    /\ UNCHANGED <<storeVars, token, senderVars, dbVars, freeze, closer, revived>>

FreeSeats == Seats \ UNION {freeze[o] : o \in Orders}

\* AutoAssignAndFreezeSeats returns the seats already frozen under
\* the token, or freezes that many free ones.
Frozen(o, S) ==
    /\ S \subseteq Seats
    /\ Cardinality(S) = TicketCount(o)
    /\ S = freeze[o] \/ (freeze[o] = {} /\ S \subseteq FreeSeats)

\* The event enriched with the frozen seats, one for each viewer.
BuildOrderCreateEventFromSnapshots(w, S) ==
    /\ Cardinality(S) = TicketCount(work[w])
    /\ got' = [got EXCEPT ![w] = S]

FreezeSeats(w) ==
    /\ pc[w] = "freeze"
    /\ \E S \in SUBSET Seats :
          /\ Frozen(work[w], S)
          /\ freeze' = [freeze EXCEPT ![work[w]] = S]
          /\ BuildOrderCreateEventFromSnapshots(w, S)
    /\ Goto(w, "persist")
    /\ UNCHANGED <<storeVars, token, senderVars, queue, work, dbVars, closer, revived>>

FreezeExhausted(w) ==
    /\ pc[w] = "freeze"
    /\ freeze[work[w]] = {}
    /\ Cardinality(FreeSeats) < TicketCount(work[w])
    /\ Goto(w, "fail")
    /\ UNCHANGED <<storeVars, token, senderVars, queue, work, got, dbVars, freeze, closer, revived>>

\* The RPC fails twice or with another error, after or before it took effect,
\* or the event cannot be built (a viewer was deleted meanwhile): the freeze
\* stays behind.
FreezeError(w) ==
    /\ "reply" \in Hazards
    /\ pc[w] = "freeze"
    /\ \/ UNCHANGED freeze
       \/ \E S \in SUBSET Seats :
             /\ Frozen(work[w], S)
             /\ freeze' = [freeze EXCEPT ![work[w]] = S]
    /\ ReturnError(w)
    /\ UNCHANGED <<storeVars, token, senderVars, dbVars, closer, revived>>

\* InsertUserGuard, InsertViewerGuards or InsertSeatGuards meets a unique key.
UserGuarded(o) == userGuard[UserOf[o]] # None
ViewersGuarded(o) == \E v \in ViewersOf[o] : viewerGuard[v] # None
SeatsGuarded(S) == \E s \in S : seatGuard[s] # None

\* Faulty: d_order_seat_guard is forgotten.
GuardConflictWithoutSeats(o, S) == UserGuarded(o) \/ ViewersGuarded(o)

\* Faulty: the errors of the guard inserts are ignored.
GuardConflictIgnored(o, S) == FALSE

\* A unique key of a guard table refuses the row.
GuardConflict(o, S) == UserGuarded(o) \/ ViewersGuarded(o) \/ SeatsGuarded(S)

\* The rows of d_order_ticket_user, one for each seat.
InsertOrderTickets(o, S) == seatsOf' = [seatsOf EXCEPT ![o] = S]

InsertOrder(o, S) ==
    /\ order[o] = "none"
    /\ ~GuardConflict(o, S)
    /\ order' = [order EXCEPT ![o] = "unpaid"]
    /\ userGuard' = SetFields(userGuard, {UserOf[o]}, o)
    /\ viewerGuard' = SetFields(viewerGuard, ViewersOf[o], o)
    /\ seatGuard' = SetFields(seatGuard, S, o)
    /\ InsertOrderTickets(o, S)

\* The lease was lost before the transaction starts.
PersistLost(w) ==
    /\ pc[w] = "persist"
    /\ MayBeLost(w)
    /\ Ack(w)
    /\ UNCHANGED <<storeVars, token, senderVars, dbVars, freeze, closer, revived>>

\* The transaction commits; a duplicate order number commits nothing.
Persist(w) ==
    /\ pc[w] = "persist"
    /\ \/ InsertOrder(work[w], got[w])
       \/ order[work[w]] # "none" /\ UNCHANGED dbVars
    /\ Goto(w, "succeed")
    /\ UNCHANGED <<storeVars, token, senderVars, queue, work, got, freeze, closer, revived>>

PersistGuardConflict(w) ==
    /\ pc[w] = "persist"
    /\ order[work[w]] = "none"
    /\ GuardConflict(work[w], got[w])
    /\ Goto(w, "failRelease")
    /\ UNCHANGED <<storeVars, token, senderVars, queue, work, got, dbVars, freeze, closer, revived>>

\* The transaction returns another error, rolled back or committed; an
\* unknown result (timeout, cancellation) is returned at once.
PersistError(w) ==
    /\ "reply" \in Hazards
    /\ pc[w] = "persist"
    /\ InsertOrder(work[w], got[w]) \/ UNCHANGED dbVars
    /\ \/ Goto(w, "resolve") /\ UNCHANGED <<queue, work, got>>
       \/ ReturnError(w)
    /\ UNCHANGED <<storeVars, token, senderVars, freeze, closer, revived>>

\* Faulty: the database is not asked what became of the transaction.
ResolveAsFailure(w) ==
    /\ pc[w] = "resolve"
    /\ \/ MayBeLost(w) /\ Ack(w)
       \/ Goto(w, "failRelease") /\ UNCHANGED <<queue, work, got>>
    /\ UNCHANGED <<storeVars, token, senderVars, dbVars, freeze, closer, revived>>

ResolveAsSuccess(w) ==
    /\ pc[w] = "resolve"
    /\ \/ MayBeLost(w) /\ Ack(w)
       \/ Goto(w, "succeed") /\ UNCHANGED <<queue, work, got>>
    /\ UNCHANGED <<storeVars, token, senderVars, dbVars, freeze, closer, revived>>

\* resolveOrderPersistFailure
Resolve(w) ==
    /\ pc[w] = "resolve"
    /\ \/ MayBeLost(w) /\ Ack(w)
       \/ Goto(w, IF order[work[w]] = "none" THEN "failRelease" ELSE "succeed")
                   /\ UNCHANGED <<queue, work, got>>
       \/ "reply" \in Hazards /\ ReturnError(w)
    /\ UNCHANGED <<storeVars, token, senderVars, dbVars, freeze, closer, revived>>

\* finalizeSuccess; every error of the store is only logged.
ConsumeFinalizeSuccess(w) ==
    /\ pc[w] = "succeed"
    /\ \/ FinalizeSuccess(work[w])
       \/ (MayBeLost(w) \/ "reply" \in Hazards) /\ UNCHANGED storeVars
    /\ Ack(w)
    /\ UNCHANGED <<token, senderVars, dbVars, freeze, closer, revived>>

\* finalizeFailure moved the record; with a freeze token the freeze is released.
ConsumeFinalizeFailure(w) ==
    /\ pc[w] \in {"fail", "failRelease"}
    /\ FinalizeFailure(work[w])
    /\ \/ pc[w] = "fail" /\ Ack(w)
       \/ pc[w] = "failRelease" /\ Goto(w, "release") /\ UNCHANGED <<queue, work, got>>
    /\ UNCHANGED <<token, senderVars, dbVars, freeze, closer, revived>>

\* finalizeFailure did not move it: the lease or the ownership is lost (nil),
\* or the record is missing (ErrInternal).
ConsumeFinalizeFailureRefused(w) ==
    /\ pc[w] \in {"fail", "failRelease"}
    /\ \/ MayBeLost(w) /\ Ack(w)
       \/ attempt[work[w]] = "missing" /\ ReturnError(w)
       \/ "reply" \in Hazards /\ ReturnError(w)
    /\ UNCHANGED <<storeVars, token, senderVars, dbVars, freeze, closer, revived>>

\* releaseOrderCreateFreeze, best effort.
ReleaseOrderCreateFreeze(w) ==
    /\ pc[w] = "release"
    /\ \/ freeze' = [freeze EXCEPT ![work[w]] = {}]
       \/ "reply" \in Hazards /\ UNCHANGED freeze
    /\ Ack(w)
    /\ UNCHANGED <<storeVars, token, senderVars, dbVars, closer, revived>>

\* The process of a worker dies; nothing is committed for its event.
WorkerCrash(w) ==
    /\ "crash" \in Hazards
    /\ pc[w] # "idle"
    /\ Leave(w)
    /\ UNCHANGED <<storeVars, token, senderVars, queue, dbVars, freeze, closer, revived>>

-----------------------------------------------------------------------------
(***************************************************************************)
(* CloseExpiredOrder and CancelOrder, under the order status guard          *)
(***************************************************************************)
\* The rows of a guard table after those of one order are deleted.
DeleteByOrderNumber(guard, o) ==
    [k \in DOMAIN guard |-> IF guard[k] = o THEN None ELSE guard[k]]

\* Cancel the order and delete its guards, in one transaction.
CancelRows(o) ==
    /\ order[o] = "unpaid"
    /\ order' = [order EXCEPT ![o] = "cancelled"]
    /\ userGuard' = DeleteByOrderNumber(userGuard, o)
    /\ viewerGuard' = DeleteByOrderNumber(viewerGuard, o)
    /\ seatGuard' = DeleteByOrderNumber(seatGuard, o)
    /\ UNCHANGED seatsOf

\* syncClosedRushAttempt: its errors are logged by the callers.
SyncClosedRushAttempt(o) ==
    \/ FinalizeClosedOrder(o)
    \/ (attempt[o] # "SUCCESS" \/ "reply" \in Hazards) /\ UNCHANGED storeVars

CloserAt(o, step) == closer' = [closer EXCEPT ![o] = step]

\* ReleaseSeatFreeze frees the seats of the token.
ReleaseSeatFreeze(o) == freeze' = [freeze EXCEPT ![o] = {}]

CloseTx(o) ==
    /\ closer[o] = "idle"
    /\ CancelRows(o)
    /\ CloserAt(o, "closeSync")
    /\ UNCHANGED <<storeVars, token, senderVars, queue, workerVars, freeze, revived>>

CloseSync(o) ==
    /\ closer[o] = "closeSync"
    /\ SyncClosedRushAttempt(o)
    /\ CloserAt(o, "closeRelease")
    /\ UNCHANGED <<token, senderVars, queue, workerVars, dbVars, freeze, revived>>

CloseRelease(o) ==
    /\ closer[o] = "closeRelease"
    /\ ReleaseSeatFreeze(o) \/ ("reply" \in Hazards /\ UNCHANGED freeze)
    /\ CloserAt(o, "idle")
    /\ UNCHANGED <<storeVars, token, senderVars, queue, workerVars, dbVars, revived>>

\* CancelOrder releases the freeze before it touches the order.
CancelRelease(o) ==
    /\ closer[o] = "idle"
    /\ order[o] = "unpaid"
    /\ ReleaseSeatFreeze(o)
    /\ CloserAt(o, "cancelTx")
    /\ UNCHANGED <<storeVars, token, senderVars, queue, workerVars, dbVars, revived>>

CancelTx(o) ==
    /\ closer[o] = "cancelTx"
    /\ CancelRows(o)
    /\ CloserAt(o, "cancelSync")
    /\ UNCHANGED <<storeVars, token, senderVars, queue, workerVars, freeze, revived>>

CancelSync(o) ==
    /\ closer[o] = "cancelSync"
    /\ SyncClosedRushAttempt(o)
    /\ CloserAt(o, "idle")
    /\ UNCHANGED <<token, senderVars, queue, workerVars, dbVars, freeze, revived>>

\* CancelOrder of a cancelled order only synchronises the attempt again.
CancelAgain(o) ==
    /\ closer[o] = "idle"
    /\ order[o] = "cancelled"
    /\ CloserAt(o, "cancelSync")
    /\ UNCHANGED <<storeVars, token, senderVars, queue, workerVars, dbVars, freeze, revived>>

\* The handler dies between two of its steps; nothing resumes it.
CloserCrash(o) ==
    /\ "crash" \in Hazards
    /\ closer[o] # "idle"
    /\ CloserAt(o, "idle")
    /\ UNCHANGED <<storeVars, token, senderVars, queue, workerVars, dbVars, freeze, revived>>

-----------------------------------------------------------------------------
(***************************************************************************)
(* Expiry.  A PROCESSING record lives for InFlightTTL (30 s) without        *)
(* renewal, less than its purchase token (TokenTTL, 2 min), so that the     *)
(* number can be admitted again; the other states outlive every token.      *)
(***************************************************************************)
LeaseExpires(o) ==
    /\ "lease" \in Hazards
    /\ attempt[o] = "PROCESSING"
    /\ ExpireAttempt(o)
    /\ UNCHANGED <<token, senderVars, queue, workerVars, dbVars, freeze, closer, revived>>

RecordExpires(o) ==
    /\ "ttl" \in Hazards
    /\ attempt[o] \in {"PENDING", "SUCCESS", "FAILED"}
    /\ ExpireAttempt(o)
    /\ token' = [token EXCEPT ![o] = "expired"]
    /\ UNCHANGED <<senderVars, queue, workerVars, dbVars, freeze, closer, revived>>

InflightExpires ==
    /\ ExpireInflight
    /\ UNCHANGED <<token, senderVars, queue, workerVars, dbVars, freeze, closer, revived>>

-----------------------------------------------------------------------------
(***************************************************************************)
(* What a client that polls is told                                         *)
(***************************************************************************)
\* projectOrderProgress: the attempt record, else the order row.
ProjectOrderProgress(o) ==
    IF Found(o) THEN MapAttemptRecordToPoll(o)
    ELSE IF order[o] # "none" THEN "success" ELSE "failed"

\* Only the owner of a record or row is told of it.
PollOrderProgress(o, u) ==
    IF (Found(o) \/ order[o] # "none") /\ UserOf[o] # u THEN "notFound"
    ELSE ProjectOrderProgress(o)

GetOrderCache(o) == ProjectOrderProgress(o) = "processing"

-----------------------------------------------------------------------------
SenderStep(o) ==
    \/ SendOk(o) \/ SendError(o) \/ FailPendingAttemptAfterAsyncSendError(o)

Take(w) == \E o \in Orders : ConsumePrepare(w, o) \/ ConsumeSkip(w, o)

ConsumeStep(w) ==
    \/ ConsumeLookup(w)
    \/ FreezeSeats(w) \/ FreezeExhausted(w) \/ FreezeError(w)
    \/ PersistLost(w) \/ Persist(w) \/ PersistGuardConflict(w) \/ PersistError(w)
    \/ Resolve(w)
    \/ ConsumeFinalizeSuccess(w)
    \/ ConsumeFinalizeFailure(w) \/ ConsumeFinalizeFailureRefused(w)
    \/ ReleaseOrderCreateFreeze(w)

CloserStep(o) ==
    \/ CloseSync(o) \/ CloseRelease(o) \/ CancelTx(o) \/ CancelSync(o)

Next ==
    \/ \E o \in Orders :
          \/ CreatePurchaseToken(o)
          \/ CreateOrder(o) \/ CreateOrderUnknown(o) \/ PerfCreateOrder(o)
          \/ SenderStep(o)
          \/ CloseTx(o) \/ CancelRelease(o) \/ CancelAgain(o) \/ CloserStep(o) \/ CloserCrash(o)
          \/ LeaseExpires(o) \/ RecordExpires(o)
    \/ \E w \in Workers :
          Take(w) \/ ConsumeStep(w) \/ WorkerCrash(w)
    \/ InflightExpires

Spec == Init /\ [][Next]_vars

\* Goroutines that have been started run on; clients and timeouts need not act.
FairSpec ==
    /\ Spec
    /\ \A o \in Orders : WF_vars(SenderStep(o)) /\ WF_vars(CloserStep(o))
    /\ \A w \in Workers : WF_vars(Take(w)) /\ WF_vars(ConsumeStep(w))

-----------------------------------------------------------------------------
(***************************************************************************)
(* Properties                                                               *)
(***************************************************************************)
\* The tickets whose quota units an attempt in a live state holds.
LiveTickets == {t \in Orders \X Viewers :
                   attempt[t[1]] \in Live /\ t[2] \in ViewersOf[t[1]]}

\* Admission quota: whatever happens to attempts (duplicate events, expired
\* leases, crashes, several compensations of one attempt), the units left and
\* the units held never exceed what was primed: no unit is given back twice.
QuotaNeverOvercredited ==
    /\ quota >= 0
    /\ quota + Cardinality(LiveTickets) <= InitialQuota

\* No two active orders share their user, a viewer or a seat, although
\* Redis admitted and two consumers processed conflicting attempts: the guard
\* rows of the create transaction and of the cancel transaction see to it.
NoConflictingOrders ==
    \A o1, o2 \in Orders :
        o1 # o2 /\ Active(o1) /\ Active(o2)
            => /\ UserOf[o1] # UserOf[o2]
               /\ ViewersOf[o1] \cap ViewersOf[o2] = {}
               /\ seatsOf[o1] \cap seatsOf[o2] = {}

\* The guard rows are those of the active orders, no more and no less: a row
\* that outlived its order would keep its user, viewer or seat from ever buying
\* again, a missing one would let a second order in.
GuardsMatchOrders ==
    \A o \in Orders :
        /\ \A u \in Users : userGuard[u] = o <=> Active(o) /\ UserOf[o] = u
        /\ \A v \in Viewers : viewerGuard[v] = o <=> Active(o) /\ v \in ViewersOf[o]
        /\ \A s \in Seats : seatGuard[s] = o <=> Active(o) /\ s \in seatsOf[o]

\* A poll that answers "success" is backed by an order row of the caller:
\* finalizeSuccess never runs ahead of the transaction.
SuccessHasOrder ==
    \A o \in Orders, u \in Users :
        PollOrderProgress(o, u) = "success" => order[o] # "none" /\ UserOf[o] = u

\* An order whose poll answers "failed", after which the client buys again, is
\* not active, whatever leases expire, replies are lost and processes die.  A
\* token (2 min) outlives a lease (30 s), and the number can then be admitted
\* again: excepted are only the numbers of which an order row or a consumer of
\* the earlier admission was there at that moment.
FailedHasNoActiveOrder ==
    \A o \in Orders \ revived, u \in Users :
        PollOrderProgress(o, u) = "failed" => ~Active(o)

\* At most one consumer works on an order number at a time, with the same
\* exception: the PENDING -> PROCESSING step is the only ticket to the
\* transaction, and an expired lease alone lets no second consumer in.
SingleConsumer ==
    \A v, w \in Workers :
        v # w /\ pc[v] # "idle" /\ pc[w] # "idle" /\ work[v] \notin revived
            => work[v] # work[w]

\* The pipeline of admission, events, leases and transactions sells like the
\* one-step sale of TicketSale.
Sale == INSTANCE TicketSale WITH status <- order, seats <- seatsOf

ImplementsSale == Sale!SaleSpec

\* While records outlive their handlers and no call fails but the send, every
\* admitted attempt is decided: an event that was lost with the send is made up
\* for by the compensation, a duplicate one does not undo a decision in between.
AttemptConverges ==
    \A o \in Orders :
        GetOrderCache(o) ~> PollOrderProgress(o, UserOf[o]) \in {"success", "failed"}

=============================================================================
