# A TLA+ model of livepass

livepass sells tickets for shows.  Its hard part is the rush sale: many users
submit at once, Redis decides who may try, Kafka carries the attempts, consumers
write the orders, and what becomes of an order (payment, refund, timeout) runs
through four services without a common transaction.  This directory models that
part and the services around it, checks the models with TLC on small instances and
proves the most important properties with TLAPS for all instances.

## 1. Inventory

| Part | State | Operations | Hard about it |
|---|---|---|---|
| rush attempt store (`order-rpc/internal/rush`) | Redis: attempt record per order number, `user/viewer_inflight`, `user/viewer_active`, `quota` hashes | seven Lua scripts, priming, key expiry | scripts are atomic, sequences of them are not; TTLs differ by an order of magnitude; fields are deleted without looking at their value |
| order creation (`order-rpc/internal/logic/create_order*`, `mq`) | goroutine per send, Kafka topic, consumer goroutines, MySQL `d_order`, `d_order_ticket_user`, three guard tables, outbox | CreateOrder, asynchronous send and compensation, Consume under a renewable lease, create transaction, finalization | duplicate events, lost replies, unknown results of the transaction, lease loss, crashes between steps |
| order cancellation and close | order status, guards, attempt record, seat freeze | CancelOrder, CloseExpiredOrder, CloseExpiredOrders | three stores, no common transaction; races with the consumer that has just written the order |
| delay task outbox (`pkg/delaytask`, `jobs/order-close`) | `d_delay_task_outbox` rows, Asynq queue | scan, publish, mark; deliver, close, retry, archive | stale scans, at-least-once delivery, clocks |
| order payment and refund, pay-rpc | order status, pay bill, refund bill, seat rows | PayOrder, PayCheck, RefundOrder, MockPay, Refund, GetOrderServiceView | several services per operation, a lock that is only a lease, RefundOrder without it |
| order numbers and shards (`order-rpc/sharding`, repository) | generator of a process, shard tables | Next, routes by user and by number, paged sweep | wait for the next second, gene in the number against hash of the user, rows of several slots in a table |
| seat ledger (`program-rpc/internal/seatcache`, seat logic) | Redis ledger, `d_seat`, freeze records | freeze, confirm, release, load | two stores, background reload, keyed lock |
| inventory preheat (`jobs/rush-inventory-preheat`, `prime_rush_runtime_logic.go`) | program row and its cached copy, outbox rows, runtime in Redis | editor calls, PrimeRushRuntime, PrimeSeatLedger, mark | not atomic, may run again during a sale, reads of a cached row |
| program catalogue (`program-rpc/internal/programcache`) | MySQL rows, Redis copies, a view and a snapshot per process | CRUD, detail, lists, Pub/Sub invalidation | loads that overlap a write, lost messages, keys nobody deletes |
| users (`user-rpc`) | `d_user`, mapping rows, ticket users, failure counters, tokens | register, update, authenticate, login, logout | no transactions, whole-row updates, counter in two steps |
| agents: runs | run, message, tool call and event rows, checkpoint in Redis | create, execute, interrupt, resume, cancel, stream | resume and cancel race with execution; updates are several commits |
| agents: conversations | thread and message rows | create, patch, list by cursor | times that tie, rows that move between two pages |
| seat assignment (freeze script, `seat_assignment.go`) | sorted set of the available seats | the choice of seats side by side | gaps, rows, ties, ids out of order, members that come back |
| gateway and `*-api` (`gateway-api`, `pkg/xmiddleware`) | login tokens, signed headers of a request in flight | routes, authentication twice, the call of each endpoint | three lists of paths that must agree, clocks that differ, a token that expires on the way |
| MCP servers, prompts | none | translation | nothing that a model would show |

How the parts interact.  `CreateOrder` calls the attempt store and starts a
goroutine that calls Kafka; `Consume` calls the attempt store, program-rpc
(`AutoAssignAndFreezeSeats`), MySQL and the attempt store again; a second
goroutine renews the lease meanwhile.  The create transaction also writes the
outbox row from which the order-close dispatcher makes an Asynq task, whose worker
calls `CloseExpiredOrder` in order-rpc.  Cancel and close call program-rpc and the
attempt store outside their transaction.  Payment calls pay-rpc and then
program-rpc; a refund calls program-rpc, pay-rpc, program-rpc again and its own
database.  The editors of a program write the outbox row of the preheat task, whose
worker calls order-rpc and program-rpc.  The agents call order-rpc's refund through
an MCP tool after a human has approved.

What makes each part correct: quota is neither lost to nor credited by races
(attempt store); no user, viewer or seat is sold twice and the verdict of an
attempt agrees with the database (creation, cancel); every unpaid order is closed
and no task is dropped (outbox); money, status and seats agree (payment); an order
is found where it is stored and the sweep misses none (shards); ledger and table
agree (seats); every show time of a preheated program is primed, with no more
admissions than seats (preheat); caches follow the database (catalogue); an account
keeps what was acknowledged (users); an endpoint acts for the caller whose token was
verified, and for nobody else (gateway); nothing is refunded without its own approval,
and runs and streams end (agents).

## 2. Plan

Done: the modules of section 3, in this order: the creation pipeline with its
abstract specification, the outbox, the seat ledger, the order life cycle with its
abstract specification, order numbers and shards, preheat, catalogue, agents, users,
seat assignment, gateway and endpoints; and the proofs of section 5, which cover every
safety property that a run checks, but for `BestSeats`.

Left, the most valuable first:

1. Composition of `SeatLedger` with `OrderLifecycle` and `RushOrder`, which assume of
   program-rpc what `SeatHold` promises; with it the ledger after `ReleaseSoldSeats`
   and `ResetProgram`, which write the table only.
2. The keyed locker itself.

## 3. Modules

### AttemptStore
One show time and one ticket category.  An order number is the name of a purchase
token (`PurchaseTokenClaims.OrderNumber`), so `UserOf` and `ViewersOf` are its
claims.  `attempt` is the `state` field of the record (`missing` when there is no
key); the four projections map users and viewers to an order number or `None`;
`quota` is the field of the category.  There is one action per Lua script, enabled
when the script answers that it acted; other answers write nothing, and the callers
in `RushOrder` say what they do then.  `FailAndRelease` is the common effect of
`finalize_failure.lua` and `finalize_closed_order.lua`.  `ExpireInflight` drops the
hashes as a whole, as Redis does: the TTL is set on the key.

### RushOrder
The handlers, one action per step between two points where another process can
interfere:

| code | actions |
|---|---|
| `CreateOrder` | `CreateOrder`, `CreateOrderUnknown` (reply of the script lost, or crash before the send) |
| `dispatchOrderCreateEventAsync` | `SendOk`, `SendError`, `FailPendingAttemptAfterAsyncSendError` |
| `Consume` | `ConsumePrepare`/`ConsumeSkip`, `ConsumeLookup`, `FreezeSeats`/`FreezeExhausted`/`FreezeError`, `PersistLost`/`Persist`/`PersistGuardConflict`/`PersistError`, `Resolve`, `ConsumeFinalizeSuccess`, `ConsumeFinalizeFailure`/`...Refused`, `ReleaseOrderCreateFreeze` |
| lease goroutine | `LeaseTickFails` sets `lost` |
| Kafka reader | `Fetched`, `Ack`, `ReturnError`; `queue[o]` counts events that no committed offset covers |
| `CloseExpiredOrder` | `CloseTx`, `CloseSync`, `CloseRelease` |
| `cancelOrderWithLock` | `CancelRelease`, `CancelTx`, `CancelSync`, `CancelAgain` |
| processes | `WorkerCrash`, `CloserCrash` |
| Redis expiry | `LeaseExpires`, `RecordExpires`, `InflightExpires` |

`Hazards` chooses which faults can happen.  `TokenOutlivesLease` says whether a
token can still be submitted after a PROCESSING record has expired: TRUE with the
shipped `TokenTTL: 2m` and `InFlightTTL: 30s`.  The other states of a record outlive
every token of `etc/order.yaml` (30 minutes against 2); `etc/order.perf.yaml`, with
tokens of 24 hours, is a load-test profile and is not modelled.  program-rpc is
external: `Frozen` gives out free seats or the seats already frozen under the order's
token.  Payment does not occur here: a paid order keeps guards and record and is,
for these properties, an unpaid one that nobody closes.

### TicketSale
The abstract specification: an order is placed at most once, in one step, with a
seat for each viewer and in conflict with no active order; a cancelled order stays
cancelled.  `RushOrder` implements it with `status <- order`, `seats <- seatsOf`.

### DelayTaskOutbox
`row` is `task_status`, `asynq` the task with the row's `TaskID`.  A dispatcher
scans (`Scan`), then publishes and marks record by record in the order of ids, from
the list it has read; `Abort` ends a run that failed.  `CloseExpiredOrder` is one
transaction.  Asynq (external) delivers, retries `MaxRetry` times and archives; an
archived task keeps its id.

### SeatHold, SeatLedger
`status` and `holder` are the columns `seat_status` and `freeze_token` of `d_seat`;
`ready`, `stock`, `available`, `sold`, `frozen` and `loading` are the keys of the ledger
in Redis.  A handler (`Clients`) runs one RPC for one token and is at one step between
two calls to a store; a loader (`Loaders`) is a run of `loadWithContext`, in the
background or, when `sync`, for PrimeSeatLedger.

| code | actions |
|---|---|
| `AutoAssignAndFreezeSeats` | `FreezeStart`, `FreezeExisting`, `FreezeLookup`, `FreezeReserve`/`FreezeRefused` (the script), `FreezePersist`/`FreezePersistError`, `FreezeUndo` |
| `ConfirmSeatFreeze`, `ReleaseSeatFreeze` | `SettleStart` or `ReleaseUnheld`, `SettleLedger`, `SettleTx`, `SettleScript` |
| `Schedule`, `loadWithContext` | `Schedule` (within the step that needs it), `LoadAvailable`, `LoadFrozen`, `LoadSold`, `LoadKeys`, `LoadWipe`, `LoadStock`, `LoadSeat`, `LoadDone`, `LoadError` |
| Redis expiry, processes | `StockExpires`, `SeatsExpire`, `LoadingExpires`, `ClientCrash` |

Calls that return without writing are stuttering steps.  Which free seats the freeze
script picks is left open: any set of the right size.  `Locked` is the keyed locker:
one lock for all freezes of the category, another for each token, local to a process
(`InstanceOf`).  `SeatHold` is the promise: a token gets all its seats in one step, out
of the free ones, and gives them back or sells them together.

### OrderSettlement, OrderLifecycle
A handler (`call`) serves one RPC for one order and is at a point between two local
transactions or calls of other services.  `order` and `guards` are the rows of
order-rpc, `bill` and `refund` those of pay-rpc, `seatStatus` and `freezeToken` those of
`d_seat`; `expired` says that the pay window is over, `lock` who holds the etcd lock on
an order.  Creation is reduced to what it leaves: `Freeze`, then the insert with its
guards or, on a conflict, the release.

| code | points |
|---|---|
| `PayOrder` | load, mock pay, confirm the seats, finalize |
| `CancelOrder`, `CloseExpiredOrder` | load, transaction, release of the freeze, in the order of each |
| `PayCheck` (no lock) | load, for a cancelled order bill, pay refund, converge |
| `RefundOrder` (no lock) | load, bill, evaluate, pay refund, release sold seats, converge |
| faults | `Fail` (a call returns an error), `Crash`, `LeaseEnds` (the lock is lost, the handler goes on) |

`doubled` is a history variable: the orders of which two RefundOrder calls were under
way at a time.  `OrderSettlement` is the promise: a status moves only forward, an order
counts as paid only when money was taken, as refunded only after it went back, one
charge, one refund of at most the price.

### SeatAssignment
What `SeatLedger` leaves open: the choice of `freeze_auto_assigned_seats.lua`, seat by seat
over a sorted set whose score is row and column, and of `assignSeats`, which is the same in
Go.  `BestSeats` compares both with a definition without loops: the first seats side by side
in a row, or else the first seats there are.  `MCSeats` joins it to `SeatLedger` for TLC: a
behaviour moves one of the two, chosen at the start by `part`, which loses nothing because
they share no variable.

### OrderShards
`clock`, `lastSecond`, `sequence` and the callers that wait for the next second are the
state of the generator; a number is put together from time, the two genes of its user,
worker and sequence as in `order_number_codec.go`.  The width of a field is given as the number
of its values (`GeneRange`, `WorkerRange`, `SequenceRange`), so that a shift is a product or a
quotient.  Rows are kept by shard table, with ids of a growing counter (`lastId`);
`InsertOrder` and `SettleOrder` go by the number, `ListOrders` by the user.  A page is the set of
the rows with its place in the order, not a list.  `SweepStart`, `SweepPage`, `SweepClose`,
`SweepNextSlot` and `SweepFails` are CloseExpiredOrders, one page of one table at a time, with
one `now` for the whole sweep; an order that is already cancelled is passed over, one that was
paid meanwhile ends the sweep with an error.  Both shard keys of `etc/order.yaml` point to one
database, so that the guard tables of `RushOrder` are global.

### InventoryPreheat
One program with its row, the copy of the model cache (`cached`), show times, free seats,
outbox rows and Asynq tasks by key (a key is an open time), the runtime hashes of
order-rpc (`quota`, `inflight`, `active`) and the stock of the ledger, and a reduced sale
(`Admit`, `Succeed`, `FailAttempt`).  Editor calls that read first and write later take several
steps: CreateProgramShowTime/CommitShowTime, CreateSeat/InsertSeat, InvalidProgram/WriteInvalid,
the last two with ClearProgramSeatLedgers.  The worker
primes show time by show time: list, read the admission quota, clear inflight, clear the
quota, rebuild the active projections, set the quota, prime the ledger, mark.  The
histories `late`, `disturbed`, `again`, `lost` and `reverted` record the situations that the
properties except (section 4).

### ProgramCatalogue
Rows are version numbers.  `l2` are the copies in Redis, `view` and `snapshot` the local
caches of a process, a load reads row by row (`Lookup`, `Fill`), a write commits, deletes keys,
drops its own view and publishes; `inbox` holds the messages of a subscription, `online`
whether there is one.  `LoadOrder` is the order in which a detail load reads the kinds of rows
(`Reads` leaves out those the instance does not have), `Topics` the two kinds of messages.
`excused` records that an invalidation was lost or met a load under
way.

### AgentRuns
The service is one asyncio process (`agents/README.md`), so that what a coroutine does
between two suspensions is one step: a sequence of commits that a database failure can cut
off anywhere (`Work`, `CutOff`).  `Write` is the effect of such a sequence: of several updates
of a column the last one stays (`Updated`), new rows are added in their order (`Added`).
A task is a coroutine that executes a run at a node of the graph (coordinator, supervisor,
specialist, tool); what the model says is a free choice.
`answers` records the resumptions accepted, `impaired` the runs that lost their task or
part of an update, `undone` the cancellations that were overwritten.

### Conversations
Threads and messages with the times of their `datetime(3)` columns, and one walk per user
through a list, page by page, with the cursor the service builds.  A page is the set of the first
`Limit` rows in the descending order of the query (`Page`), its cursor the key of the last one
(`LastRow`).  `CreateWithMessages` is what a new run does to thread and messages.  `MCAgents`
joins the module to `AgentRuns` in the way of `MCSeats`: runs and lists share no variable.

### UserAccounts
One step per SQL statement or Redis command; a statement can fail or its process die.
`promised` records what an account was acknowledged to be, `damaged` the accounts served by
two calls at a time or left half-written.

### ApiEndpoints, HttpApi
`ApiEndpoints` has the routes, as pairs of a path and what its endpoint asks for: the RPC call it
makes, for which user and naming what.  `HttpApi` takes a request from the client
over the gateway (route, token, signed headers) and the middleware of the service (signature, age against a clock that
differs, perf mode) to its calls; ticket users, of which the endpoints of user-api look at
the owner, are created and deleted meanwhile.

## 4. Runs

Every run passes.

| run | states | checks |
|---|---|---|
| `rush_sale` | 46,977 | `NoConflictingOrders`, the refinement `ImplementsSale` and `AttemptConverges`, with failed sends, events delivered twice and tokens submitted again |
| `rush_faults` | 836,437 | `QuotaNeverOvercredited`, `SuccessHasOrder`, `FailedHasNoActiveOrder`, `SingleConsumer` with all hazards, tokens not outliving the lease |
| `outbox` | 16,839 | `ProcessedMeansSettled`, `ProcessedIsFinal`, `TasksProcessed` with two dispatchers, retries and archived tasks |
| `seats_faults` | 300,710 | `LedgerConserved` and the refinement `ImplementsHold`: three handlers of one process that overlap, fail and die; `BestSeats` in a house of nine seats |
| `seats_stale` | 632,810 | `SeatNotStolen` with handlers in two processes, expired keys, failed and repeated loads |
| `orders_faults` | 2,049,856 | `NoSeatSoldTwice`, `SoldWasCharged`, `PaidKeepsSeats`, `ViewAgrees` and the refinement `Settled` with lost locks, failed calls and crashes |
| `shards_sweep` | 2,480,772 | `DuplicateNeedsWait`, `StoredWhereSought`, `SweepExact` while orders are added and settled under the sweep |
| `preheat_edits` | 242,863 | `PreheatMissesOnlyLate`, `AdmissionCovered`, `OpensBeforeShows`, `PreheatCompletes` |
| `catalogue_edits` | 1,064,978 | `ViewsCurrent`, `CachesConverge` |
| `agents_service` | 302,507 | `OneActiveRun`, `RefundsApproved`, `EndsAgree`, `RunsEnd`, `StreamsEnd` (`AgentRuns`), `ListedOnce` (`Conversations`) |
| `users_calls` | 167,663 | `MappingsAgree`, `AcknowledgedKept`, `GuessesBounded`, `LockEnds` |
| `http_paths` | 171,600 | `CallsForCaller`, `AuthExact` on every path that gateway and services name |

The type invariants and `GuardsMatchOrders` are theorems (section 5) and not repeated here.

**Bounds.**  For the pipeline: two orders, two workers, two seats.  Every conflict the code
guards against is between two orders (same user: o1/o2; same viewer: o1/o3; only seats: o1/o4),
every consumer race is between two consumers, and two seats let a freeze be exhausted (o3 takes
both) as well as reassigned.  `rush_sale` has o1/o4, where only the seat guard can keep the
orders apart, `rush_faults` o1/o3; that no two orders share a user or a viewer either is proved
(`NoConflict`).  In the outbox one row and two dispatchers make a scan stale; `MaxFailures` above
`MaxRetry` lets a task be archived.  For the seats, orders of one and of two tickets compete for
three seats; `seats_stale`, where table, ledger and the rows of a load can all differ, has one
seat and two orders, enough to offer a held or sold seat to the other order, and `MaxLosses`
bounds expired keys, failed loads and calls of PrimeSeatLedger.  `orders_faults` has two orders
for one seat and two handlers, so that every pair of operations on an order meets, and the seat
can be sold again after its release; the theorems cover orders of several seats, which overlap in
part.  `shards_sweep` exhausts a sequence of two numbers by two callers and sweeps two slots that
share a table, with queries and pages of one row and a limit of one or two orders; `MaxNumbers`
bounds numbers and rows together (`Room`).  `preheat_edits` has two open times and two show
times, of which one is added and starts before the later open time (`Starts`), and two edits or
failures.  `catalogue_edits` has a writer and a second process whose subscription can break, one
edit, one fault and the rows of three kinds; a ticket category or a group is loaded and
invalidated like those.  `agents_service` has two runs with one human tool call between them (a
run cannot get to a second, see below), and for the lists two threads, two runs of two messages
each and two clock ticks to the unit of a column, so that times tie; `users_calls` three calls of
two handlers and one failure; `http_paths` one request, since requests share only the rows of
ticket users, and clocks one tick apart.  Symmetry is used only in runs without liveness
properties.  Deadlock is not checked: the systems rest when everything is settled or a bound is
reached.

**Fairness.**  Goroutines and coroutines that have been started run on (`WF` of sender,
consumer, closer, worker, handler and task steps); dispatchers run on a timer and scan every
row, Asynq delivers every task it holds (`SF`, because other rows and other deliveries
disable and enable them in turn); every cache entry and login counter with a TTL expires; the
model and the tools answer.  Clients, faults and the expiry of the other Redis keys owe
nothing.

**What the properties except, and why.**  These are things the code does; the models show
them and the properties say exactly how far they reach.

- With the shipped TTLs a token outlives the processing lease, and an attempt can be FAILED
  while its order is active; `rush_faults` and `ConsumerSafe` assume it does not.  A cancel
  between the create transaction and finalizeSuccess leaves `user_active` naming a cancelled
  order.  `user_inflight` expires before the PENDING records it stands for, so that a user
  can have two undecided attempts; the guard tables then decide.  A poll of a cancelled order
  answers "failed" until its record expires and then "success".
- An Asynq task that has used up its retries is archived and keeps its `TaskID`; a later
  publish is refused and the refusal taken as success, so that its order stays unpaid
  (`TasksProcessed` excepts it; the sweep is the remedy).  A worker can finish a task before the
  dispatcher has marked it: a row goes from pending to processed, a transition that
  `allowedOutboxTransitions` does not have.
- Freezes and releases take different locks.  A release during a freeze can leave a seat
  in the pool that is frozen in the table; the transaction of the next freeze then fails
  (`SeatNotStolen`).  A loader deletes its own loading key with the stock key, so that a
  second load can start beside it; `NotStolen` is proved for any number.  Nothing acts on
  `freeze_expire_time`.
- RefundOrder takes no lock and ReleaseSoldSeats does not look for whom a seat is sold:
  the second of two overlapping refunds can free a seat that was sold again
  (`doubled` in `PaidKeepsSeats`).  The next sale is still kept apart by the guards
  (`NoSeatSoldTwice`).
- Callers that wait for the next second read the clock again without looking at what others
  have issued in it: a number can be issued twice in such a second (`DuplicateNeedsWait`).
- A show time committed after a worker has listed the show times stays unprimed (`late`).
  CreateProgramShowTime reads the program without a lock and writes the whole row, InvalidProgram
  writes back a cached row (`reverted`), and a task that is scheduled again while it runs is
  marked processed by its worker (`lost`).  Seats can be created after the preheat while the
  cached row still says otherwise.  A changed window primes again during the sale and forgets the
  attempts under way (`disturbed`).  UpdateProgram and CreateProgramShowTime check the rush
  window without a common lock: two that overlap can leave a show that starts before its sale
  opens (`OpensBeforeShows` excepts them).
- A show time is also cached under its id, a key no write deletes, and a detail view keeps
  the names of its categories: both are stale until their TTL, five minutes
  (`CachesConverge`).
- Two overlapping updates of an account write whole rows, and a failed one leaves the mapping
  rows half done (`damaged`).  Each handler may guess once beyond the login limit, and a process
  that dies between INCR and EXPIRE leaves a counter that never expires.
- An answer to `human_input` always reads as a rejection: `interrupt_bridge.py:65` sends
  `decisions`, `human_tools.py:66` looks for `action`.  An edited approval asks again within the
  resumption, which is refused, and the run stays running until it is cancelled.  A refused
  action leaves the run running as well.  A tool call that a human approved runs although the
  run was cancelled meanwhile.  The preview is computed again on resumption and not compared
  with what the human saw.
- A run that has lost part of an update, or whose task writes over its cancellation, can be
  active beside a later run: create_run refuses a second active run, but the status of the first
  is set again without a look at the thread.  `OneActiveRun` says that nothing else leads there,
  and names the earlier run; `EndsAgree` excepts only runs that lost their task or part of an
  update, and says that besides the event of the end only the completion of the tool call
  that was resumed can be last.
- The gateway forwards `/program/detail` (`gateway-api.yaml:70`), but program-api serves only
  `/program/detail/view` (`routes.go:44`): the request is answered with 404 by the service.
- The answer of a run is dated one microsecond after the question and the column keeps
  milliseconds: the two tie and come in the order of random ids.  A thread cursor converts the
  time of the row from local time to UTC: walks are right when the process runs in UTC
  (`LocalOffset = 0`).

## 5. Proofs

`RushOrderProofs` proves for any finite sets of orders, viewers and seats, any users
and workers and any hazards:

- `TypeCorrect`: `Spec => []TypeOK`.  The step proof goes through lemmas for the
  parts of the state (`StoreStepType`, `DbStepType`, `WorkersType`, `OthersType`):
  the actions of the store and of the database are first shown to be among a few kinds
  of step (`StoreStep`, `DbStep`), and all later proofs reason about the kinds.
- `QuotaSafe`: `quota >= 0` and quota plus tickets of live attempts never exceeds the
  primed quota.  `LiveTicketsStep` relates the cardinality of the tickets before and
  after each kind of store step; an expiry loses tickets, a release returns exactly those
  it removes.
- `GuardsExact`: guard rows are exactly those of active orders (inductive as it stands,
  given the types); `NoConflict` follows, since a guard row names one order.
- `SaleRefinement`: `Spec => ImplementsSale`.  Besides the guards it needs
  `SeatsForTickets`: a worker about to write an order holds as many seats as the order
  has viewers.
- `SuccessBacked`: via `SuccessInv`, which adds that a worker on its way to
  finalizeSuccess works on an order that exists.
- `ConsumerSafe` and `VerdictSafe`, for tokens that do not outlive the lease: via
  `ConsumerInv`, which says what a worker that is not idle knows (its record is PROCESSING or
  gone for good with its token, no other worker has the order, and the step it is at agrees
  with the order row).

`OrderStoreProofs` has two parts.  About `DelayTaskOutbox` it proves for any rows, dispatchers,
retry limits and failures: `OutboxTypeCorrect`, `OutboxSafe` (a processed row has a settled
order; `RowInv` adds that before the create transaction there is neither row nor task nor scan
that lists it) and `OutboxFinal` (a processed row stays processed, from `RowStep`).

About `OrderShards` it proves for any widths of the fields, genes, routes, page sizes, limits and
windows of slots:

- `ShardsTypeCorrect`; the slot of a sweep stays a slot.
- `NumbersUnique` (`DuplicateNeedsWait`).  `ParseBuilt` shows that parsing gives back what a
  number was built from, by division lemmas for each field.  `Generator` then says that nothing
  lies in a later second than the generator's, that its sequence is beyond those handed out in its
  second, and that numbers of a second nobody woke up in differ in their sequence; `IssueStep`
  covers every way to hand out a number.
- `OrdersFound` (`StoredWhereSought`), from `Placed`: a row is in the table where both
  routes lead, and ids and numbers are unique; the page of a row is computed from the
  number of newer ones, which is below the number of all rows.
- `SweepComplete` (`SweepExact`).  While the pages of a slot are read, orders are added, paid and
  cancelled in the same tables.  `Swept` says that what is still due of the slot is on the list or
  behind the cursor, that nothing on the list is behind it, and that the list is as long
  as its count; `SweepPageStep` shows it for a page, `SweepKept` for the steps of others, all of
  which only add or settle rows (`RowsStep`).

`ProgramProofs` has two parts.  About `SeatLedger` it proves for any finite set of seats and any
tokens, handlers, processes and loaders:

- `LedgerTypeCorrect` and `NotStolen` for all hazards.  `NotStolen` rests on `TableView`
  (only three transactions write the table) and on `HolderInv`: a seat has a holder
  exactly when it is not available.
- `Conserved`, when no key expires and nobody primes again (`NoReload`): `Loaded` says
  that then no load is ever started, so that only the three scripts write the ledger, and
  each moves seats between its sets and counts them.
- `HoldRefinement`, when besides all handlers are in one process (`OneProcess`): via
  `WholeInv`, which says that a frozen key and the rows of a token have as many seats as
  the order has tickets, that the rows of a token have one status, and that the one freeze
  under way is for a token without seats.  From this the seats that a confirm or a release
  has read from the ledger are all the seats of its token (`SettleWhole`).  Both
  conditions are needed: with a load during a freeze TLC finds an order of two tickets that
  is granted one seat.

About `ProgramCatalogue` it proves for any processes, writers, kinds of rows and bounds
`CatalogueTypeCorrect` and `CachesFollow` (`ViewsCurrent`).  A cache may be old while its
invalidation is on the way, so the invariant says what each old copy waits for: a key of Redis
or a row in a load for a DEL (`KeysFollow`), a view for a message of the detail topic
(`ViewsFollow`), a snapshot for one of the category topic (`SnapshotsFollow`), as long as
nothing is excused; `WriteSteps` says which places a write goes through for each topic.

`OrderLifecycleProofs` proves for any orders, seats, prices, refund rules and handlers and
all hazards.  The inductive invariant is a conjunction in layers, each proved from those
before it: `TypeOK`; `Money`, which relates bill, refund and status of an order;
`Positions`, which says what a handler at a point knows (a handler about to finalize has a
bill, one about to converge has a refund); `Rows`, which relates seat rows to order rows;
then the properties.

- `LifecycleTypeCorrect`, `SeatSoldOnce`, `SeatCharged`, `ViewSafe`: its conjuncts or their
  consequences.
- `SettlementRefinement`: every step is a move, a charge, a giving back or a stutter of
  `OrderSettlement`.
- `SeatsKept`: needs `Owners` besides, which says that a refund under way is the only one of
  its order unless the order is in `doubled`, that before payment a token is on all the seats of
  its order or on none, and that a handler about to finalize a payment finds the seats sold to
  its order.

`UserAccountsProofs` proves for any accounts, mobiles, emails, people, handlers and failures
`AccountsTypeCorrect`, `AcknowledgedKeptTheorem`, `MappingsAgreeTheorem` and
`GuessesBoundedTheorem`.  The properties
speak of accounts at rest and are not inductive: between two statements of an update the
mapping rows are neither the old nor the new ones.  The invariant adds `Issued` (a mapping row
names a user that exists, ids are not used twice), `Accounts` (while nothing is damaged, an
account has one writer, one without a writer is what was promised, and `Positions` says for each
place in each handler which of its statements have taken effect) and `Guesses` (a failure counter
and the logins that have passed the check are together within the bound).

`InventoryPreheatProofs` proves for any open times, show times, users and bounds
`PreheatTypeCorrect`, `PreheatMissesOnlyLateTheorem`, `AdmissionCoveredTheorem` and
`OpensBeforeShowsTheorem`.  The
invariant adds to the three properties what the editor has read (`Windows`), that a task in the
queue or past its listing has a row still to run and a show time is primed or on the list of the
worker (`Tasks`), and that attempts of an undisturbed show time are in flight and orders
projected (`Admissions`), from which admission of a user twice is excluded.

`AgentProofs` has two parts.  About `AgentRuns` it proves for any runs, orders and watched runs
and any number of tool calls, cancellations and failures:

- First what a sequence of writes does to the rows of a run, whole or cut off anywhere: which
  write of a column stays, that no update brings a tool call back to waiting, that every list
  of the projector ends with the status and the event it is for.  Then every request and every
  step of a task is shown to be one of a few kinds (`TaskStep`: start, go on, ask, end, leave,
  lose the task), against which the invariant is proved.
- `AgentTypeCorrect`.
- `AgentRefundsApproved` (`RefundsApproved`), from `ApprovalInv`: a tool call that was answered
  can no longer be answered, and a task that carries an approval carries one for its own tool
  call and the order that was shown.
- `AgentOneActiveRun` (`OneActiveRun`).  That no earlier run becomes active again needs
  `SoloInv`: while a run is neither impaired nor undone, at most one of its tasks goes on, beside
  tasks whose stream has ended with a question, and the status of the run agrees with the place
  of that task; so a task that is late finds its own run running, or cancelled, and then writing
  on makes it one of `undone`.
- `AgentEndsAgree` (`EndsAgree`), from `EndsInv`, which adds which tasks may still add events
  to a run that has ended.

About `Conversations` it proves, when the process runs in UTC, for any users, threads, messages,
ties of times and page sizes:

- `WalksListOnce` (`ListedOnce`).  The invariant (`Walking`) says that what was got is not behind
  the cursor and that what is due is got or behind it and still listed; `DatesInv`, that no
  thread is dated later than now, keeps a thread that was got and is continued from moving behind
  the cursor.  It rests on the order of the keys being transitive (`LessTransitive`) and on what
  a page of the first rows adds to a walk (`PageWalks`).  `LocalOffset = 0` is needed: with
  another offset a thread cursor names a time that no row has.

`HttpApiProofs` proves for any requests, users, claimed headers, lifetimes, skew and clocks:

- `HttpCallsForCaller` (`CallsForCaller`).  The lemmas about the routes say of each endpoint
  behind Auth that it calls for the user of its context or refuses.  `HttpInv` says of a request
  on its way that a valid signature is the gateway's, of the moment it looked at the token and for
  the user it vouched for, and that on every path behind Auth a request that came over the gateway
  has one.  For this the lists of paths of the gateway and the routes of the services must agree,
  which is proved path by path (`AuthPathsGuarded`).
- `HttpAuthExact` (the action property `AuthExact`): every step that takes in or refuses a
  request does so rightly, from the same invariant and a case for each step of a request.

The assumptions are those named in the modules (`StoreAssumption`, `RushAssumption`,
`OutboxAssumption`, `LedgerAssumption`, `LifecycleAssumption`, `AccountsAssumption`,
`PreheatAssumption`, `CatalogueAssumption`, `ShardsAssumption`, `AgentBounds`,
`ConversationAssumption`, `UsersAssumption`, `HttpAssumption`): types and finiteness of the
constants, an initial open time before the initial shows, genes within their field, and a route
for every slot, as `NewRouteMap` demands it.

Only model-checked:

- the liveness properties `AttemptConverges`, `TasksProcessed`, `PreheatCompletes`,
  `CachesConverge`, `RunsEnd`, `StreamsEnd` and `LockEnds`: fairness and ENABLED are outside the
  proof system's reach here;
- `BestSeats` of `SeatAssignment`, whose loops are recursive operators: what they compute for
  every input needs an induction over data.

## 6. Not modelled

Parts: the MCP servers and the prompts of the agents (stateless adapters, texts), CORS and
preflight requests, the fields of requests and answers that name neither a user nor a row, and
the pass-through of agent requests at the gateway.

Inside the modelled parts: more than one show time or ticket category in the attempt store;
the expiry of the quota and active hashes (end of the sale plus seven days); the purchase
limits, signing and encoding of CreatePurchaseToken; the seats that ResetProgram frees, and
what ReleaseSoldSeats, ResetProgram and Clear leave in the seat ledger; GetSeatRelateInfo and
GetTicketCategoryDetail; search conditions of the program lists; an ignored error of the DEL at login;
titles and contents of conversations; payloads, formatting and logs.
