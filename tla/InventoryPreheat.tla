-------------------------- MODULE InventoryPreheat --------------------------
(***************************************************************************)
(* Preheating the inventory of one program: program-rpc schedules a task in *)
(* its outbox when a show time or the rush window changes, the dispatcher   *)
(* of jobs/rush-inventory-preheat hands it to Asynq, and the worker primes  *)
(* the rush runtime of order-rpc and the seat ledger of program-rpc before  *)
(* it marks the program preheated.  The sale goes on meanwhile: a task may  *)
(* run again when the window or the show times change.  Each show time has  *)
(* one ticket category and each ticket one viewer, who is the user.         *)
(***************************************************************************)
EXTENDS Integers, Sequences, FiniteSets, SequencesExt

CONSTANTS
    OpenTimes,   \* values of rush_sale_open_time; a task key is an open time
    ShowTimes,   \* ids, numbers as they are sorted by PrimeRushRuntime
    StartOf,     \* show time -> its show_time
    Users,
    InitialOpen, InitialShowTimes, InitialSeats,
    MaxEvents, MaxSeats, MaxAttempts  \* bounds: edits and failures, seats, attempts

ASSUME PreheatAssumption ==
    /\ InitialOpen \in OpenTimes
    /\ OpenTimes \subseteq Nat \ {0}
    /\ ShowTimes \subseteq Nat \ {0} /\ InitialShowTimes \subseteq ShowTimes
    /\ StartOf \in [ShowTimes -> Nat]
    /\ \A s \in InitialShowTimes : InitialOpen <= StartOf[s]
    /\ MaxSeats \in Nat /\ InitialSeats \in 0 .. MaxSeats

VARIABLES
    program,    \* the row of d_program: [status, open]
    cached,     \* its copy in the model cache, NoRow if there is none
    showTimes,  \* rows of d_program_show_time
    seats,      \* free rows of d_seat of a show time
    row,        \* task_status of the outbox row of a key, "none" if no row
    queue,      \* keys of the tasks Asynq holds
    dispatch,   \* the key a dispatcher has published and not yet marked
    worker,     \* the running task
    editor,     \* the running call that edits the program
    quota, inflight, active,  \* Redis: admission quota and user projections
    ledger,     \* Redis: stock of the seat ledger
    attempts,   \* show time -> users with an attempt under way, in order
    orders,     \* show time -> users with an active guard row
    events,     \* edits and failures so far
    late,       \* history: show times created while a task was past its listing
                \* or with a program row that had changed since it was read
    disturbed,  \* history: show times primed while attempts were under way
    again,      \* history: keys scheduled since the running task has listed
    lost,       \* history: such a schedule was overwritten by the task
    reverted    \* history: a stale copy was written over the program row

dbVars == <<program, showTimes, seats>>
taskVars == <<row, queue, dispatch>>
runtime == <<quota, inflight, active>>
saleVars == <<attempts, orders>>
history == <<late, disturbed, again, lost, reverted>>
vars == <<dbVars, cached, taskVars, worker, editor, runtime, ledger, saleVars,
          events, history>>

None == -1   \* no such key in Redis
NoRow == [status |-> None, open |-> None]
NoKey == 0   \* no task key

\* Task states that the dispatcher scans: pending, published, failed.
Dispatchable == {"pending", "published", "failed"}

Idle == [at |-> "idle", key |-> NoKey, ids |-> {}, todo |-> {}, read |-> 0]
NoCall == [at |-> "idle", show |-> 0, copy |-> NoRow]

Init ==
    /\ program = [status |-> 1, open |-> InitialOpen]
    /\ cached = NoRow
    /\ showTimes = InitialShowTimes
    /\ seats = [s \in ShowTimes |-> InitialSeats]
    /\ row = [k \in OpenTimes |-> IF k = InitialOpen THEN "pending" ELSE "none"]
    /\ queue = {}
    /\ dispatch = NoKey
    /\ worker = Idle
    /\ editor = NoCall
    /\ quota = [s \in ShowTimes |-> None]
    /\ inflight = [s \in ShowTimes |-> {}]
    /\ active = [s \in ShowTimes |-> {}]
    /\ ledger = [s \in ShowTimes |-> None]
    /\ attempts = [s \in ShowTimes |-> <<>>]
    /\ orders = [s \in ShowTimes |-> {}]
    /\ events = 0
    /\ late = {}
    /\ disturbed = {}
    /\ again = {}
    /\ lost = FALSE
    /\ reverted = FALSE

-----------------------------------------------------------------------------
(* program-rpc: the program row and its cache.                              *)

\* FindOne of the cached model: the row of the cache if it is there.
FindOne == IF cached = NoRow THEN program ELSE cached

CacheExpires ==
    /\ cached # NoRow
    /\ cached' = NoRow
    /\ UNCHANGED <<dbVars, taskVars, worker, editor, runtime, ledger, saleVars,
                   events, history>>

\* Faulty: a row that is already there is left alone, as by INSERT IGNORE.
EnqueueInsertOnly(key) ==
    /\ row' = [row EXCEPT ![key] = IF @ = "none" THEN "pending" ELSE @]
    /\ again' = again

\* EnqueueWithConn: the row of the key is inserted or set back to pending.
Enqueue(key) ==
    /\ row' = [row EXCEPT ![key] = "pending"]
    /\ again' = again \cup {key}

\* scheduleRushInventoryPreheat with a copy of the row that the transaction
\* has read: the copy is written back unless it is already scheduled.
Schedule(copy) ==
    /\ program' = IF copy.status # 1 THEN [copy EXCEPT !.status = 1] ELSE program
    /\ Enqueue(copy.open)

\* A task that has listed the show times does not see the new one.
PastListing ==
    worker.at \in {"prime", "read", "inflight", "quota", "active", "set", "ledger", "finish"}

StartEdit(call) ==
    /\ editor.at = "idle"
    /\ events < MaxEvents
    /\ events' = events + 1
    /\ editor' = call

\* validateShowTimeAgainstProgramRushSaleOpenTime
ValidateShowTime(copy, s) == copy.open <= StartOf[s]

\* CreateProgramShowTime: its transaction reads the program without a lock ...
CreateProgramShowTime(s) ==
    /\ s \notin showTimes
    /\ ValidateShowTime(program, s)
    /\ StartEdit([at |-> "showTime", show |-> s, copy |-> program])
    /\ UNCHANGED <<dbVars, cached, taskVars, worker, runtime, ledger, saleVars, history>>

\* ... and schedules the preheat with what it has read.
CommitShowTime ==
    /\ editor.at = "showTime"
    /\ showTimes' = showTimes \cup {editor.show}
    /\ Schedule(editor.copy)
    /\ cached' = NoRow
    /\ editor' = NoCall
    /\ late' = IF PastListing \/ editor.copy # program THEN late \cup {editor.show} ELSE late
    /\ reverted' = (reverted \/ program'.open # program.open)
    /\ UNCHANGED <<seats, queue, dispatch, worker, runtime, ledger, saleVars,
                   events, disturbed, lost>>

\* Faulty: the window is not held against the show times.
ValidateRushSaleWindowNever(open) == TRUE

\* validateProgramRushSaleWindowAgainstExistingShowTimes, which looks at the
\* first of them.
ValidateRushSaleWindow(open) == \A s \in showTimes : open <= StartOf[s]

\* UpdateProgram with another open time, or with another end time only; the
\* row is locked, the show times are counted before the task is scheduled.
UpdateProgram(open) ==
    /\ events < MaxEvents
    /\ events' = events + 1
    /\ ValidateRushSaleWindow(open)
    /\ IF showTimes = {}
         THEN program' = [program EXCEPT !.open = open] /\ UNCHANGED <<row, again>>
         ELSE program' = [status |-> 1, open |-> open] /\ Enqueue(open)
    /\ cached' = NoRow
    /\ UNCHANGED <<showTimes, seats, queue, dispatch, worker, editor, runtime,
                   ledger, saleVars, late, disturbed, lost, reverted>>

\* CreateSeat and BatchCreateSeats: the guard reads the program through the
\* cache, which the worker's SQL does not invalidate.
InventoryMutable == FindOne.status # 2

CreateSeat(s) ==
    /\ s \in showTimes
    /\ seats[s] < MaxSeats
    /\ InventoryMutable
    /\ StartEdit([at |-> "seat", show |-> s, copy |-> NoRow])
    /\ cached' = FindOne
    /\ UNCHANGED <<dbVars, taskVars, worker, runtime, ledger, saleVars, history>>

InsertSeat ==
    /\ editor.at = "seat"
    /\ seats' = [seats EXCEPT ![editor.show] = @ + 1]
    /\ editor' = [editor EXCEPT !.at = "clear"]
    /\ UNCHANGED <<program, showTimes, cached, taskVars, worker, runtime, ledger,
                   saleVars, events, history>>

\* InvalidProgram: the copy of the cache is written back as a whole row.
InvalidProgram ==
    /\ StartEdit([at |-> "invalid", show |-> 0, copy |-> FindOne])
    /\ cached' = FindOne
    /\ UNCHANGED <<dbVars, taskVars, worker, runtime, ledger, saleVars, history>>

WriteInvalid ==
    /\ editor.at = "invalid"
    /\ program' = editor.copy
    /\ cached' = NoRow
    /\ editor' = [editor EXCEPT !.at = "clear"]
    /\ reverted' = (reverted \/ program' # program)
    /\ UNCHANGED <<showTimes, seats, taskVars, worker, runtime, ledger, saleVars,
                   events, late, disturbed, again, lost>>

\* SeatStockStore.Clear
Clear(S) == ledger' = [s \in ShowTimes |-> IF s \in S THEN None ELSE ledger[s]]

\* clearProgramSeatLedgers: of the category, or of the whole program.
ClearProgramSeatLedgers ==
    /\ editor.at = "clear"
    /\ Clear({s \in ShowTimes : editor.show \in {0, s}})
    /\ editor' = NoCall
    /\ UNCHANGED <<dbVars, cached, taskVars, worker, runtime, saleVars, events, history>>

-----------------------------------------------------------------------------
(* The dispatcher: RunOnceLogic.Run for one row.  A task id that Asynq      *)
(* still holds is a duplicate and counts as published.                      *)

Publish(key) ==
    /\ dispatch = NoKey
    /\ row[key] \in Dispatchable
    /\ queue' = queue \cup {key}
    /\ dispatch' = key
    /\ UNCHANGED <<dbVars, cached, row, worker, editor, runtime, ledger, saleVars,
                   events, history>>

MarkPublished ==
    /\ dispatch # NoKey
    /\ row' = [row EXCEPT ![dispatch] = IF @ \in Dispatchable THEN "published" ELSE @]
    /\ dispatch' = NoKey
    /\ UNCHANGED <<dbVars, cached, queue, worker, editor, runtime, ledger, saleVars,
                   events, history>>

-----------------------------------------------------------------------------
(* The worker: RushInventoryPreheatTaskLogic.Handle.                        *)

WorkerStep(next) ==
    /\ worker' = next
    /\ UNCHANGED <<cached, dispatch, editor, saleVars>>

\* A step that reads the program with FindOne of program-rpc.
WorkerReads(next) ==
    /\ worker' = next
    /\ cached' = FindOne
    /\ UNCHANGED <<dispatch, editor, saleVars>>

Deliver(key) ==
    /\ worker.at = "idle"
    /\ key \in queue
    /\ WorkerStep([Idle EXCEPT !.at = "list", !.key = key])
    /\ UNCHANGED <<dbVars, row, queue, runtime, ledger, events, history>>

\* ListByProgramID; without a show time, or with another open time, the task
\* has nothing to do.
ListByProgramID ==
    LET matched == showTimes # {} /\ program.open = worker.key IN
    /\ worker.at = "list"
    /\ WorkerStep([worker EXCEPT !.at = IF matched THEN "prime" ELSE "noop", !.ids = showTimes])
    /\ again' = {}
    /\ UNCHANGED <<dbVars, row, queue, runtime, ledger, events, late, disturbed, lost, reverted>>

\* The row is set to processed whatever its state is by now.
Processed(key) ==
    /\ row' = [row EXCEPT ![key] = IF @ = "none" THEN @ ELSE "processed"]
    /\ queue' = queue \ {key}
    /\ lost' = (lost \/ key \in again)

MarkTaskProcessed ==
    /\ worker.at = "noop"
    /\ Processed(worker.key)
    /\ WorkerStep(Idle)
    /\ UNCHANGED <<dbVars, runtime, ledger, events, late, disturbed, again, reverted>>

ListProgramShowTimesForRush == showTimes

\* The show time that a loop is at: it takes them in order.
First(S) == CHOOSE s \in S : \A t \in S : s <= t

\* PrimeRushRuntime lists the show times itself and takes them in order.
PrimeRushRuntime ==
    /\ worker.at = "prime"
    /\ WorkerReads([worker EXCEPT !.at = "read",
                       !.todo = ListProgramShowTimesForRush])
    /\ UNCHANGED <<dbVars, row, queue, runtime, ledger, events, history>>

\* GetProgramPreorder: the admission quota is the number of free seat rows.
AdmissionQuota(s) == seats[s]

PrimeRead ==
    /\ worker.at = "read"
    /\ WorkerReads([worker EXCEPT !.at = "inflight", !.read = AdmissionQuota(First(worker.todo))])
    /\ UNCHANGED <<dbVars, row, queue, runtime, ledger, events, history>>

\* Attempts of the show time are under way, or have taken a seat since the
\* quota was read.
Disturb(s) ==
    disturbed' = IF attempts[s] # <<>> \/ worker.read # seats[s]
                   THEN disturbed \cup {s} ELSE disturbed

ClearInflight ==
    LET s == First(worker.todo) IN
    /\ worker.at = "inflight"
    /\ inflight' = [inflight EXCEPT ![s] = {}]
    /\ WorkerStep([worker EXCEPT !.at = "quota"])
    /\ Disturb(s)
    /\ UNCHANGED <<dbVars, row, queue, quota, active, ledger, events, late, again, lost, reverted>>

ClearQuotaByShowTime ==
    LET s == First(worker.todo) IN
    /\ worker.at = "quota"
    /\ quota' = [quota EXCEPT ![s] = None]
    /\ WorkerStep([worker EXCEPT !.at = "active"])
    /\ Disturb(s)
    /\ UNCHANGED <<dbVars, row, queue, inflight, active, ledger, events, late, again, lost, reverted>>

\* The rows of the guard tables, one for each order that is active.
FindActiveByShowTimeAfterID(s) == orders[s]

\* WalkActiveUserGuardsByShowTime, batch by batch.
ActiveGuards(s) == FindActiveByShowTimeAfterID(s)

\* The active projections are rebuilt from the guard tables ...
ReplaceActive ==
    LET s == First(worker.todo) IN
    /\ worker.at = "active"
    /\ active' = [active EXCEPT ![s] = ActiveGuards(s)]
    /\ WorkerStep([worker EXCEPT !.at = "set"])
    /\ UNCHANGED <<dbVars, row, queue, inflight, quota, ledger, events, history>>

\* Faulty: the quota is given out from the ticket category's total.
QuotaToSetTotal == InitialSeats + 1

QuotaToSet == worker.read

\* ... and the quota is set to what was read.
SetQuotaAvailable ==
    LET s == First(worker.todo)
        rest == worker.todo \ {s} IN
    /\ worker.at = "set"
    /\ quota' = [quota EXCEPT ![s] = QuotaToSet]
    /\ WorkerStep([worker EXCEPT !.at = IF rest = {} THEN "ledger" ELSE "read",
                      !.todo = IF rest = {} THEN worker.ids ELSE rest])
    /\ Disturb(s)
    /\ UNCHANGED <<dbVars, row, queue, inflight, active, ledger, events, late, again, lost, reverted>>

\* SeatStockStore.PrimeFromDB
PrimeFromDB(s) == ledger' = [ledger EXCEPT ![s] = seats[s]]

PrimeSeatLedger ==
    LET s == First(worker.todo)
        rest == worker.todo \ {s} IN
    /\ worker.at = "ledger"
    /\ PrimeFromDB(s)
    /\ WorkerStep([worker EXCEPT !.at = IF rest = {} THEN "finish" ELSE "ledger", !.todo = rest])
    /\ UNCHANGED <<dbVars, row, queue, runtime, events, history>>

\* MarkInventoryPreheatedByProgramAndTaskProcessed, one transaction.
Finish ==
    /\ worker.at = "finish"
    /\ program' = [program EXCEPT !.status = IF program.open = worker.key THEN 2 ELSE @]
    /\ Processed(worker.key)
    /\ WorkerStep(Idle)
    /\ UNCHANGED <<showTimes, seats, runtime, ledger, events, late, disturbed, again, reverted>>

\* Faulty: the error of PrimeRushRuntime is logged and the task goes on.
MarkTaskConsumeFailedGoesOn ==
    /\ worker.at \in {"prime", "read", "inflight", "quota", "active", "set"}
    /\ events < MaxEvents
    /\ events' = events + 1
    /\ WorkerStep([worker EXCEPT !.at = "ledger", !.todo = worker.ids])
    /\ UNCHANGED <<dbVars, row, queue, runtime, ledger, history>>

\* A call of the worker fails: the row is marked and Asynq tries again.
MarkTaskConsumeFailed ==
    /\ worker.at \in {"prime", "read", "inflight", "quota", "active", "set", "ledger"}
    /\ events < MaxEvents
    /\ events' = events + 1
    /\ row' = [row EXCEPT ![worker.key] = IF @ = "none" THEN @ ELSE "failed"]
    /\ WorkerStep(Idle)
    /\ UNCHANGED <<dbVars, queue, runtime, ledger, history>>

\* The worker stops, or SQL fails: Asynq still holds the task.
Crash ==
    /\ worker.at # "idle"
    /\ events < MaxEvents
    /\ events' = events + 1
    /\ WorkerStep(Idle)
    /\ UNCHANGED <<dbVars, row, queue, runtime, ledger, history>>

-----------------------------------------------------------------------------
(* The sale, as far as the runtime is concerned (admit_attempt.lua, and the *)
(* scripts that end an attempt).                                            *)

\* The attempts without one of the user's.
DropOne(seq, u) ==
    LET i == CHOOSE j \in DOMAIN seq : seq[j] = u
    IN [j \in 1..(Len(seq) - 1) |-> IF j < i THEN seq[j] ELSE seq[j + 1]]

Admit(u, s) ==
    /\ s \in showTimes
    /\ quota[s] > 0
    /\ u \notin inflight[s] \cup active[s]
    /\ Len(attempts[s]) < MaxAttempts
    /\ quota' = [quota EXCEPT ![s] = @ - 1]
    /\ inflight' = [inflight EXCEPT ![s] = @ \cup {u}]
    /\ attempts' = [attempts EXCEPT ![s] = Append(@, u)]
    /\ UNCHANGED <<dbVars, cached, taskVars, worker, editor, active, ledger, orders,
                   events, history>>

\* The consumer freezes a seat and writes the order; the guard table refuses
\* a second order of the user.
Succeed(u, s) ==
    /\ u \in ToSet(attempts[s]) \ orders[s]
    /\ ledger[s] > 0 /\ seats[s] > 0
    /\ ledger' = [ledger EXCEPT ![s] = @ - 1]
    /\ seats' = [seats EXCEPT ![s] = @ - 1]
    /\ orders' = [orders EXCEPT ![s] = @ \cup {u}]
    /\ inflight' = [inflight EXCEPT ![s] = @ \ {u}]
    /\ active' = [active EXCEPT ![s] = @ \cup {u}]
    /\ attempts' = [attempts EXCEPT ![s] = DropOne(@, u)]
    /\ UNCHANGED <<program, showTimes, cached, taskVars, worker, editor, quota,
                   events, history>>

\* HINCRBY starts at zero if the field is not there.
FailAttempt(u, s) ==
    /\ u \in ToSet(attempts[s])
    /\ quota' = [quota EXCEPT ![s] = IF @ = None THEN 1 ELSE @ + 1]
    /\ inflight' = [inflight EXCEPT ![s] = @ \ {u}]
    /\ attempts' = [attempts EXCEPT ![s] = DropOne(@, u)]
    /\ UNCHANGED <<dbVars, cached, taskVars, worker, editor, active, ledger, orders,
                   events, history>>

-----------------------------------------------------------------------------
Edit ==
    \/ CacheExpires
    \/ \E s \in ShowTimes : CreateProgramShowTime(s) \/ CreateSeat(s)
    \/ CommitShowTime \/ InsertSeat
    \/ \E t \in OpenTimes : UpdateProgram(t)
    \/ InvalidProgram \/ WriteInvalid \/ ClearProgramSeatLedgers

Dispatcher == MarkPublished \/ \E k \in OpenTimes : Publish(k)

Handle ==
    \/ \E k \in OpenTimes : Deliver(k)
    \/ ListByProgramID \/ MarkTaskProcessed
    \/ PrimeRushRuntime \/ PrimeRead \/ ClearInflight \/ ClearQuotaByShowTime
    \/ ReplaceActive \/ SetQuotaAvailable \/ PrimeSeatLedger \/ Finish

Faults == MarkTaskConsumeFailed \/ Crash

Sale == \E u \in Users, s \in ShowTimes : Admit(u, s) \/ Succeed(u, s) \/ FailAttempt(u, s)

Next == Edit \/ Dispatcher \/ Handle \/ Faults \/ Sale

Spec == Init /\ [][Next]_vars

\* The dispatcher runs on a timer and scans every row; Asynq delivers every
\* task it holds.
FairSpec ==
    /\ Spec
    /\ WF_vars(MarkPublished)
    /\ \A k \in OpenTimes : SF_vars(Publish(k)) /\ SF_vars(Deliver(k))
    /\ WF_vars(Handle /\ worker.at # "idle")

-----------------------------------------------------------------------------
\* A preheated program has an unprimed show time only if that show time was
\* created while a task was past its listing, or by a transaction whose copy of
\* the program was out of date, or if a stale copy was written over the row; else
\* its task is still to run, which holds too while the task primes it again.
PreheatMissesOnlyLate ==
    program.status = 2 =>
        \A s \in showTimes :
            \/ quota[s] # None
            \/ s \in late \/ reverted
            \/ row[program.open] \in Dispatchable

\* While a show time is primed without an attempt under way, admissions stay
\* covered: each admission not yet used and each attempt has a free seat row,
\* and no user has two attempts, or an attempt beside an order.
AdmissionCovered ==
    \A s \in ShowTimes \ disturbed :
        /\ quota[s] # None => quota[s] + Len(attempts[s]) <= seats[s]
        /\ \A i, j \in DOMAIN attempts[s] : i # j => attempts[s][i] # attempts[s][j]
        /\ ToSet(attempts[s]) \cap orders[s] = {}

\* No show time begins before the sale opens, though the two checks read each
\* other's row without a lock: only a show time created beside an edit, or a
\* program row that a stale copy was written over, gets past them.
OpensBeforeShows ==
    reverted \/ \A s \in showTimes \ late : program.open <= StartOf[s]

\* A scheduled program is preheated in the end, unless its task row or its
\* program row was overwritten by a call that had read an older one.
PreheatCompletes == program.status = 1 ~> (program.status = 2 \/ lost \/ reverted)
=============================================================================
