----------------------------- MODULE OrderShards -----------------------------
(***************************************************************************)
(* Order numbers and shards of order-rpc: the number generator of a         *)
(* process, the layout of a number (time, database gene, table gene, worker *)
(* and sequence), the routes from a user or a number to a shard table, and  *)
(* the sweep CloseExpiredOrders that pages through the tables slot by slot. *)
(* Field widths are parameters, given as the number of values of a field, so *)
(* that a shift is a product or a quotient; splitMix64 is any function from  *)
(* users to genes.                                                          *)
(***************************************************************************)
EXTENDS Integers, Sequences, FiniteSets

CONSTANTS
    Users,
    Genes,        \* user -> [db, table], genePartsByUserID
    GeneRange, WorkerRange, SequenceRange,  \* 2^5, 2^10 and 2^12
    WorkerID,     \* the node id of the process
    Callers,      \* goroutines that ask for a number
    RouteOf,      \* logic slot -> shard table, the route map of the version
    PageSize,     \* rows of a page of ListOrders
    MinQuery,     \* least number of rows of a page of the sweep, 32
    SweepLimits,  \* limits of CloseExpiredOrders
    FirstSlot, LastSlot,  \* its window of slots
    PayWindow,    \* seconds until an unpaid order expires
    MaxClock, MaxNumbers, MaxRows  \* bounds of the instance

Slots == 0 .. GeneRange * GeneRange - 1

\* RouteMap.RouteByLogicSlot, of the version in force.
RouteByLogicSlot(slot) == RouteOf[slot]

Tables == {RouteByLogicSlot(s) : s \in Slots}

\* What NewRouteMap asks of an entry; two entries of a slot are refused too.
ValidateRouteEntry(slot, table) == slot \in Slots /\ table # ""

MaxSequence == SequenceRange - 1

ASSUME ShardsAssumption ==
    /\ {GeneRange, WorkerRange, SequenceRange, PageSize, MinQuery} \subseteq Nat \ {0}
    /\ SweepLimits \subseteq Nat \ {0}
    /\ PayWindow \in Nat
    /\ Genes \in [Users -> [db : 0 .. GeneRange - 1, table : 0 .. GeneRange - 1]]
    /\ WorkerID \in 0 .. WorkerRange - 1
    /\ DOMAIN RouteOf = Slots
    /\ \A s \in DOMAIN RouteOf : ValidateRouteEntry(s, RouteOf[s])
    /\ FirstSlot \in Slots /\ LastSlot \in Slots

VARIABLES
    clock,
    lastSecond, sequence,  \* lastUnixSecond and sequence of the generator
    waiting,               \* caller -> the second it waits to pass, 0 if none
    issued,                \* the numbers handed out, in order
    rows,                  \* table -> its order rows
    lastId,                \* the last id of the process
    sweep,                 \* the running CloseExpiredOrders
    woken                  \* history: seconds that a waiting caller took

genVars == <<lastSecond, sequence, waiting, issued, woken>>
rowVars == <<rows, lastId>>
vars == <<clock, genVars, rowVars, sweep>>

-----------------------------------------------------------------------------
(* Layout of an order number.                                               *)

BuildOrderNumber(user, second, seq) ==
    (((second * GeneRange + Genes[user].db) * GeneRange + Genes[user].table)
       * WorkerRange + WorkerID) * SequenceRange + seq

\* The places of the table gene, of the database gene and of the time.
tableGeneShift == WorkerRange * SequenceRange
dbGeneShift == GeneRange * tableGeneShift
timePartShift == GeneRange * dbGeneShift

ParseOrderNumber(number) ==
    [time     |-> number \div timePartShift,
     db       |-> (number \div dbGeneShift) % GeneRange,
     table    |-> (number \div tableGeneShift) % GeneRange,
     sequence |-> number % SequenceRange]

LogicSlot(db, table) == db * GeneRange + table

LogicSlotByUserID(user) == LogicSlot(Genes[user].db, Genes[user].table)

\* Faulty: the table gene is cut off one bit too high.
LogicSlotByOrderNumberShifted(number) ==
    LogicSlot(ParseOrderNumber(number).db,
              (number \div (2 * tableGeneShift)) % GeneRange)

LogicSlotByOrderNumber(number) ==
    LogicSlot(ParseOrderNumber(number).db, ParseOrderNumber(number).table)

RouteByUserID(user) == RouteByLogicSlot(LogicSlotByUserID(user))

RouteByOrderNumber(number) == RouteByLogicSlot(LogicSlotByOrderNumber(number))

-----------------------------------------------------------------------------
NoSweep == [at |-> "idle"]

Init ==
    /\ clock = 1
    /\ lastSecond = 0
    /\ sequence = -1
    /\ waiting = [c \in Callers |-> 0]
    /\ issued = <<>>
    /\ rows = [t \in Tables |-> {}]
    /\ lastId = 0
    /\ sweep = NoSweep
    /\ woken = {}

AllRows == UNION {rows[t] : t \in Tables}

\* Bound: numbers handed out and rows together.
Room == Len(issued) + Cardinality(AllRows) < MaxNumbers

Tick ==
    /\ clock < MaxClock
    /\ clock' = clock + 1
    /\ UNCHANGED <<genVars, rowVars, sweep>>

-----------------------------------------------------------------------------
(* orderNumberGenerator.Next.  The caller reads its clock before it takes   *)
(* the mutex, so the second it brings may already be over.                  *)

Issue(user, second, seq) ==
    /\ lastSecond' = second
    /\ sequence' = seq
    /\ issued' = Append(issued, [user |-> user, number |-> BuildOrderNumber(user, second, seq)])

\* Faulty: a second that lies back starts a sequence of its own.
NumberUnclamped(c, user, now) ==
    /\ waiting[c] = 0
    /\ Room
    /\ now # lastSecond
    /\ Issue(user, now, 0)
    /\ UNCHANGED <<clock, waiting, rowVars, sweep, woken>>

Number(c, user, now) ==
    LET fresh == sequence = -1 \/ now > lastSecond IN
    /\ waiting[c] = 0
    /\ Room
    /\ \/ fresh /\ Issue(user, now, 0)
       \/ ~fresh /\ sequence < MaxSequence /\ Issue(user, lastSecond, sequence + 1)
       \/ ~fresh /\ sequence = MaxSequence /\ clock > lastSecond /\ Issue(user, clock, 0)
    /\ UNCHANGED <<clock, waiting, rowVars, sweep, woken>>

\* The sequence of the second is used up: the caller gives the mutex back
\* while it sleeps.
WaitNextSecond(c) ==
    /\ waiting[c] = 0
    /\ Room
    /\ sequence = MaxSequence
    /\ clock <= lastSecond
    /\ waiting' = [waiting EXCEPT ![c] = lastSecond]
    /\ UNCHANGED <<clock, lastSecond, sequence, issued, woken, rowVars, sweep>>

\* Awake again it looks at the clock only, not at what others took meanwhile.
Wake(c, user) ==
    /\ waiting[c] # 0
    /\ clock > waiting[c]
    /\ Room
    /\ Issue(user, clock, 0)
    /\ waiting' = [waiting EXCEPT ![c] = 0]
    /\ woken' = woken \cup {clock}
    /\ UNCHANGED <<clock, rowVars, sweep>>

-----------------------------------------------------------------------------
(* The order rows: order_number is unique in a table, the id is taken from  *)
(* a growing sequence of ids.                                               *)

\* Ids of the process grow; a row is given one when it is inserted.
XidNew == lastId + 1

Stored(number) == \E r \in AllRows : r.number = number

\* Values of order_status.
Unpaid == 1
Cancelled == 2
Paid == 3

InsertOrder(i) ==
    LET o == issued[i]
        t == RouteByOrderNumber(o.number)
    IN /\ Cardinality(AllRows) < MaxRows /\ Room
       /\ ~Stored(o.number)
       /\ rows' = [rows EXCEPT ![t] = @ \cup
                    {[id |-> XidNew, number |-> o.number, user |-> o.user,
                      expire |-> clock + PayWindow, status |-> Unpaid]}]
       /\ lastId' = XidNew
       /\ UNCHANGED <<clock, genVars, sweep>>

\* The order is paid or cancelled by its own transaction.
Close(t, r, status) == rows' = [rows EXCEPT ![t] = (@ \ {r}) \cup {[r EXCEPT !.status = status]}]

SettleOrder(t, r) ==
    /\ r.status = Unpaid
    /\ \E status \in {Paid, Cancelled} : Close(t, r, status)
    /\ UNCHANGED <<clock, genVars, lastId, sweep>>

-----------------------------------------------------------------------------
(* What a user sees of the orders: GetOrder, the pages of ListOrders and    *)
(* the count of the tickets, one for each order.                            *)

Before(r, q) == r.expire < q.expire \/ (r.expire = q.expire /\ r.id < q.id)

FindOneByOrderNumber(table, number) == {r \in rows[table] : r.number = number}

FindOrderByNumber(number) == FindOneByOrderNumber(RouteByOrderNumber(number), number)

MapOrderDetail(r) ==
    [number |-> r.number, user |-> r.user, status |-> r.status, expire |-> r.expire]

GetOrder(user, number) ==
    {MapOrderDetail(r) : r \in {q \in FindOrderByNumber(number) : q.user = user}}

\* Newest first; all orders are created PayWindow before they expire.  The
\* offset counts the orders before a row.
FindPageByUserAndStatus(table, user, statuses, page) ==
    LET own == {r \in rows[table] : r.user = user /\ r.status \in statuses}
    IN {r \in own : Cardinality({q \in own : Before(r, q)}) \div PageSize = page - 1}

FindOrderPageByUser(user, statuses, page) ==
    FindPageByUserAndStatus(RouteByUserID(user), user, statuses, page)

MapOrderSummary(r) == [number |-> r.number, status |-> r.status, expire |-> r.expire]

ListOrders(user, statuses, page) ==
    {MapOrderSummary(r) : r \in FindOrderPageByUser(user, statuses, page)}

CountActiveTickets(table, user) ==
    Cardinality({r \in rows[table] : r.user = user /\ r.status \in {Unpaid, Paid}})

ListUnpaidReservations(table, user) ==
    {r.number : r \in {q \in rows[table] : q.user = user /\ q.status = Unpaid}}

CountActiveTicketsByUserShowTime(user) == CountActiveTickets(RouteByUserID(user), user)

ListUnpaidReservationsByUserShowTime(user) == ListUnpaidReservations(RouteByUserID(user), user)

AccountOrderCount(user) == CountActiveTicketsByUserShowTime(user)

-----------------------------------------------------------------------------
(* CloseExpiredOrders over a window of slots; FindExpiredUnpaidBySlot reads *)
(* page after page in the order of expire time and id.                      *)

Due(t, now) == {r \in rows[t] : r.status = Unpaid /\ r.expire <= now}

OrderMatchesLogicSlot(r, slot) == LogicSlotByOrderNumber(r.number) = slot

StartSlot(slot, now, remaining) ==
    [at |-> "page", slot |-> slot, now |-> now, remaining |-> remaining,
     cursor |-> [expire |-> 0, id |-> 0], found |-> {}, count |-> 0, todo |-> {},
     due |-> {r.number : r \in {q \in Due(RouteByLogicSlot(slot), now) :
                                  OrderMatchesLogicSlot(q, slot)}}]

SweepStart ==
    /\ sweep = NoSweep
    /\ AllRows # {}
    /\ \E limit \in SweepLimits : sweep' = StartSlot(FirstSlot, clock, limit)
    /\ UNCHANGED <<clock, genVars, rowVars>>

\* The first n rows of a set, or all if there are fewer: the only element of
\* FirstRows.
FirstRows(set, n) ==
    {p \in SUBSET set :
        /\ \A r \in p, q \in set \ p : Before(r, q)
        /\ Cardinality(p) <= n
        /\ p = set \/ Cardinality(p) = n}

\* Faulty: the cursor is the expire time alone.
LeftByTime(s) ==
    {r \in Due(RouteByLogicSlot(s.slot), s.now) : r.expire > s.cursor.expire}

Left(s) == {r \in Due(RouteByLogicSlot(s.slot), s.now) : Before(s.cursor, r)}

QueryLimit(limit) == IF limit < MinQuery THEN MinQuery ELSE limit

\* The cursor behind a page.
LastOf(page, cursor) ==
    IF page = {} THEN {cursor}
    ELSE {[expire |-> r.expire, id |-> r.id] :
            r \in {q \in page : \A p \in page : ~Before(q, p)}}

\* The rows of the page that belong to the slot are taken until the limit is
\* reached.  "count" is the length of the list that has been put together.
SweepPage ==
    LET limit == QueryLimit(sweep.remaining) IN
    /\ sweep.at = "page"
    /\ \E page \in FirstRows(Left(sweep), limit) :
       \E taken \in FirstRows({r \in page : OrderMatchesLogicSlot(r, sweep.slot)},
                              sweep.remaining - sweep.count) :
       \E cursor \in LastOf(page, sweep.cursor) :
          LET found == sweep.found \cup taken
              count == sweep.count + Cardinality(taken)
              over == count = sweep.remaining \/ Cardinality(page) < limit
          IN sweep' = [sweep EXCEPT !.found = found, !.count = count, !.cursor = cursor,
                                    !.at = IF over THEN "close" ELSE "page",
                                    !.todo = IF over THEN found ELSE {}]
    /\ UNCHANGED <<clock, genVars, rowVars>>

\* cancelOrderWithLock for the first order of the list; a cancelled order is
\* passed over.
SweepClose ==
    /\ sweep.at = "close"
    /\ \E o \in sweep.todo :
          /\ \A p \in sweep.todo \ {o} : Before(o, p)
          /\ \E r \in FindOrderByNumber(o.number) :
               /\ r.status # Paid
               /\ Close(RouteByOrderNumber(o.number), r, Cancelled)
          /\ sweep' = [sweep EXCEPT !.todo = @ \ {o}]
    /\ UNCHANGED <<clock, genVars, lastId>>

\* A query or a call that fails, or an order that is paid by now, ends the sweep
\* with an error.
SweepFails ==
    /\ sweep.at = "page" \/ (sweep.at = "close" /\ sweep.todo # {})
    /\ sweep' = NoSweep
    /\ UNCHANGED <<clock, genVars, rowVars>>

SweepNextSlot ==
    LET remaining == sweep.remaining - sweep.count IN
    /\ sweep.at = "close"
    /\ sweep.todo = {}
    /\ sweep' = IF sweep.slot < LastSlot /\ remaining > 0
                THEN StartSlot(sweep.slot + 1, sweep.now, remaining) ELSE NoSweep
    /\ UNCHANGED <<clock, genVars, rowVars>>

Next ==
    \/ Tick
    \/ \E c \in Callers, u \in Users : \E now \in {clock, clock - 1} : Number(c, u, now)
    \/ \E c \in Callers : WaitNextSecond(c)
    \/ \E c \in Callers, u \in Users : Wake(c, u)
    \/ \E i \in 1..Len(issued) : InsertOrder(i)
    \/ \E t \in Tables : \E r \in rows[t] : SettleOrder(t, r)
    \/ SweepStart \/ SweepPage \/ SweepClose \/ SweepFails \/ SweepNextSlot

Spec == Init /\ [][Next]_vars

-----------------------------------------------------------------------------
Times == [expire : Nat, id : Nat]

OrderRow == [id : Nat, number : Nat, user : Users, expire : Nat, status : {Unpaid, Cancelled, Paid}]

\* Types of the generator, the tables and the sweep.
TypeOK ==
    /\ clock \in Nat /\ lastSecond \in Nat /\ sequence \in -1 .. MaxSequence
    /\ waiting \in [Callers -> Nat]
    /\ issued \in Seq([user : Users, number : Nat])
    /\ woken \subseteq Nat
    /\ rows \in [Tables -> SUBSET OrderRow]
    /\ lastId \in Nat
    /\ sweep \in {NoSweep} \cup
         [at : {"page", "close"}, slot : Slots, now : Nat, remaining : Nat, cursor : Times,
          found : SUBSET OrderRow, count : Nat, todo : SUBSET OrderRow, due : SUBSET Nat]

(* Properties                                                               *)

Numbers == [i \in 1..Len(issued) |-> issued[i].number]

\* A number can be handed out twice only in a second in which a caller woke up
\* that had waited for the sequence to start again: stale clocks of the
\* callers alone never produce a duplicate.
DuplicateNeedsWait ==
    \A i, j \in 1..Len(issued) :
        i # j /\ Numbers[i] = Numbers[j] => ParseOrderNumber(Numbers[i]).time \in woken

\* Every order row is found by its owner under its number, it counts for him
\* and is reserved while it is unpaid, and it is on exactly one page of his list
\* of orders of its status: routes by number and by user end in the same table.
StoredWhereSought ==
    \A r \in AllRows :
        /\ MapOrderDetail(r) \in GetOrder(r.user, r.number)
        /\ AccountOrderCount(r.user)
             = Cardinality({q \in AllRows : q.user = r.user /\ q.status # Cancelled})
        /\ r.status = Unpaid => r.number \in ListUnpaidReservationsByUserShowTime(r.user)
        /\ \E p \in 1 .. Cardinality(AllRows) :
             \A n \in 1 .. Cardinality(AllRows) :
                MapOrderSummary(r) \in ListOrders(r.user, {r.status}, n) <=> n = p

\* When the pages of a slot have been read, the sweep has found no order of
\* another slot, none twice, no more than its limit and, unless the limit is
\* reached, every order of the slot that was due at the start and still is.
SweepExact ==
    sweep.at = "close" =>
        /\ \A o \in sweep.found : LogicSlotByOrderNumber(o.number) = sweep.slot
        /\ Cardinality({o.number : o \in sweep.found}) = sweep.count
        /\ sweep.count <= sweep.remaining
        /\ \/ sweep.count = sweep.remaining
           \/ \A r \in AllRows : r.status = Unpaid /\ r.number \in sweep.due
                => \E o \in sweep.found : o.number = r.number
=============================================================================
