-------------------------- MODULE OrderStoreProofs ---------------------------
(***************************************************************************)
(* Proofs about what the order database keeps.                              *)
(*                                                                          *)
(* OrderShards, for any widths of the fields of a number, any genes,        *)
(* routes, page sizes and limits: the inductive invariant has three parts,  *)
(* what the generator has handed out, where the rows are, and how far the   *)
(* sweep has come.                                                          *)
(*                                                                          *)
(* DelayTaskOutbox, at the end: safety of the outbox for any rows and       *)
(* dispatchers, any retry limit and any number of failures.                 *)
(***************************************************************************)
EXTENDS OrderShards, DelayTaskOutbox, FiniteSetTheorems, SequenceTheorems, WellFoundedInduction, TLAPS

-----------------------------------------------------------------------------
(* The layout of a number.                                                  *)

LEMMA DivMod ==
    ASSUME NEW a \in Nat, NEW m \in Nat \ {0}, NEW b \in 0 .. m - 1
    PROVE  (a * m + b) \div m = a /\ (a * m + b) % m = b
OBVIOUS

LEMMA DivDiv ==
    ASSUME NEW a \in Nat, NEW m \in Nat \ {0}, NEW n \in Nat \ {0}
    PROVE  a \div (n * m) = (a \div m) \div n
OBVIOUS

LEMMA NatProduct ==
    ASSUME NEW a \in Nat, NEW b \in Nat
    PROVE  /\ a * b \in Nat
           /\ a # 0 /\ b # 0 => a * b # 0
OBVIOUS

LEMMA TwoDigits ==
    ASSUME NEW g \in Nat \ {0}, NEW a \in 0 .. g - 1, NEW b \in 0 .. g - 1
    PROVE  a * g + b \in 0 .. g * g - 1
<1>1. (g - 1 - a) * g \in Nat /\ a * g \in Nat /\ g * g \in Nat
  BY NatProduct
<1>2. g * g = a * g + g + (g - 1 - a) * g
  OBVIOUS
<1>3. b \in Nat /\ b <= g - 1 /\ g \in Nat
  OBVIOUS
<1> QED
  BY <1>1, <1>2, <1>3

\* Parsing gives back what a number was built from.
LEMMA ParseBuilt ==
    ASSUME NEW user \in Users, NEW second \in Nat, NEW seq \in 0 .. MaxSequence
    PROVE  LET number == BuildOrderNumber(user, second, seq) IN
           /\ number \in Nat
           /\ ParseOrderNumber(number).time = second
           /\ ParseOrderNumber(number).sequence = seq
           /\ LogicSlotByOrderNumber(number) = LogicSlotByUserID(user)
<1> DEFINE G == GeneRange
           W == WorkerRange
           S == SequenceRange
           db == Genes[user].db
           table == Genes[user].table
           n1 == second * G + db
           n2 == n1 * G + table
           n3 == n2 * W + WorkerID
           n4 == n3 * S + seq
<1>1. /\ G \in Nat \ {0} /\ W \in Nat \ {0} /\ S \in Nat \ {0}
      /\ db \in 0 .. G - 1 /\ table \in 0 .. G - 1 /\ WorkerID \in 0 .. W - 1
      /\ seq \in 0 .. S - 1
  BY ShardsAssumption DEF MaxSequence
<1>2. BuildOrderNumber(user, second, seq) = n4
  BY DEF BuildOrderNumber
<1> HIDE DEF G, W, S, db, table
<1>3. n1 \in Nat /\ n1 \div G = second /\ n1 % G = db
  BY <1>1, DivMod, NatProduct
<1> HIDE DEF n1
<1>4. n2 \in Nat /\ n2 \div G = n1 /\ n2 % G = table
  BY <1>1, <1>3, DivMod, NatProduct
<1> HIDE DEF n2
<1>5. n3 \in Nat /\ n3 \div W = n2
  BY <1>1, <1>4, DivMod, NatProduct
<1> HIDE DEF n3
<1>6. n4 \in Nat /\ n4 \div S = n3 /\ n4 % S = seq
  BY <1>1, <1>5, DivMod, NatProduct
<1> HIDE DEF n4
<1>7. W * S \in Nat \ {0} /\ G * (W * S) \in Nat \ {0}
  BY <1>1, NatProduct
<1>8. n4 \div (W * S) = n2
  BY <1>1, <1>5, <1>6, DivDiv
<1>9. n4 \div (G * (W * S)) = n1
  BY <1>1, <1>4, <1>6, <1>7, <1>8, DivDiv
<1>10. n4 \div (G * (G * (W * S))) = second
  BY <1>1, <1>3, <1>6, <1>7, <1>9, DivDiv
<1>11. /\ ParseOrderNumber(n4).time = second
       /\ ParseOrderNumber(n4).db = db
       /\ ParseOrderNumber(n4).table = table
       /\ ParseOrderNumber(n4).sequence = seq
  BY <1>3, <1>4, <1>6, <1>8, <1>9, <1>10
     DEF ParseOrderNumber, timePartShift, dbGeneShift, tableGeneShift, G, W, S
<1> QED
  BY <1>2, <1>6, <1>11 DEF LogicSlotByOrderNumber, LogicSlotByUserID, db, table

-----------------------------------------------------------------------------
(* The generator.                                                           *)

Parsed(i) == ParseOrderNumber(issued[i].number)

\* The second of the generator is not in the future, its sequence is beyond
\* what was handed out in that second, and numbers of a second in which nobody
\* woke up have different sequences.
Generator ==
    /\ clock # 0
    /\ lastSecond <= clock
    /\ sequence = -1 => issued = <<>> /\ lastSecond = 0
    /\ \A i \in 1 .. Len(issued) :
         /\ Parsed(i).time \in Nat /\ Parsed(i).sequence \in Nat
         /\ Parsed(i).time <= lastSecond
         /\ Parsed(i).time = lastSecond /\ lastSecond \notin woken => Parsed(i).sequence <= sequence
         /\ LogicSlotByOrderNumber(issued[i].number) = LogicSlotByUserID(issued[i].user)
    /\ \A i, j \in 1 .. Len(issued) :
         i # j /\ Parsed(i).time = Parsed(j).time /\ Parsed(i).time \notin woken
           => Parsed(i).sequence # Parsed(j).sequence

\* Handing out a number keeps this when the second is new, when the sequence
\* goes on, or when the caller is known to have waited.
LEMMA IssueStep ==
    ASSUME TypeOK, Generator, NEW user \in Users, NEW second \in Nat, NEW seq \in 0 .. MaxSequence,
           Issue(user, second, seq), clock' = clock,
           lastSecond <= second, second <= clock,
           woken \subseteq woken', woken' \subseteq Nat,
           \/ second > lastSecond
           \/ sequence = -1
           \/ second = lastSecond /\ seq = sequence + 1
           \/ second \in woken'
    PROVE  /\ Generator'
           /\ issued' \in Seq([user : Users, number : Nat])
           /\ lastSecond' \in Nat
           /\ sequence' \in -1 .. MaxSequence
<1> DEFINE number == BuildOrderNumber(user, second, seq)
           new == [user |-> user, number |-> number]
<1> PICK n \in Nat : n = Len(issued)
  BY DEF TypeOK
<1>1. /\ number \in Nat
      /\ ParseOrderNumber(number).time = second
      /\ ParseOrderNumber(number).sequence = seq
      /\ LogicSlotByOrderNumber(number) = LogicSlotByUserID(user)
  BY ParseBuilt
<1>2. issued' = Append(issued, new) /\ lastSecond' = second /\ sequence' = seq
  BY DEF Issue
<1>3. new \in [user : Users, number : Nat]
  BY <1>1
<1> HIDE DEF number, new
<1>4. /\ issued' \in Seq([user : Users, number : Nat])
      /\ n \in Nat
      /\ Len(issued') = n + 1
      /\ issued'[n + 1] = new
      /\ \A i \in 1 .. n : issued'[i] = issued[i]
  BY <1>2, <1>3 DEF TypeOK
<1>5. /\ \A i \in 1 .. n : Parsed(i)' = Parsed(i)
      /\ Parsed(n + 1)' = ParseOrderNumber(number)
      /\ new.user = user /\ new.number = number
  BY <1>4 DEF Parsed, new
<1>6. \A i \in 1 .. n + 1 : i \in 1 .. n \/ i = n + 1
  BY <1>4
<1>7. \A i \in 1 .. n : Parsed(i).time = second /\ second \notin woken' => Parsed(i).sequence < seq
  BY DEF Generator, TypeOK
<1>8. ASSUME NEW i \in 1 .. n + 1
      PROVE  (/\ Parsed(i).time \in Nat /\ Parsed(i).sequence \in Nat
              /\ Parsed(i).time <= lastSecond
              /\ Parsed(i).time = lastSecond /\ lastSecond \notin woken
                   => Parsed(i).sequence <= sequence
              /\ LogicSlotByOrderNumber(issued[i].number) = LogicSlotByUserID(issued[i].user))'
  <2>1. CASE i = n + 1
    BY <1>1, <1>2, <1>4, <1>5, <2>1
  <2>2. CASE i \in 1 .. n
    <3>1. /\ Parsed(i).time \in Nat /\ Parsed(i).sequence \in Nat
          /\ Parsed(i).time <= lastSecond
          /\ LogicSlotByOrderNumber(issued[i].number) = LogicSlotByUserID(issued[i].user)
      BY <2>2 DEF Generator
    <3> QED
      BY <1>2, <1>4, <1>5, <1>7, <2>2, <3>1 DEF TypeOK
  <2> QED
    BY <1>6, <2>1, <2>2
<1>9. ASSUME NEW i \in 1 .. n + 1, NEW j \in 1 .. n + 1,
             i # j, Parsed(i)'.time = Parsed(j)'.time, Parsed(i)'.time \notin woken'
      PROVE  Parsed(i)'.sequence # Parsed(j)'.sequence
  <2>1. CASE i \in 1 .. n /\ j \in 1 .. n
    BY <1>5, <1>9, <2>1 DEF Generator
  <2>2. CASE i = n + 1 /\ j \in 1 .. n
    <3>1. Parsed(j).sequence \in Nat
      BY <2>2 DEF Generator
    <3> QED
      BY <1>1, <1>5, <1>7, <1>9, <2>2, <3>1
  <2>3. CASE j = n + 1 /\ i \in 1 .. n
    <3>1. Parsed(i).sequence \in Nat
      BY <2>3 DEF Generator
    <3> QED
      BY <1>1, <1>5, <1>7, <1>9, <2>3, <3>1
  <2> QED
    BY <1>6, <1>9, <2>1, <2>2, <2>3
<1>10. sequence' # -1 /\ sequence' \in -1 .. MaxSequence /\ clock' # 0 /\ lastSecond' <= clock'
  BY <1>2 DEF Generator
<1> QED
  BY <1>2, <1>4, <1>8, <1>9, <1>10 DEF Generator

\* Every step keeps what is said about the generator.
LEMMA GeneratorStep ==
    ASSUME TypeOK, Generator, [Next]_vars
    PROVE  /\ Generator'
           /\ clock' \in Nat /\ lastSecond' \in Nat /\ sequence' \in -1 .. MaxSequence
           /\ waiting' \in [Callers -> Nat]
           /\ issued' \in Seq([user : Users, number : Nat])
           /\ woken' \subseteq Nat
<1>1. CASE UNCHANGED <<clock, genVars>>
  BY <1>1 DEF Generator, TypeOK, genVars, Parsed
<1>2. CASE Tick
  BY <1>2 DEF Tick, Generator, TypeOK, genVars, Parsed
<1>3. ASSUME NEW c \in Callers, NEW user \in Users, NEW now \in {clock, clock - 1},
             Number(c, user, now)
      PROVE  /\ Generator'
             /\ issued' \in Seq([user : Users, number : Nat])
             /\ lastSecond' \in Nat
             /\ sequence' \in -1 .. MaxSequence
  <2>1. now \in Nat /\ now <= clock /\ 0 \in 0 .. MaxSequence
    BY ShardsAssumption DEF Generator, TypeOK, MaxSequence
  <2>2. UNCHANGED <<clock, waiting, woken>>
    BY <1>3 DEF Number
  <2>3. CASE (sequence = -1 \/ now > lastSecond) /\ Issue(user, now, 0)
    <3>1. lastSecond <= now
      BY <2>1, <2>3 DEF Generator, TypeOK
    <3> QED
      BY <2>1, <2>2, <2>3, <3>1, IssueStep DEF TypeOK
  <2>4. CASE /\ ~(sequence = -1 \/ now > lastSecond) /\ sequence < MaxSequence
             /\ Issue(user, lastSecond, sequence + 1)
    <3>1. /\ lastSecond \in Nat /\ lastSecond <= clock /\ lastSecond <= lastSecond
          /\ sequence + 1 \in 0 .. MaxSequence
      BY <2>4, ShardsAssumption DEF Generator, TypeOK, MaxSequence
    <3> QED
      BY <2>2, <2>4, <3>1, IssueStep DEF TypeOK
  <2>5. CASE clock > lastSecond /\ Issue(user, clock, 0)
    <3>1. clock \in Nat /\ lastSecond <= clock /\ clock <= clock
      BY DEF TypeOK, Generator
    <3> QED
      BY <2>1, <2>2, <2>5, <3>1, IssueStep DEF TypeOK
  <2> QED
    BY <1>3, <2>3, <2>4, <2>5 DEF Number
<1>4. ASSUME NEW c \in Callers, WaitNextSecond(c)
      PROVE  /\ Generator'
             /\ waiting' \in [Callers -> Nat]
  BY <1>4 DEF WaitNextSecond, Generator, TypeOK, Parsed
<1>5. ASSUME NEW c \in Callers, NEW user \in Users, Wake(c, user)
      PROVE  /\ Generator'
             /\ issued' \in Seq([user : Users, number : Nat])
             /\ lastSecond' \in Nat
             /\ sequence' \in -1 .. MaxSequence
             /\ waiting' \in [Callers -> Nat]
             /\ woken' \subseteq Nat
  <2>1. /\ clock' = clock /\ clock \in Nat /\ lastSecond <= clock /\ clock <= clock
        /\ woken \subseteq woken' /\ woken' \subseteq Nat /\ clock \in woken'
        /\ waiting' \in [Callers -> Nat]
        /\ 0 \in 0 .. MaxSequence
    <3>1. 0 \in 0 .. MaxSequence
      BY ShardsAssumption DEF MaxSequence
    <3>2. clock \in Nat /\ lastSecond <= clock /\ clock <= clock
      BY DEF TypeOK, Generator
    <3> QED
      BY <1>5, <3>1, <3>2 DEF Wake, TypeOK
  <2>2. Issue(user, clock, 0)
    BY <1>5 DEF Wake
  <2> QED
    BY <2>1, <2>2, IssueStep
<1>6. \/ UNCHANGED <<clock, genVars>>
      \/ Tick
      \/ \E c \in Callers, u \in Users : \E now \in {clock, clock - 1} : Number(c, u, now)
      \/ \E c \in Callers : WaitNextSecond(c)
      \/ \E c \in Callers, u \in Users : Wake(c, u)
  BY DEF Next, vars, InsertOrder, SettleOrder, SweepStart, SweepPage, SweepClose, SweepFails,
         SweepNextSlot
<1>7. CASE \E c \in Callers, u \in Users : \E now \in {clock, clock - 1} : Number(c, u, now)
  <2>1. UNCHANGED <<clock, waiting, woken>>
    BY <1>7 DEF Number
  <2> QED
    BY <1>3, <1>7, <2>1 DEF TypeOK
<1>8. CASE \E c \in Callers : WaitNextSecond(c)
  BY <1>4, <1>8 DEF WaitNextSecond, TypeOK
<1>9. CASE \E c \in Callers, u \in Users : Wake(c, u)
  BY <1>5, <1>9 DEF Wake, TypeOK
<1> QED
  BY <1>1, <1>2, <1>6, <1>7, <1>8, <1>9

-----------------------------------------------------------------------------
(* The rows.                                                                *)

LEMMA InAllRows == \A r : r \in AllRows <=> \E t \in Tables : r \in rows[t]
BY DEF AllRows

\* Rows are where both routes lead, have different ids and numbers, and there
\* are finitely many.
Placed ==
    /\ \A t \in Tables : \A r \in rows[t] :
         t = RouteByOrderNumber(r.number) /\ t = RouteByUserID(r.user) /\ r.id \in 1 .. lastId
    /\ \A r, q \in AllRows : r.id = q.id \/ r.number = q.number => r = q
    /\ IsFiniteSet(AllRows)

\* Two states of a row.
SameOrder(r, q) ==
    r.id = q.id /\ r.number = q.number /\ r.user = q.user /\ r.expire = q.expire

\* What the rows may do in a step: one is added, with a new number and a new
\* id, or some are settled.
Settles ==
    /\ \A t \in Tables :
         /\ \A q \in rows'[t] : \E r \in rows[t] : SameOrder(r, q) /\ (q.status = Unpaid => q = r)
         /\ \A r \in rows[t] : \E q \in rows'[t] : SameOrder(r, q)
    /\ UNCHANGED lastId

Adds(t, new) ==
    /\ t \in Tables
    /\ rows' = [rows EXCEPT ![t] = @ \cup {new}]
    /\ new \in OrderRow
    /\ new.id = lastId + 1 /\ lastId' = lastId + 1
    /\ ~Stored(new.number)

\* The effect of a settlement on the tables.
LEMMA CloseStep ==
    ASSUME TypeOK, Placed, NEW t \in Tables, NEW r \in rows[t], NEW status \in {Cancelled, Paid},
           Close(t, r, status), UNCHANGED lastId
    PROVE  Settles /\ Placed' /\ rows' \in [Tables -> SUBSET OrderRow]
<1> DEFINE s == [r EXCEPT !.status = status]
<1>1. r \in OrderRow
  BY DEF TypeOK
<1>2. s \in OrderRow /\ SameOrder(r, s) /\ s.status # Unpaid
  BY <1>1 DEF OrderRow, SameOrder, Unpaid, Cancelled, Paid
<1>3. /\ rows' \in [Tables -> SUBSET OrderRow]
      /\ rows'[t] = (rows[t] \ {r}) \cup {s}
      /\ \A u \in Tables : u # t => rows'[u] = rows[u]
  BY <1>2 DEF Close, TypeOK
<1> HIDE DEF s
<1>4. Settles
  BY <1>2, <1>3 DEF Settles, SameOrder
<1>5. r \in AllRows
  BY InAllRows
<1>6. \A q \in AllRows' : q = s \/ (q \in AllRows /\ q # r) \/ (q = r /\ \E u \in Tables : u # t /\ r \in rows[u])
  BY <1>3 DEF AllRows
<1>7. \A u \in Tables : r \in rows[u] => u = t
  BY DEF Placed
<1>8. \A q \in AllRows' : q = s \/ (q \in AllRows /\ q # r)
  BY <1>6, <1>7
<1>9. \A p, q \in AllRows' : p.id = q.id \/ p.number = q.number => p = q
  BY <1>2, <1>5, <1>8 DEF Placed, SameOrder
<1>10. IsFiniteSet(AllRows')
  <2>1. AllRows' \subseteq AllRows \cup {s}
    BY <1>8
  <2> QED
    BY <2>1, FS_AddElement, FS_Subset DEF Placed
<1>11. \A u \in Tables : \A q \in rows'[u] :
         u = RouteByOrderNumber(q.number) /\ u = RouteByUserID(q.user) /\ q.id \in 1 .. lastId
  BY <1>2, <1>3 DEF Placed, SameOrder
<1> QED
  BY <1>3, <1>4, <1>9, <1>10, <1>11 DEF Placed

LEMMA AddStep ==
    ASSUME TypeOK, Placed, NEW t, NEW new, Adds(t, new),
           t = RouteByOrderNumber(new.number), t = RouteByUserID(new.user)
    PROVE  Placed' /\ rows' \in [Tables -> SUBSET OrderRow] /\ lastId' \in Nat
<1> USE DEF Adds
<1>1. /\ rows' \in [Tables -> SUBSET OrderRow]
      /\ rows'[t] = rows[t] \cup {new}
      /\ \A u \in Tables : u # t => rows'[u] = rows[u]
      /\ lastId \in Nat /\ lastId' \in Nat
  BY DEF TypeOK
<1>2. AllRows' = AllRows \cup {new}
  BY <1>1 DEF AllRows
<1>3. \A r \in AllRows : r.id \in 1 .. lastId /\ r.number # new.number
  BY InAllRows DEF Placed, Stored
<1>4. \A p, q \in AllRows' : p.id = q.id \/ p.number = q.number => p = q
  BY <1>1, <1>2, <1>3 DEF Placed
<1>5. IsFiniteSet(AllRows')
  BY <1>2, FS_AddElement DEF Placed
<1>6. \A u \in Tables : \A q \in rows'[u] :
         u = RouteByOrderNumber(q.number) /\ u = RouteByUserID(q.user) /\ q.id \in 1 .. lastId'
  <2>1. new.id \in 1 .. lastId' /\ \A q : q \in 1 .. lastId => q \in 1 .. lastId'
    BY <1>1
  <2> QED
    BY <1>1, <2>1 DEF Placed
<1> QED
  BY <1>1, <1>4, <1>5, <1>6 DEF Placed

\* What the sweep has found are orders, read when they were unpaid.
Listed ==
    sweep # NoSweep =>
        /\ sweep.todo \subseteq sweep.found
        /\ \A o \in sweep.found : o.status = Unpaid /\ \E r \in AllRows : SameOrder(r, o)

\* A step leaves the rows alone, settles one or adds one.
LEMMA RowsStep ==
    ASSUME TypeOK, Generator, Placed, Listed, [Next]_vars
    PROVE  /\ \/ UNCHANGED rowVars
              \/ Settles
              \/ \E t, new : Adds(t, new) /\ UNCHANGED <<clock, sweep>>
           /\ Placed'
           /\ rows' \in [Tables -> SUBSET OrderRow] /\ lastId' \in Nat
<1>1. CASE UNCHANGED rowVars
  <2>1. AllRows' = AllRows
    BY <1>1 DEF rowVars, AllRows
  <2> QED
    BY <1>1, <2>1 DEF rowVars, Placed, TypeOK
<1>2. ASSUME NEW i \in 1 .. Len(issued), InsertOrder(i)
      PROVE  \E t, new : /\ Adds(t, new) /\ UNCHANGED <<clock, sweep>>
                         /\ t = RouteByOrderNumber(new.number) /\ t = RouteByUserID(new.user)
  <2> DEFINE o == issued[i]
             t == RouteByOrderNumber(o.number)
             new == [id |-> XidNew, number |-> o.number, user |-> o.user,
                     expire |-> clock + PayWindow, status |-> Unpaid]
  <2>1. o \in [user : Users, number : Nat]
    <3>1. issued \in Seq([user : Users, number : Nat])
      BY DEF TypeOK
    <3>2. issued[i] \in [user : Users, number : Nat]
      BY <3>1, ElementOfSeq
    <3> QED
      BY <3>2
  <2>2. LogicSlotByOrderNumber(o.number) = LogicSlotByUserID(o.user)
    BY DEF Generator
  <2>3. new \in OrderRow
    <3>1. clock + PayWindow \in Nat /\ XidNew \in Nat /\ o.number \in Nat /\ o.user \in Users
      <4>1. clock \in Nat /\ lastId \in Nat /\ PayWindow \in Nat
        BY ShardsAssumption DEF TypeOK
      <4>2. o.number \in Nat /\ o.user \in Users
        BY <2>1
      <4> QED
        BY <4>1, <4>2 DEF XidNew
    <3> QED
      BY <3>1 DEF OrderRow, Unpaid
  <2>4. t = RouteByUserID(o.user)
    BY <2>2 DEF RouteByOrderNumber, RouteByUserID, RouteByLogicSlot
  <2>5. LogicSlotByUserID(o.user) \in Slots
    <3>1. Genes[o.user] \in [db : 0 .. GeneRange - 1, table : 0 .. GeneRange - 1] /\ GeneRange \in Nat \ {0}
      BY <2>1, ShardsAssumption
    <3>2. \A a, b \in 0 .. GeneRange - 1 : a * GeneRange + b \in 0 .. GeneRange * GeneRange - 1
      BY <3>1, TwoDigits
    <3> QED
      BY <3>1, <3>2 DEF LogicSlotByUserID, LogicSlot, Slots
  <2>6. t \in Tables
    BY <2>2, <2>5 DEF Tables, RouteByOrderNumber, RouteByLogicSlot
  <2>7. Adds(t, new) /\ UNCHANGED <<clock, sweep>>
    BY <1>2, <2>3, <2>6 DEF Adds, InsertOrder, XidNew
  <2> QED
    BY <2>4, <2>7
<1>3. ASSUME NEW t \in Tables, NEW r \in rows[t], SettleOrder(t, r)
      PROVE  Settles /\ Placed' /\ rows' \in [Tables -> SUBSET OrderRow] /\ lastId' \in Nat
  BY <1>3, CloseStep DEF SettleOrder, TypeOK
<1>4. ASSUME SweepClose
      PROVE  Settles /\ Placed' /\ rows' \in [Tables -> SUBSET OrderRow] /\ lastId' \in Nat
  <2>1. PICK o \in sweep.todo : \E r \in FindOrderByNumber(o.number) :
                                   Close(RouteByOrderNumber(o.number), r, Cancelled)
    BY <1>4 DEF SweepClose
  <2>2. PICK r \in FindOrderByNumber(o.number) : Close(RouteByOrderNumber(o.number), r, Cancelled)
    BY <2>1
  <2>3. PICK p \in AllRows : p.number = o.number
    BY <1>4, <2>1 DEF Listed, SweepClose, NoSweep, SameOrder
  <2>4. RouteByOrderNumber(o.number) \in Tables
    BY <2>3, InAllRows DEF Placed
  <2>5. r \in rows[RouteByOrderNumber(o.number)]
    BY <2>2 DEF FindOrderByNumber, FindOneByOrderNumber
  <2>6. UNCHANGED lastId
    BY <1>4 DEF SweepClose
  <2> QED
    BY <2>2, <2>4, <2>5, <2>6, CloseStep DEF TypeOK
<1>5. \/ UNCHANGED rowVars
      \/ \E i \in 1 .. Len(issued) : InsertOrder(i)
      \/ \E t \in Tables : \E r \in rows[t] : SettleOrder(t, r)
      \/ SweepClose
  BY DEF Next, vars, Tick, Number, WaitNextSecond, Wake, SweepStart, SweepPage, SweepFails,
         SweepNextSlot
<1>6. CASE \E i \in 1 .. Len(issued) : InsertOrder(i)
  BY <1>2, <1>6, AddStep
<1> QED
  BY <1>1, <1>3, <1>4, <1>5, <1>6

-----------------------------------------------------------------------------
(* The sweep.                                                               *)

\* Orders of the slot that were due when its search began and still are.
StillDue == {r \in AllRows : r.status = Unpaid /\ r.number \in sweep.due}

\* The list of the sweep has no order twice and only orders of the slot, and what
\* it has not found of the due orders lies behind the cursor.
Swept ==
    sweep # NoSweep =>
        /\ sweep.count <= sweep.remaining
        /\ IsFiniteSet(sweep.found) /\ Cardinality(sweep.found) = sweep.count
        /\ \A o \in sweep.found : OrderMatchesLogicSlot(o, sweep.slot)
        /\ \A n \in sweep.due : Stored(n)
        /\ \A r \in StillDue : /\ r \in rows[RouteByLogicSlot(sweep.slot)]
                               /\ OrderMatchesLogicSlot(r, sweep.slot) /\ r.expire <= sweep.now
        /\ sweep.at = "page" =>
             /\ sweep.count < sweep.remaining
             /\ \A o \in sweep.found : ~Before(sweep.cursor, o)
             /\ \A r \in StillDue : r \in sweep.found \/ Before(sweep.cursor, r)
        /\ sweep.at = "close" => sweep.count = sweep.remaining \/ StillDue \subseteq sweep.found

\* The sweep is left alone, or it has done with one order of its list.
SweepGoesOn ==
    \/ UNCHANGED sweep
    \/ sweep.at = "close" /\ \E o : sweep' = [sweep EXCEPT !.todo = @ \ {o}]

\* Settled rows and new rows do not disturb a sweep under way.
LEMMA SweepKept ==
    ASSUME TypeOK, Placed, Listed, Swept, SweepGoesOn,
           \/ UNCHANGED rowVars
           \/ Settles
           \/ \E t, new : Adds(t, new)
    PROVE  Listed' /\ Swept'
<1>0. /\ sweep' # NoSweep <=> sweep # NoSweep
      /\ sweep # NoSweep =>
           /\ sweep'.at = sweep.at /\ sweep'.slot = sweep.slot /\ sweep'.now = sweep.now
           /\ sweep'.remaining = sweep.remaining /\ sweep'.cursor = sweep.cursor
           /\ sweep'.found = sweep.found /\ sweep'.count = sweep.count /\ sweep'.due = sweep.due
           /\ sweep'.todo \subseteq sweep.todo
  BY DEF SweepGoesOn, TypeOK, NoSweep
<1>1. /\ \A n : Stored(n) => Stored(n)'
      /\ \A o : (\E r \in AllRows : SameOrder(r, o)) => (\E r \in AllRows' : SameOrder(r, o))
      /\ \A t \in Tables : \A q \in rows'[t] : q.status = Unpaid /\ Stored(q.number) => q \in rows[t]
  <2>1. CASE UNCHANGED rowVars
    BY <2>1 DEF rowVars, AllRows, Stored
  <2>2. CASE Settles
    <3>1. \A r \in AllRows : \E q \in AllRows' : SameOrder(r, q)
      BY <2>2 DEF Settles, AllRows
    <3>2. \A t \in Tables : \A q \in rows'[t] : q.status = Unpaid => q \in rows[t]
      BY <2>2 DEF Settles
    <3> QED
      BY <3>1, <3>2 DEF Stored, SameOrder
  <2>3. ASSUME NEW t, NEW new, Adds(t, new)
        PROVE  /\ AllRows' = AllRows \cup {new}
               /\ \A u \in Tables : \A q \in rows'[u] : q \in rows[u] \/ q = new
    <3>1. /\ rows'[t] = rows[t] \cup {new}
          /\ \A u \in Tables : u # t => rows'[u] = rows[u]
          /\ t \in Tables
      BY <2>3 DEF Adds, TypeOK
    <3> QED
      BY <3>1 DEF AllRows
  <2>4. CASE \E t, new : Adds(t, new)
    <3> PICK t, new : Adds(t, new)
      BY <2>4
    <3>1. /\ AllRows' = AllRows \cup {new}
          /\ \A u \in Tables : \A q \in rows'[u] : q \in rows[u] \/ q = new
          /\ ~Stored(new.number)
      BY <2>3 DEF Adds
    <3> QED
      BY <3>1 DEF Stored
  <2> QED
    BY <2>1, <2>2, <2>4
<1>2. Listed'
  BY <1>0, <1>1 DEF Listed
<1>3. sweep # NoSweep => StillDue' \subseteq StillDue
  BY <1>0, <1>1, InAllRows DEF StillDue, Swept, AllRows
<1>4. ASSUME sweep # NoSweep, NEW r \in StillDue'
      PROVE  r \in rows'[RouteByLogicSlot(sweep.slot)]
  <2>1. r \in StillDue /\ r \in rows[RouteByLogicSlot(sweep.slot)]
    BY <1>3, <1>4 DEF Swept
  <2>2. RouteByLogicSlot(sweep.slot) \in Tables
    BY <1>4 DEF TypeOK, Tables
  <2>3. PICK u \in Tables : r \in rows'[u]
    BY <1>4 DEF StillDue, AllRows
  <2>4. r \in rows[u]
    BY <1>0, <1>1, <1>4, <2>1, <2>3 DEF StillDue, Swept
  <2>5. u = RouteByLogicSlot(sweep.slot)
    BY <2>1, <2>2, <2>4 DEF Placed
  <2> QED
    BY <2>3, <2>5
<1>5. Swept'
  <2> SUFFICES ASSUME sweep # NoSweep
               PROVE  Swept'
    BY <1>0 DEF Swept
  <2>1. \A n \in sweep.due : Stored(n)'
    BY <1>1 DEF Swept
  <2> QED
    BY <1>0, <1>3, <1>4, <2>1 DEF Swept
<1> QED
  BY <1>2, <1>5

\* The search of a slot begins: everything due lies behind the cursor.
LEMMA StartSlotStep ==
    ASSUME TypeOK, Placed, UNCHANGED rowVars,
           NEW slot \in Slots, NEW now \in Nat, NEW limit \in Nat \ {0},
           sweep' = StartSlot(slot, now, limit)
    PROVE  /\ Listed' /\ Swept'
           /\ sweep' \in [at : {"page", "close"}, slot : Slots, now : Nat, remaining : Nat,
                          cursor : Times, found : SUBSET OrderRow, count : Nat,
                          todo : SUBSET OrderRow, due : SUBSET Nat]
<1> DEFINE table == RouteByLogicSlot(slot)
           mine == {q \in Due(table, now) : OrderMatchesLogicSlot(q, slot)}
           due == {r.number : r \in mine}
<1>1. table \in Tables
  BY DEF Tables
<1>2. /\ mine \subseteq rows[table]
      /\ \A r \in mine : r.status = Unpaid /\ r.expire <= now /\ OrderMatchesLogicSlot(r, slot)
  BY DEF Due
<1>3. mine \subseteq OrderRow /\ mine \subseteq AllRows
  BY <1>1, <1>2, InAllRows DEF TypeOK
<1>4. due \subseteq Nat /\ \A n \in due : Stored(n)
  BY <1>3 DEF OrderRow, Stored
<1>5. \A r \in AllRows : r.number \in due => r \in mine
  BY <1>3 DEF Placed
<1>6. \A r \in AllRows : Before([expire |-> 0, id |-> 0], r)
  <2>1. \A r \in AllRows : r \in OrderRow /\ r.id \in 1 .. lastId
    BY InAllRows DEF Placed, TypeOK
  <2> QED
    BY <2>1 DEF Before, OrderRow, TypeOK
<1>7. sweep' = [at |-> "page", slot |-> slot, now |-> now, remaining |-> limit,
                cursor |-> [expire |-> 0, id |-> 0], found |-> {}, count |-> 0, todo |-> {},
                due |-> due]
  BY DEF StartSlot
<1> HIDE DEF due, mine, table
<1>8. /\ sweep'.at = "page" /\ sweep'.slot = slot /\ sweep'.now = now /\ sweep'.remaining = limit
      /\ sweep'.cursor = [expire |-> 0, id |-> 0] /\ sweep'.found = {} /\ sweep'.count = 0
      /\ sweep'.todo = {} /\ sweep'.due = due
  BY <1>7
<1>9. sweep' \in [at : {"page", "close"}, slot : Slots, now : Nat, remaining : Nat,
                  cursor : Times, found : SUBSET OrderRow, count : Nat,
                  todo : SUBSET OrderRow, due : SUBSET Nat]
  BY <1>4, <1>7 DEF Times
<1>10. Listed'
  BY <1>8 DEF Listed
<1>11. AllRows' = AllRows /\ rows' = rows /\ \A n : Stored(n)' = Stored(n)
  BY DEF rowVars, AllRows, Stored
<1>12. \A r \in StillDue' : r \in mine /\ r \in AllRows
  BY <1>5, <1>8, <1>11 DEF StillDue
<1>13. Swept'
  <2>1. IsFiniteSet(sweep'.found) /\ Cardinality(sweep'.found) = 0
    BY <1>8, FS_EmptySet
  <2>2. \A n \in sweep'.due : Stored(n)'
    BY <1>4, <1>8, <1>11
  <2>3. \A r \in StillDue' : /\ r \in rows'[RouteByLogicSlot(slot)]
                             /\ OrderMatchesLogicSlot(r, slot) /\ r.expire <= now
                             /\ Before([expire |-> 0, id |-> 0], r)
    BY <1>2, <1>6, <1>11, <1>12 DEF table
  <2>4. 0 <= limit /\ 0 < limit
    OBVIOUS
  <2> QED
    BY <1>8, <2>1, <2>2, <2>3, <2>4 DEF Swept
<1> QED
  BY <1>9, <1>10, <1>13

\* A page: what it takes is new, and it leaves nothing due before its end.
LEMMA SweepPageStep ==
    ASSUME TypeOK, Placed, Listed, Swept, SweepPage
    PROVE  /\ Listed' /\ Swept'
           /\ sweep' \in [at : {"page", "close"}, slot : Slots, now : Nat, remaining : Nat,
                          cursor : Times, found : SUBSET OrderRow, count : Nat,
                          todo : SUBSET OrderRow, due : SUBSET Nat]
<1> DEFINE limit == QueryLimit(sweep.remaining)
           left == Left(sweep)
           wanted(page) == {r \in page : OrderMatchesLogicSlot(r, sweep.slot)}
           room == sweep.remaining - sweep.count
<1>1. PICK page \in FirstRows(left, limit) : \E taken \in FirstRows(wanted(page), room) :
      \E cursor \in LastOf(page, sweep.cursor) :
          LET found == sweep.found \cup taken
              count == sweep.count + Cardinality(taken)
              over == count = sweep.remaining \/ Cardinality(page) < limit
          IN sweep' = [sweep EXCEPT !.found = found, !.count = count, !.cursor = cursor,
                                    !.at = IF over THEN "close" ELSE "page",
                                    !.todo = IF over THEN found ELSE {}]
  BY DEF SweepPage
<1>2. PICK taken \in FirstRows(wanted(page), room) :
      \E cursor \in LastOf(page, sweep.cursor) :
          LET found == sweep.found \cup taken
              count == sweep.count + Cardinality(taken)
              over == count = sweep.remaining \/ Cardinality(page) < limit
          IN sweep' = [sweep EXCEPT !.found = found, !.count = count, !.cursor = cursor,
                                    !.at = IF over THEN "close" ELSE "page",
                                    !.todo = IF over THEN found ELSE {}]
  BY <1>1
<1>3. PICK cursor \in LastOf(page, sweep.cursor) :
          LET found == sweep.found \cup taken
              count == sweep.count + Cardinality(taken)
              over == count = sweep.remaining \/ Cardinality(page) < limit
          IN sweep' = [sweep EXCEPT !.found = found, !.count = count, !.cursor = cursor,
                                    !.at = IF over THEN "close" ELSE "page",
                                    !.todo = IF over THEN found ELSE {}]
  BY <1>2
<1> DEFINE found == sweep.found \cup taken
           count == sweep.count + Cardinality(taken)
           over == count = sweep.remaining \/ Cardinality(page) < limit
<1>4. /\ sweep \in [at : {"page", "close"}, slot : Slots, now : Nat, remaining : Nat,
                    cursor : Times, found : SUBSET OrderRow, count : Nat,
                    todo : SUBSET OrderRow, due : SUBSET Nat]
      /\ sweep # NoSweep /\ sweep.at = "page"
      /\ UNCHANGED rowVars
  BY DEF TypeOK, SweepPage, NoSweep
<1>5. /\ sweep'.found = found /\ sweep'.count = count /\ sweep'.cursor = cursor
      /\ sweep'.at = IF over THEN "close" ELSE "page"
      /\ sweep'.todo = IF over THEN found ELSE {}
      /\ sweep'.slot = sweep.slot /\ sweep'.now = sweep.now
      /\ sweep'.remaining = sweep.remaining /\ sweep'.due = sweep.due
      /\ sweep' # NoSweep
  BY <1>3, <1>4 DEF NoSweep
\* The page and what is taken of it.
<1>6. /\ page \subseteq left /\ \A r \in page, q \in left \ page : Before(r, q)
      /\ page = left \/ Cardinality(page) = limit
      /\ taken \subseteq wanted(page) /\ Cardinality(taken) <= room
      /\ taken = wanted(page) \/ Cardinality(taken) = room
  BY DEF FirstRows
<1>7. RouteByLogicSlot(sweep.slot) \in Tables
  BY <1>4 DEF Tables
<1>8. /\ left \subseteq AllRows /\ left \subseteq OrderRow
      /\ \A r \in left : r.status = Unpaid /\ Before(sweep.cursor, r)
  BY <1>7, InAllRows DEF Left, Due, TypeOK
<1>9. IsFiniteSet(taken) /\ Cardinality(taken) \in Nat
  BY <1>6, <1>8, FS_Subset, FS_CardinalityType DEF Placed
<1>10. \A r, q \in OrderRow : r \in AllRows /\ q \in AllRows /\ r # q => Before(r, q) \/ Before(q, r)
  BY DEF OrderRow, Before, Placed
<1>11. sweep.found \cap taken = {}
  BY <1>4, <1>6, <1>8 DEF Swept
<1>12. /\ IsFiniteSet(found) /\ Cardinality(found) = count
       /\ count \in Nat /\ count <= sweep.remaining
  <2>1. /\ IsFiniteSet(sweep.found) /\ Cardinality(sweep.found) = sweep.count
        /\ sweep.count \in Nat /\ sweep.remaining \in Nat
    BY <1>4 DEF Swept
  <2>2. Cardinality(sweep.found \cap taken) = 0
    BY <1>11, FS_EmptySet
  <2>3. /\ IsFiniteSet(found)
        /\ Cardinality(found) = Cardinality(sweep.found) + Cardinality(taken)
                                 - Cardinality(sweep.found \cap taken)
    BY <1>9, <2>1, FS_Union
  <2>4. room = sweep.remaining - sweep.count
    OBVIOUS
  <2> HIDE DEF found, room
  <2> QED
    BY <1>6, <1>9, <2>1, <2>2, <2>3, <2>4
<1>13. limit \in Nat \ {0}
  BY <1>4, ShardsAssumption DEF QueryLimit, Swept
<1>14. /\ cursor \in Times
       /\ page # {} => \E last \in page :
            /\ cursor = [expire |-> last.expire, id |-> last.id]
            /\ \A q \in page : ~Before(last, q)
  <2>1. CASE page = {}
    BY <1>4, <2>1 DEF LastOf
  <2>2. CASE page # {}
    <3>1. PICK last \in page : /\ cursor = [expire |-> last.expire, id |-> last.id]
                               /\ \A q \in page : ~Before(last, q)
      BY <2>2 DEF LastOf
    <3>2. last \in OrderRow
      BY <1>6, <1>8
    <3> QED
      BY <3>1, <3>2 DEF OrderRow, Times
  <2> QED
    BY <2>1, <2>2
<1>15. AllRows' = AllRows /\ rows' = rows /\ \A n : Stored(n)' = Stored(n)
  BY <1>4 DEF rowVars, AllRows, Stored
<1>16. StillDue' = StillDue
  BY <1>5, <1>15 DEF StillDue
<1>17. found \subseteq OrderRow
  BY <1>4, <1>6, <1>8
<1>18. \A o \in found : /\ OrderMatchesLogicSlot(o, sweep.slot)
                        /\ o.status = Unpaid /\ \E r \in AllRows : SameOrder(r, o)
  BY <1>4, <1>6, <1>8 DEF Swept, Listed, SameOrder
\* A due order has been found, is on the page, or comes after it.
<1>19. \A r \in StillDue : r \in sweep.found \/ r \in left
  BY <1>4 DEF Swept, StillDue, Left, Due
<1>20. count # sweep.remaining => taken = wanted(page)
  BY <1>4, <1>6
<1>21. count # sweep.remaining => \A r \in StillDue : r \in found \/ r \in left \ page
  <2>1. \A r \in StillDue : OrderMatchesLogicSlot(r, sweep.slot)
    BY <1>4 DEF Swept
  <2> QED
    BY <1>19, <1>20, <2>1
<1>22. ASSUME over, count # sweep.remaining
       PROVE  StillDue \subseteq found
  <2>1. page = left
    BY <1>6, <1>13, <1>22
  <2> QED
    BY <1>21, <1>22, <2>1
<1> HIDE DEF found, count, limit
<1>23. ASSUME ~over
       PROVE  /\ count < sweep.remaining
              /\ \A o \in found : ~Before(cursor, o)
              /\ \A r \in StillDue : r \in found \/ Before(cursor, r)
  <2>1. count # sweep.remaining /\ count < sweep.remaining
    BY <1>4, <1>12, <1>23
  <2>2. page # {}
    BY <1>13, <1>23, FS_EmptySet
  <2>3. PICK last \in page : /\ cursor = [expire |-> last.expire, id |-> last.id]
                             /\ \A q \in page : ~Before(last, q)
    BY <1>14, <2>2
  <2>4. /\ last \in OrderRow /\ Before(sweep.cursor, last)
        /\ \A q : Before(cursor, q) <=> Before(last, q)
    BY <1>6, <1>8, <2>3 DEF Before
  <2>5. \A o \in OrderRow : Before(last, o) => Before(sweep.cursor, o)
    <3>1. sweep.cursor.expire \in Nat /\ sweep.cursor.id \in Nat
      BY <1>4 DEF Times
    <3> QED
      BY <2>4, <3>1 DEF Before, OrderRow
  <2>6. \A o \in sweep.found : ~Before(cursor, o)
    BY <1>4, <2>4, <2>5 DEF Swept
  <2>7. \A o \in taken : ~Before(cursor, o)
    BY <1>6, <2>3, <2>4
  <2>8. \A r \in StillDue : r \in found \/ Before(cursor, r)
    BY <1>6, <1>21, <2>1, <2>3, <2>4
  <2> QED
    BY <2>1, <2>6, <2>7, <2>8 DEF found
<1>24. sweep' \in [at : {"page", "close"}, slot : Slots, now : Nat, remaining : Nat,
                   cursor : Times, found : SUBSET OrderRow, count : Nat,
                   todo : SUBSET OrderRow, due : SUBSET Nat]
  <2>1. sweep' = [sweep EXCEPT !.found = found, !.count = count, !.cursor = cursor,
                               !.at = IF over THEN "close" ELSE "page",
                               !.todo = IF over THEN found ELSE {}]
    BY <1>3 DEF found, count, limit
  <2> QED
    BY <1>4, <1>12, <1>14, <1>17, <2>1
<1>25. Listed'
  BY <1>5, <1>15, <1>18 DEF Listed
<1>26. Swept'
  <2>1. /\ sweep'.count <= sweep'.remaining
        /\ IsFiniteSet(sweep'.found) /\ Cardinality(sweep'.found) = sweep'.count
        /\ \A o \in sweep'.found : OrderMatchesLogicSlot(o, sweep'.slot)
    BY <1>5, <1>12, <1>18
  <2>2. /\ \A n \in sweep'.due : Stored(n)'
        /\ \A r \in StillDue' :
              /\ r \in rows'[RouteByLogicSlot(sweep'.slot)]
              /\ OrderMatchesLogicSlot(r, sweep'.slot) /\ r.expire <= sweep'.now
    BY <1>4, <1>5, <1>15, <1>16 DEF Swept
  <2>3. sweep'.at = "page" =>
             /\ sweep'.count < sweep'.remaining
             /\ \A o \in sweep'.found : ~Before(sweep'.cursor, o)
             /\ \A r \in StillDue' : r \in sweep'.found \/ Before(sweep'.cursor, r)
    BY <1>5, <1>16, <1>23
  <2>4. sweep'.at = "close" => sweep'.count = sweep'.remaining \/ StillDue' \subseteq sweep'.found
    BY <1>5, <1>16, <1>22
  <2> QED
    BY <2>1, <2>2, <2>3, <2>4 DEF Swept
<1> QED
  BY <1>24, <1>25, <1>26

\* Every step leaves the sweep well formed and keeps what is known of it.
LEMMA SweepStep ==
    ASSUME TypeOK, Generator, Placed, Listed, Swept, [Next]_vars
    PROVE  /\ Listed' /\ Swept'
           /\ sweep' \in {NoSweep} \cup
                [at : {"page", "close"}, slot : Slots, now : Nat, remaining : Nat,
                 cursor : Times, found : SUBSET OrderRow, count : Nat,
                 todo : SUBSET OrderRow, due : SUBSET Nat]
<1>1. CASE SweepGoesOn
  <2>1. Listed' /\ Swept'
    BY <1>1, RowsStep, SweepKept
  <2>2. CASE UNCHANGED sweep
    BY <2>1, <2>2 DEF TypeOK
  <2>3. ASSUME sweep.at = "close", NEW o, sweep' = [sweep EXCEPT !.todo = @ \ {o}]
        PROVE  sweep' \in [at : {"page", "close"}, slot : Slots, now : Nat, remaining : Nat,
                           cursor : Times, found : SUBSET OrderRow, count : Nat,
                           todo : SUBSET OrderRow, due : SUBSET Nat]
    <3>1. sweep \in [at : {"page", "close"}, slot : Slots, now : Nat, remaining : Nat,
                     cursor : Times, found : SUBSET OrderRow, count : Nat,
                     todo : SUBSET OrderRow, due : SUBSET Nat]
      BY <2>3 DEF TypeOK, NoSweep
    <3>2. sweep.todo \ {o} \in SUBSET OrderRow
      BY <3>1
    <3> QED
      BY <2>3, <3>1, <3>2
  <2> QED
    BY <1>1, <2>1, <2>2, <2>3 DEF SweepGoesOn
<1>2. CASE sweep' = NoSweep
  BY <1>2 DEF Listed, Swept
<1>3. CASE SweepStart
  <2>1. PICK limit \in SweepLimits : sweep' = StartSlot(FirstSlot, clock, limit)
    BY <1>3 DEF SweepStart
  <2>2. /\ limit \in Nat \ {0} /\ FirstSlot \in Slots /\ clock \in Nat
        /\ UNCHANGED rowVars
    BY <1>3, ShardsAssumption DEF TypeOK, SweepStart
  <2> QED
    BY <2>1, <2>2, StartSlotStep
<1>4. CASE SweepPage
  BY <1>4, SweepPageStep
<1>5. CASE SweepNextSlot /\ sweep' # NoSweep
  <2> DEFINE left == sweep.remaining - sweep.count
  <2>1. /\ sweep.at = "close" /\ sweep.slot < LastSlot /\ left > 0
        /\ sweep' = StartSlot(sweep.slot + 1, sweep.now, left)
        /\ UNCHANGED rowVars
    BY <1>5 DEF SweepNextSlot
  <2>2. /\ sweep.slot \in Slots /\ sweep.now \in Nat
        /\ sweep.remaining \in Nat /\ sweep.count \in Nat
    BY <2>1 DEF TypeOK, NoSweep
  <2>3. sweep.slot + 1 \in Slots
    <3>1. PICK m \in Nat : m = GeneRange * GeneRange
      BY ShardsAssumption, NatProduct
    <3>2. Slots = 0 .. m - 1
      BY <3>1 DEF Slots
    <3>3. sweep.slot \in 0 .. m - 1 /\ LastSlot \in 0 .. m - 1
      BY <2>2, <3>2, ShardsAssumption
    <3>4. sweep.slot + 1 \in 0 .. m - 1
      BY <2>1, <3>3
    <3> QED
      BY <3>2, <3>4
  <2>4. left \in Nat \ {0}
    BY <2>1, <2>2
  <2> QED
    BY <2>1, <2>2, <2>3, <2>4, StartSlotStep
<1>6. \/ SweepGoesOn \/ sweep' = NoSweep \/ SweepStart \/ SweepPage
      \/ (SweepNextSlot /\ sweep' # NoSweep)
  BY DEF Next, vars, SweepGoesOn, Tick, Number, WaitNextSecond, Wake, InsertOrder, SettleOrder,
         SweepClose, SweepFails
<1> QED
  BY <1>1, <1>2, <1>3, <1>4, <1>5, <1>6

-----------------------------------------------------------------------------
(* The inductive invariant.                                                 *)

IInv == TypeOK /\ Generator /\ Placed /\ Listed /\ Swept

LEMMA InitInv == Init => IInv
<1> SUFFICES ASSUME Init
             PROVE  IInv
  OBVIOUS
<1> USE DEF Init
<1>1. TypeOK
  <2>1. issued \in Seq([user : Users, number : Nat])
    OBVIOUS
  <2>2. sequence \in -1 .. MaxSequence
    BY ShardsAssumption DEF MaxSequence
  <2> QED
    BY <2>1, <2>2 DEF TypeOK
<1>2. Generator
  BY DEF Generator
<1>3. AllRows = {}
  BY DEF AllRows
<1>4. Placed
  BY <1>3, FS_EmptySet DEF Placed
<1>5. Listed /\ Swept
  BY DEF Listed, Swept
<1> QED
  BY <1>1, <1>2, <1>4, <1>5 DEF IInv

LEMMA NextInv == IInv /\ [Next]_vars => IInv'
<1> SUFFICES ASSUME IInv, [Next]_vars
             PROVE  IInv'
  OBVIOUS
<1>1. TypeOK /\ Generator /\ Placed /\ Listed /\ Swept
  BY DEF IInv
<1>2. Placed' /\ rows' \in [Tables -> SUBSET OrderRow] /\ lastId' \in Nat
  BY <1>1, RowsStep
<1>3. /\ Listed' /\ Swept'
      /\ sweep' \in {NoSweep} \cup
           [at : {"page", "close"}, slot : Slots, now : Nat, remaining : Nat,
            cursor : Times, found : SUBSET OrderRow, count : Nat,
            todo : SUBSET OrderRow, due : SUBSET Nat]
  BY <1>1, SweepStep
<1>4. /\ Generator'
      /\ clock' \in Nat /\ lastSecond' \in Nat /\ sequence' \in -1 .. MaxSequence
      /\ waiting' \in [Callers -> Nat]
      /\ issued' \in Seq([user : Users, number : Nat])
      /\ woken' \subseteq Nat
  BY <1>1, GeneratorStep
<1>5. TypeOK'
  BY <1>2, <1>3, <1>4 DEF TypeOK
<1> QED
  BY <1>2, <1>3, <1>4, <1>5 DEF IInv

LEMMA Invariance == Spec => []IInv
BY InitInv, NextInv, PTL DEF Spec

\* Type correctness: the fields of the generator stay in their ranges, rows are
\* in the tables of the route map, and the slot of the sweep is one of the
\* slots whatever window it was given.
THEOREM ShardsTypeCorrect == Spec => []TypeOK
<1>1. IInv => TypeOK
  BY DEF IInv
<1> QED
  BY <1>1, Invariance, PTL

\* orderNumberGenerator.Next: for any widths of the fields and any stale clocks
\* of the callers, two equal numbers are of a second in which a caller took
\* sequence 0 after it had waited without the mutex.
THEOREM NumbersUnique == Spec => []DuplicateNeedsWait
<1>1. IInv => DuplicateNeedsWait
  <2> SUFFICES ASSUME Generator, NEW i \in 1 .. Len(issued), NEW j \in 1 .. Len(issued),
                      i # j, Numbers[i] = Numbers[j]
               PROVE  ParseOrderNumber(Numbers[i]).time \in woken
    BY DEF IInv, DuplicateNeedsWait
  <2>1. Numbers[i] = issued[i].number /\ Numbers[j] = issued[j].number
    BY DEF Numbers
  <2>2. Parsed(i) = Parsed(j)
    BY <2>1 DEF Parsed
  <2>3. Parsed(i).time \in woken
    BY <2>2 DEF Generator
  <2> QED
    BY <2>1, <2>3 DEF Parsed
<1> QED
  BY <1>1, Invariance, PTL

\* The routes by number and by user agree for every order, whatever the genes of
\* the users: an order is found under its number, counted and reserved for its
\* owner, and it stands on one page of the list of orders of its status.
THEOREM OrdersFound == Spec => []StoredWhereSought
<1>1. IInv => StoredWhereSought
  <2> SUFFICES ASSUME TypeOK, Placed, NEW r \in AllRows
               PROVE  /\ MapOrderDetail(r) \in GetOrder(r.user, r.number)
                      /\ AccountOrderCount(r.user)
                           = Cardinality({q \in AllRows : q.user = r.user /\ q.status # Cancelled})
                      /\ r.status = Unpaid =>
                           r.number \in ListUnpaidReservationsByUserShowTime(r.user)
                      /\ \E p \in 1 .. Cardinality(AllRows) :
                           \A n \in 1 .. Cardinality(AllRows) :
                              MapOrderSummary(r) \in ListOrders(r.user, {r.status}, n) <=> n = p
    BY DEF IInv, StoredWhereSought
  <2>1. PICK t \in Tables : r \in rows[t]
    BY InAllRows
  <2>2. t = RouteByOrderNumber(r.number) /\ t = RouteByUserID(r.user)
    BY <2>1 DEF Placed
  <2>3. MapOrderDetail(r) \in GetOrder(r.user, r.number)
    BY <2>1, <2>2 DEF GetOrder, FindOrderByNumber, FindOneByOrderNumber
  <2>4. \A q \in AllRows : q.user = r.user => q \in rows[t]
    BY <2>2, InAllRows DEF Placed
  <2>5. \A q \in rows[t] : q \in AllRows /\ q \in OrderRow
    BY <2>1, InAllRows DEF TypeOK
  <2>6. AccountOrderCount(r.user)
          = Cardinality({q \in AllRows : q.user = r.user /\ q.status # Cancelled})
    <3>1. {q \in rows[t] : q.user = r.user /\ q.status \in {Unpaid, Paid}}
            = {q \in AllRows : q.user = r.user /\ q.status # Cancelled}
      BY <2>4, <2>5 DEF OrderRow, Unpaid, Paid, Cancelled
    <3> QED
      BY <2>2, <3>1 DEF AccountOrderCount, CountActiveTicketsByUserShowTime, CountActiveTickets
  <2>7. r.status = Unpaid => r.number \in ListUnpaidReservationsByUserShowTime(r.user)
    BY <2>1, <2>2 DEF ListUnpaidReservationsByUserShowTime, ListUnpaidReservations
  <2> DEFINE own == {q \in rows[t] : q.user = r.user /\ q.status \in {r.status}}
             newer(s) == {q \in own : Before(s, q)}
             total == Cardinality(AllRows)
             count == Cardinality(newer(r))
             p == count \div PageSize + 1
  <2>8. r \in own /\ own \subseteq AllRows
    BY <2>1, <2>5
  <2>9. total \in Nat /\ count \in Nat /\ count <= total - 1
    <3>1. ~Before(r, r)
      BY <2>1, <2>5 DEF Before, OrderRow
    <3>2. IsFiniteSet(AllRows) /\ IsFiniteSet(AllRows \ {r}) /\ total \in Nat
          /\ Cardinality(AllRows \ {r}) = total - 1
      BY FS_RemoveElement, FS_CardinalityType DEF Placed
    <3>3. newer(r) \subseteq AllRows \ {r}
      BY <2>8, <3>1
    <3> HIDE DEF newer
    <3>4. IsFiniteSet(newer(r)) /\ count <= Cardinality(AllRows \ {r}) /\ count \in Nat
      BY <3>2, <3>3, FS_Subset, FS_CardinalityType
    <3> QED
      BY <3>2, <3>4
  <2>10. \A n : MapOrderSummary(r) \in ListOrders(r.user, {r.status}, n)
                  <=> count \div PageSize = n - 1
    <3>1. \A n : ListOrders(r.user, {r.status}, n)
                   = {MapOrderSummary(q) : q \in {s \in own :
                        Cardinality(newer(s)) \div PageSize = n - 1}}
      BY <2>2 DEF ListOrders, FindOrderPageByUser, FindPageByUserAndStatus
    <3>2. \A q \in own : MapOrderSummary(q) = MapOrderSummary(r) => q = r
      BY <2>8 DEF MapOrderSummary, Placed
    <3> HIDE DEF own, newer
    <3> QED
      BY <2>8, <3>1, <3>2
  <2> HIDE DEF count, total
  <2>11. /\ p \in 1 .. total
         /\ \A n \in 1 .. total : count \div PageSize = n - 1 <=> n = p
    <3>1. PageSize \in Nat \ {0}
      BY ShardsAssumption
    <3>2. count \div PageSize \in Nat /\ count \div PageSize <= count
      BY <2>9, <3>1
    <3> QED
      BY <2>9, <3>2
  <2> QED
    BY <2>3, <2>6, <2>7, <2>10, <2>11 DEF total
<1> QED
  BY <1>1, Invariance, PTL

\* CloseExpiredOrders: for any limit, size of a query and window of slots, and
\* with orders coming and being settled meanwhile, a slot's search ends with a
\* list that has nothing twice, nothing of another slot and, below the limit,
\* everything that was and still is due.
THEOREM SweepComplete == Spec => []SweepExact
<1>1. IInv => SweepExact
  <2> SUFFICES ASSUME TypeOK, Placed, Listed, Swept, sweep.at = "close"
               PROVE  /\ \A o \in sweep.found : LogicSlotByOrderNumber(o.number) = sweep.slot
                      /\ Cardinality({o.number : o \in sweep.found}) = sweep.count
                      /\ sweep.count <= sweep.remaining
                      /\ \/ sweep.count = sweep.remaining
                         \/ \A r \in AllRows : r.status = Unpaid /\ r.number \in sweep.due
                              => \E o \in sweep.found : o.number = r.number
    BY DEF IInv, SweepExact
  <2>1. sweep # NoSweep /\ sweep.found \subseteq OrderRow
    BY DEF TypeOK, NoSweep
  <2>2. \A o, p \in sweep.found : o.number = p.number => o = p
    <3> SUFFICES ASSUME NEW o \in sweep.found, NEW p \in sweep.found, o.number = p.number
                 PROVE  o = p
      OBVIOUS
    <3>1. PICK r \in AllRows : SameOrder(r, o)
      BY <2>1 DEF Listed
    <3>2. PICK q \in AllRows : SameOrder(q, p)
      BY <2>1 DEF Listed
    <3>3. r = q
      BY <3>1, <3>2 DEF Placed, SameOrder
    <3>4. o.status = p.status /\ o \in OrderRow /\ p \in OrderRow
      BY <2>1 DEF Listed
    <3> QED
      BY <3>1, <3>2, <3>3, <3>4 DEF SameOrder, OrderRow
  <2>3. Cardinality({o.number : o \in sweep.found}) = Cardinality(sweep.found)
    <3> DEFINE f == [o \in sweep.found |-> o.number]
               numbers == {o.number : o \in sweep.found}
    <3>1. f \in Injection(sweep.found, numbers) /\ f \in Surjection(sweep.found, numbers)
      BY <2>2 DEF Injection, IsInjective, Surjection
    <3>2. IsFiniteSet(sweep.found)
      BY <2>1 DEF Swept
    <3> HIDE DEF f, numbers
    <3>3. Cardinality(numbers) = Cardinality(sweep.found)
      BY <3>1, <3>2, FS_Surjection
    <3> QED
      BY <3>3 DEF numbers
  <2> QED
    BY <2>1, <2>3 DEF Swept, StillDue, OrderMatchesLogicSlot
<1> QED
  BY <1>1, Invariance, PTL

-----------------------------------------------------------------------------
(* The delay task outbox.                                                   *)

\* The row a step writes: abbreviations every proof looks through.
USE DEF NewCloseTimeoutDelayTaskRow, MarkProcessed

\* An enqueue keeps the Asynq tasks well typed, duplicate or not.
LEMMA EnqueueType ==
    ASSUME OutboxTypeOK, NEW t, Enqueue(t)
    PROVE  /\ asynq' \in [Tasks -> {"absent", "scheduled", "active", "answered", "archived"}]
           /\ retried' \in [Tasks -> 0..MaxRetry]
  BY OutboxAssumption DEF OutboxTypeOK, Enqueue

\* Type correctness: rows, orders, tasks and retry counts stay in their ranges,
\* and a dispatcher in a run has a record to work on.
THEOREM OutboxTypeCorrect == OutboxSpec => []OutboxTypeOK
<1>1. OutboxInit => OutboxTypeOK
  BY OutboxAssumption DEF OutboxInit, OutboxTypeOK
<1>2. OutboxTypeOK /\ [OutboxNext]_outboxVars => OutboxTypeOK'
  <2> SUFFICES ASSUME OutboxTypeOK, [OutboxNext]_outboxVars PROVE OutboxTypeOK'
    OBVIOUS
  <2> USE OutboxAssumption DEF OutboxTypeOK, Dispatchable, dispatcherVars
  <2>1. ASSUME NEW t \in Tasks, CreateTx(t) PROVE OutboxTypeOK'
    BY <2>1 DEF CreateTx
  <2>2. ASSUME NEW t \in Tasks, Settle(t) PROVE OutboxTypeOK'
    BY <2>2 DEF Settle
  <2>0. ASSUME NEW t \in Tasks, Expire(t) PROVE OutboxTypeOK'
    BY <2>0 DEF Expire
  <2>3. ASSUME NEW t \in Tasks, Deliver(t) \/ Complete(t) PROVE OutboxTypeOK'
    BY <2>3 DEF Deliver, Complete
  <2>4. ASSUME NEW t \in Tasks, CloseExpiredOrder(t) PROVE OutboxTypeOK'
    BY <2>4 DEF CloseExpiredOrder
  <2>5. ASSUME NEW t \in Tasks, HandleError(t) PROVE OutboxTypeOK'
    BY <2>5 DEF HandleError, Failure
  <2>6. ASSUME NEW d \in Dispatchers, Scan(d) PROVE OutboxTypeOK'
    BY <2>6 DEF Scan
  <2>7. ASSUME NEW d \in Dispatchers, Publish(d) PROVE OutboxTypeOK'
    <3>1. /\ asynq' \in [Tasks -> {"absent", "scheduled", "active", "answered", "archived"}]
          /\ retried' \in [Tasks -> 0..MaxRetry]
      BY <2>7, EnqueueType DEF Publish
    <3>2. failures' \in 0..MaxFailures
      BY <2>7 DEF Publish, Failure
    <3>3. sent' \in [Dispatchers -> BOOLEAN]
      <4>1. \E b \in BOOLEAN : sent' = [sent EXCEPT ![d] = b]
        BY <2>7, Zenon DEF Publish
      <4> QED
        BY <4>1
    <3> QED
      BY <2>7, <3>1, <3>2, <3>3 DEF Publish
  <2>8. ASSUME NEW d \in Dispatchers, Mark(d) PROVE OutboxTypeOK'
    <3>1. row' \in [Tasks -> Dispatchable \cup {"none", "processed"}]
      BY <2>8 DEF Mark, Updated
    <3> QED
      BY <2>8, <3>1 DEF Mark
  <2>9. ASSUME NEW d \in Dispatchers, Abort(d) PROVE OutboxTypeOK'
    BY <2>9 DEF Abort, Failure
  <2>10. CASE UNCHANGED outboxVars
    BY <2>10 DEF outboxVars
  <2> QED
    BY <2>0, <2>1, <2>2, <2>3, <2>4, <2>5, <2>6, <2>7, <2>8, <2>9, <2>10
    DEF OutboxNext, Work, Dispatch
<1> QED
  BY <1>1, <1>2, PTL DEF OutboxSpec

-----------------------------------------------------------------------------
\* What one step does to rows and orders: the create transaction, a settlement,
\* a close transaction, or a mark that only touches dispatchable rows.
LEMMA RowStep ==
    ASSUME OutboxTypeOK, [OutboxNext]_outboxVars, NEW t \in Tasks
    PROVE  \/ order[t] = "none" /\ order'[t] = "unpaid" /\ row'[t] = "pending"
           \/ /\ order[t] = "unpaid" /\ order'[t] \in {"paid", "cancelled"}
              /\ row'[t] \in {row[t], "processed"}
           \/ order[t] # "unpaid" /\ order'[t] = order[t] /\ row'[t] = "processed"
           \/ order'[t] = order[t] /\ row'[t] = row[t]
           \/ /\ order'[t] = order[t]
              /\ row[t] \in Dispatchable /\ row'[t] \in Dispatchable
  <1> DEFINE Goal ==
        \/ order[t] = "none" /\ order'[t] = "unpaid" /\ row'[t] = "pending"
        \/ /\ order[t] = "unpaid" /\ order'[t] \in {"paid", "cancelled"}
           /\ row'[t] \in {row[t], "processed"}
        \/ order[t] # "unpaid" /\ order'[t] = order[t] /\ row'[t] = "processed"
        \/ order'[t] = order[t] /\ row'[t] = row[t]
        \/ /\ order'[t] = order[t]
           /\ row[t] \in Dispatchable /\ row'[t] \in Dispatchable
  <1> SUFFICES Goal
    OBVIOUS
  <1> USE DEF OutboxTypeOK
  <1>1. ASSUME NEW u \in Tasks, CreateTx(u) PROVE Goal
    BY <1>1 DEF CreateTx
  <1>2. ASSUME NEW u \in Tasks, Settle(u) PROVE Goal
    BY <1>2 DEF Settle
  <1>3. ASSUME NEW u \in Tasks, CloseExpiredOrder(u) PROVE Goal
    BY <1>3 DEF CloseExpiredOrder
  <1>4. ASSUME NEW u \in Tasks, Expire(u) \/ Deliver(u) \/ Complete(u) \/ HandleError(u)
        PROVE  Goal
    BY <1>4 DEF Expire, Deliver, Complete, HandleError
  <1>5. ASSUME NEW d \in Dispatchers, Mark(d) PROVE Goal
    BY <1>5 DEF Mark, Updated, Dispatchable
  <1>6. ASSUME NEW d \in Dispatchers, Scan(d) \/ Publish(d) \/ Abort(d) PROVE Goal
    BY <1>6 DEF Scan, Publish, Abort
  <1>7. CASE UNCHANGED outboxVars
    BY <1>7 DEF outboxVars
  <1> QED
    BY <1>1, <1>2, <1>3, <1>4, <1>5, <1>6, <1>7 DEF OutboxNext, Work, Dispatch

\* A nonempty set of row ids has a first one.
LEMMA FirstId ==
    ASSUME NEW S, S \subseteq Nat, S # {}
    PROVE  \E t \in S : \A u \in S : t <= u
  <1> DEFINE R == {p \in Nat \X Nat : p[1] < p[2]}
  <1>1. IsWellFoundedOn(R, Nat)
    BY NatLessThanWellFounded DEF OpToRel
  <1> HIDE DEF R
  <1>2. PICK t \in S : \A u \in S : ~(<<u, t>> \in R)
    BY <1>1, WFMin
  <1>3. ASSUME NEW u \in S PROVE t <= u
    <2>1. ~(<<u, t>> \in R) /\ t \in Nat /\ u \in Nat
      BY <1>2
    <2>2. ~(u < t)
      BY <2>1 DEF R
    <2> QED
      BY <2>1, <2>2
  <1> QED
    BY <1>3

\* The record a dispatcher works on is one of those it still has to do.
LEMMA CurrentInTodo ==
    ASSUME OutboxTypeOK, NEW d \in Dispatchers, dpc[d] # "idle"
    PROVE  Current(d) \in todo[d]
  <1>1. todo[d] \subseteq Nat /\ todo[d] # {}
    BY OutboxAssumption DEF OutboxTypeOK
  <1>2. \E t \in todo[d] : \A u \in todo[d] : t <= u
    BY <1>1, FirstId
  <1> QED
    BY <1>2 DEF Current

\* What the safety of the rows rests on: until the create transaction there is
\* no row, no Asynq task and no dispatcher that has listed the row.  Only then
\* is an order that a worker finds not unpaid really one that is settled.
RowInv ==
    /\ ProcessedMeansSettled
    /\ \A t \in Tasks : order[t] = "none" =>
          /\ row[t] = "none"
          /\ asynq[t] = "absent"
          /\ \A d \in Dispatchers : t \notin todo[d]

\* Before the create transaction of a row no step touches it but that one.
LEMMA AbsentStep ==
    ASSUME OutboxTypeOK, RowInv, [OutboxNext]_outboxVars, NEW t \in Tasks, order'[t] = "none"
    PROVE  /\ order[t] = "none"
           /\ row'[t] = "none"
           /\ asynq'[t] = "absent"
           /\ \A d \in Dispatchers : t \notin todo'[d]
  <1> DEFINE Goal == /\ order[t] = "none"
                     /\ row'[t] = "none"
                     /\ asynq'[t] = "absent"
                     /\ \A d \in Dispatchers : t \notin todo'[d]
  <1> SUFFICES Goal
    OBVIOUS
  <1> USE DEF OutboxTypeOK, RowInv, dispatcherVars
  <1>1. ASSUME NEW u \in Tasks, CreateTx(u) \/ Expire(u) PROVE Goal
    BY <1>1 DEF CreateTx, Expire
  <1>2. ASSUME NEW u \in Tasks, Settle(u) PROVE Goal
    BY <1>2 DEF Settle
  <1>3. ASSUME NEW u \in Tasks, CloseExpiredOrder(u) PROVE Goal
    BY <1>3 DEF CloseExpiredOrder
  <1>4. ASSUME NEW u \in Tasks, Deliver(u) \/ Complete(u) \/ HandleError(u) PROVE Goal
    BY <1>4 DEF Deliver, Complete, HandleError
  <1>5. ASSUME NEW e \in Dispatchers, Scan(e) PROVE Goal
    BY <1>5 DEF Scan, Dispatchable
  <1>6. ASSUME NEW e \in Dispatchers, Publish(e) PROVE Goal
    <2>1. Current(e) \in todo[e]
      BY <1>6, CurrentInTodo DEF Publish
    <2>2. order[t] = "none" /\ UNCHANGED <<row, order, todo>>
      BY <1>6 DEF Publish
    <2>3. Enqueue(Current(e)) \/ UNCHANGED <<asynq, retried>>
      BY <1>6 DEF Publish
    <2> QED
      BY <2>1, <2>2, <2>3 DEF Enqueue
  <1>7. ASSUME NEW e \in Dispatchers, Mark(e) PROVE Goal
    BY <1>7 DEF Mark, Updated, Dispatchable
  <1>8. ASSUME NEW e \in Dispatchers, Abort(e) PROVE Goal
    BY <1>8 DEF Abort
  <1>9. CASE UNCHANGED outboxVars
    BY <1>9 DEF outboxVars
  <1> QED
    BY <1>1, <1>2, <1>3, <1>4, <1>5, <1>6, <1>7, <1>8, <1>9 DEF OutboxNext, Work, Dispatch

\* A step leaves an order that exists in existence: a row is marked processed
\* for an order that is settled.
LEMMA ProcessedStep ==
    ASSUME OutboxTypeOK, RowInv, [OutboxNext]_outboxVars, NEW t \in Tasks, row'[t] = "processed"
    PROVE  order'[t] \in {"paid", "cancelled"}
  <1>1. order[t] # "none"
    <2> SUFFICES ASSUME order[t] = "none" PROVE FALSE
      OBVIOUS
    <2>1. order'[t] # "none"
      BY AbsentStep
    <2> QED
      BY <2>1, RowStep DEF RowInv
  <1> QED
    BY <1>1, RowStep DEF OutboxTypeOK, RowInv, ProcessedMeansSettled, Dispatchable

\* The outbox never drops the task of an unpaid order, however dispatchers,
\* workers, retries, payments and clocks interleave.
THEOREM OutboxSafe == OutboxSpec => []ProcessedMeansSettled
<1>1. OutboxInit => RowInv
  BY DEF OutboxInit, RowInv, ProcessedMeansSettled
<1>2. OutboxTypeOK /\ RowInv /\ [OutboxNext]_outboxVars => RowInv'
  <2> SUFFICES ASSUME OutboxTypeOK, RowInv, [OutboxNext]_outboxVars PROVE RowInv'
    OBVIOUS
  <2>1. ProcessedMeansSettled'
    BY ProcessedStep DEF ProcessedMeansSettled
  <2> QED
    BY <2>1, AbsentStep DEF RowInv
<1>3. RowInv => ProcessedMeansSettled
  BY DEF RowInv
<1> QED
  BY <1>1, <1>2, <1>3, OutboxTypeCorrect, PTL DEF OutboxSpec

\* A row once processed is never dispatched again, the mark of a dispatcher
\* with an old scan included.
THEOREM OutboxFinal == OutboxSpec => ProcessedIsFinal
<1>1. OutboxTypeOK /\ ProcessedMeansSettled /\ [OutboxNext]_outboxVars
        => [\A t \in Tasks : row[t] = "processed" => row'[t] = "processed"]_outboxVars
  BY RowStep DEF ProcessedMeansSettled, Dispatchable
<1> QED
  BY <1>1, OutboxTypeCorrect, OutboxSafe, PTL DEF OutboxSpec, ProcessedIsFinal
=============================================================================
