----------------------- MODULE InventoryPreheatProofs -----------------------
(***************************************************************************)
(* Proofs about InventoryPreheat for any open times, show times, users and  *)
(* bounds.  The invariant has three parts: what the windows and the edits   *)
(* that are under way say of them (Windows), how far the task has come and  *)
(* which task rows are still to run (Tasks), and how the admissions of a    *)
(* show time that was primed at rest relate to its seats (Admissions).      *)
(***************************************************************************)
EXTENDS InventoryPreheat, WellFoundedInduction, TLAPS

ProgramRow == [status : {1, 2}, open : OpenTimes]

Priming == {"read", "inflight", "quota", "active", "set"}

Workers == [at : Priming \cup {"idle", "list", "noop", "prime", "ledger", "finish"},
            key : OpenTimes \cup {NoKey}, ids : SUBSET ShowTimes, todo : SUBSET ShowTimes,
            read : Nat]

Editors == [at : {"idle", "showTime", "seat", "invalid", "clear"}, show : ShowTimes \cup {0},
            copy : ProgramRow \cup {NoRow}]

TypeOK ==
    /\ program \in ProgramRow
    /\ cached \in ProgramRow \cup {NoRow}
    /\ showTimes \subseteq ShowTimes
    /\ seats \in [ShowTimes -> Nat]
    /\ row \in [OpenTimes -> {"none", "pending", "published", "failed", "processed"}]
    /\ queue \subseteq OpenTimes
    /\ dispatch \in OpenTimes \cup {NoKey}
    /\ worker \in Workers
    /\ editor \in Editors
    /\ quota \in [ShowTimes -> Nat \cup {None}]
    /\ inflight \in [ShowTimes -> SUBSET Users]
    /\ active \in [ShowTimes -> SUBSET Users]
    /\ ledger \in [ShowTimes -> Nat \cup {None}]
    /\ attempts \in [ShowTimes -> Seq(Users)]
    /\ orders \in [ShowTimes -> SUBSET Users]
    /\ reverted \in BOOLEAN

\* An edit works on what it has read.
Windows ==
    /\ editor.at \in {"showTime", "invalid"} => editor.copy \in ProgramRow
    /\ editor.at \in {"showTime", "seat"} => editor.show \in ShowTimes
    /\ editor.at = "showTime" => editor.copy.open <= StartOf[editor.show]
    /\ OpensBeforeShows

\* A task that Asynq holds has a row that is still to run; so has the open time
\* of the program while a task is past its listing, even one for another time.
\* The show times that the task has to prime are primed or still to do.
Tasks ==
    /\ \A k \in queue : row[k] \in Dispatchable
    /\ worker.at # "idle" => worker.key \in queue
    /\ PastListing => showTimes # {}
    /\ PastListing => reverted \/ row[program.open] \in Dispatchable
    /\ worker.at = "noop" /\ worker.key = program.open
          => reverted \/ program.status = 1 \/ showTimes \subseteq late
    /\ worker.at \in Priming =>
          /\ worker.todo # {}
          /\ \A s \in showTimes \ late : s \in worker.todo \/ quota[s] # None
    /\ worker.at \in {"ledger", "finish"} => \A s \in showTimes \ late : quota[s] # None
    /\ PreheatMissesOnlyLate

\* A show time without a quota has no attempts, and an attempt is in flight,
\* unless the show time was primed under attempts; orders are projected.
Admissions ==
    /\ \A s \in ShowTimes : orders[s] \subseteq active[s]
    /\ \A s \in ShowTimes \ disturbed :
          /\ quota[s] = None => attempts[s] = <<>>
          /\ \A i \in DOMAIN attempts[s] : attempts[s][i] \in inflight[s]
    /\ AdmissionCovered

IInv == TypeOK /\ Windows /\ Tasks /\ Admissions

USE DEF dbVars, taskVars, runtime, saleVars, history, None, NoKey

-----------------------------------------------------------------------------
\* The invariant holds at first: nothing is primed and nothing is under way.
LEMMA InitIInv == Init => IInv
<1> SUFFICES ASSUME Init PROVE IInv
  OBVIOUS
<1> USE PreheatAssumption DEF Init
<1>1. TypeOK
  <2>1. program \in ProgramRow /\ cached \in {NoRow}
    BY DEF ProgramRow
  <2>2. worker \in Workers
    BY DEF Workers, Idle
  <2>3. editor \in Editors
    BY DEF Editors, NoCall
  <2>4. attempts \in [ShowTimes -> Seq(Users)]
    OBVIOUS
  <2>5. seats \in [ShowTimes -> Nat]
    OBVIOUS
  <2>6. QED
    BY <2>1, <2>2, <2>3, <2>4, <2>5 DEF TypeOK
<1>2. Windows
  BY DEF Windows, OpensBeforeShows, NoCall
<1>3. Tasks
  BY DEF Tasks, PreheatMissesOnlyLate, PastListing, Priming, Idle
<1>4. Admissions
  BY DEF Admissions, AdmissionCovered, ToSet
<1>5. QED
  BY <1>1, <1>2, <1>3, <1>4 DEF IInv

\* A set of show times that is not empty has a first one, which a loop takes.
LEMMA FirstIn ==
  ASSUME NEW S, S \subseteq ShowTimes, S # {}
  PROVE  First(S) \in S
<1> DEFINE R == {p \in Nat \X Nat : p[1] < p[2]}
<1>1. IsWellFoundedOn(R, Nat)
  BY NatLessThanWellFounded DEF OpToRel
<1> HIDE DEF R
<1>2. S \subseteq Nat
  BY PreheatAssumption
<1>3. PICK s \in S : \A t \in S : ~(<<t, s>> \in R)
  BY <1>1, <1>2, WFMin
<1>4. ASSUME NEW t \in S PROVE s <= t
  <2>1. ~(<<t, s>> \in R) /\ s \in Nat /\ t \in Nat
    BY <1>2, <1>3
  <2>2. ~(t < s)
    BY <2>1 DEF R
  <2>3. QED
    BY <2>1, <2>2
<1>5. QED
  BY <1>4 DEF First

\* Without the one entry, a sequence of users that are all different has the
\* other users, once each.
LEMMA DropOneFacts ==
  ASSUME NEW seq \in Seq(Users), NEW u \in ToSet(seq)
  PROVE  /\ DropOne(seq, u) \in Seq(Users)
         /\ Len(seq) \in Nat \ {0}
         /\ Len(DropOne(seq, u)) = Len(seq) - 1
         /\ \A j \in DOMAIN DropOne(seq, u) : \E i \in DOMAIN seq : DropOne(seq, u)[j] = seq[i]
         /\ (\A i, j \in DOMAIN seq : i # j => seq[i] # seq[j]) =>
              /\ \A i, j \in DOMAIN DropOne(seq, u) : 
                    i # j => DropOne(seq, u)[i] # DropOne(seq, u)[j]
              /\ \A j \in DOMAIN DropOne(seq, u) : DropOne(seq, u)[j] # u
<1> DEFINE n == Len(seq)
           k == CHOOSE j \in DOMAIN seq : seq[j] = u
           d == [j \in 1..(n - 1) |-> IF j < k THEN seq[j] ELSE seq[j + 1]]
<1>1. n \in Nat /\ DOMAIN seq = 1..n /\ \A j \in 1..n : seq[j] \in Users
  OBVIOUS
<1>2. k \in 1..n /\ seq[k] = u
  BY <1>1 DEF ToSet
<1>3. DropOne(seq, u) = d
  BY DEF DropOne
<1> HIDE DEF n, k
<1>4. n - 1 \in Nat /\ n # 0
  BY <1>1, <1>2
<1>5. \A j \in 1..(n - 1) : d[j] \in Users /\ d[j] = (IF j < k THEN seq[j] ELSE seq[j + 1])
  BY <1>1, <1>2
<1>6. d \in Seq(Users) /\ Len(d) = n - 1 /\ DOMAIN d = 1..(n - 1)
  BY <1>4, <1>5
<1> HIDE DEF d
<1>7. \A j \in 1..(n - 1) : \E i \in 1..n : i # k /\ d[j] = seq[i]
  BY <1>1, <1>2, <1>5
<1>8. ASSUME \A i, j \in 1..n : i # j => seq[i] # seq[j]
      PROVE /\ \A i, j \in 1..(n - 1) : i # j => d[i] # d[j]
            /\ \A j \in 1..(n - 1) : d[j] # u
  BY <1>1, <1>2, <1>5, <1>8
<1>9. QED
  BY <1>1, <1>3, <1>4, <1>6, <1>7, <1>8 DEF n

\* What FindOne reads is a row of the program.
LEMMA FindOneRow == TypeOK => FindOne \in ProgramRow
  BY DEF TypeOK, FindOne

\* The show time the worker is priming.
LEMMA AtFirst ==
  TypeOK /\ Tasks /\ worker.at \in Priming =>
      First(worker.todo) \in worker.todo /\ First(worker.todo) \in ShowTimes
  BY FirstIn DEF TypeOK, Workers, Tasks

\* Every action keeps the state well formed.
LEMMA TypeStep == TypeOK /\ Windows /\ Tasks /\ [Next]_vars => TypeOK'
<1> SUFFICES ASSUME TypeOK, Windows, Tasks, [Next]_vars PROVE TypeOK'
  OBVIOUS
<1> USE PreheatAssumption
<1>0. CASE UNCHANGED vars
  BY <1>0 DEF vars, TypeOK
<1>1. CASE CacheExpires
  BY <1>1 DEF CacheExpires, TypeOK
<1>2. ASSUME NEW s \in ShowTimes, CreateProgramShowTime(s)
      PROVE TypeOK'
  BY <1>2 DEF CreateProgramShowTime, StartEdit, TypeOK, Editors
<1>3. ASSUME NEW s \in ShowTimes, CreateSeat(s)
      PROVE TypeOK'
  BY <1>3, FindOneRow DEF CreateSeat, StartEdit, TypeOK, Editors
<1>4. CASE CommitShowTime
  <2>1. editor.copy \in ProgramRow /\ editor.show \in ShowTimes
    BY <1>4 DEF CommitShowTime, Windows
  <2>2. program' \in ProgramRow /\ reverted' \in BOOLEAN
    BY <1>4, <2>1 DEF CommitShowTime, Schedule, TypeOK, ProgramRow
  <2>3. NoCall \in Editors
    BY DEF NoCall, Editors
  <2>4. QED
    BY <1>4, <2>1, <2>2, <2>3 DEF CommitShowTime, Schedule, Enqueue, TypeOK
<1>5. CASE InsertSeat
  <2>1. seats' \in [ShowTimes -> Nat]
    <3>1. editor.show \in ShowTimes
      BY <1>5 DEF InsertSeat, Windows
    <3>2. QED
      BY <1>5, <3>1 DEF InsertSeat, TypeOK
  <2>2. editor' \in Editors
    BY <1>5 DEF InsertSeat, TypeOK, Editors
  <2>3. QED
    BY <1>5, <2>1, <2>2 DEF InsertSeat, TypeOK
<1>6. ASSUME NEW t \in OpenTimes, UpdateProgram(t)
      PROVE TypeOK'
  <2>1. program' \in ProgramRow
    BY <1>6 DEF UpdateProgram, TypeOK, ProgramRow
  <2>2. QED
    BY <1>6, <2>1 DEF UpdateProgram, Enqueue, TypeOK
<1>7. CASE InvalidProgram
  BY <1>7, FindOneRow DEF InvalidProgram, StartEdit, TypeOK, Editors
<1>8. CASE WriteInvalid
  <2>1. editor.copy \in ProgramRow
    BY <1>8 DEF WriteInvalid, Windows
  <2>2. QED
    BY <1>8, <2>1 DEF WriteInvalid, TypeOK, Editors
<1>9. CASE ClearProgramSeatLedgers
  <2>1. NoCall \in Editors
    BY DEF NoCall, Editors
  <2>2. QED
    BY <1>9, <2>1 DEF ClearProgramSeatLedgers, Clear, TypeOK
<1>10. ASSUME NEW k \in OpenTimes, Publish(k)
       PROVE TypeOK'
  BY <1>10 DEF Publish, TypeOK
<1>11. CASE MarkPublished
  BY <1>11 DEF MarkPublished, TypeOK
<1>12. Idle \in Workers
  BY DEF Idle, Workers
<1>13. ASSUME NEW k \in OpenTimes, Deliver(k)
       PROVE TypeOK'
  BY <1>12, <1>13 DEF Deliver, WorkerStep, TypeOK, Workers, Idle
<1>14. CASE ListByProgramID
  BY <1>14 DEF ListByProgramID, WorkerStep, TypeOK, Workers
<1>15. CASE MarkTaskProcessed \/ Finish
  BY <1>12, <1>15 DEF MarkTaskProcessed, Finish, Processed, WorkerStep, TypeOK, ProgramRow
<1>16. CASE PrimeRushRuntime
  <2>1. worker' \in Workers
    BY <1>16 DEF PrimeRushRuntime, WorkerReads, ListProgramShowTimesForRush, TypeOK, Workers, Priming
  <2>2. QED
    BY <1>16, <2>1, FindOneRow DEF PrimeRushRuntime, WorkerReads, TypeOK
<1>17. CASE PrimeRead
  <2>1. seats[First(worker.todo)] \in Nat
    BY <1>17, AtFirst DEF PrimeRead, TypeOK, Priming
  <2>2. worker' \in Workers
    BY <1>17, <2>1 DEF PrimeRead, WorkerReads, AdmissionQuota, TypeOK, Workers, Priming
  <2>3. QED
    BY <1>17, <2>2, FindOneRow DEF PrimeRead, WorkerReads, TypeOK
<1>18. CASE ClearInflight \/ ClearQuotaByShowTime \/ ReplaceActive
  <2>1. worker' \in Workers
    BY <1>18 DEF ClearInflight, ClearQuotaByShowTime, ReplaceActive, WorkerStep, TypeOK, Workers,
                 Priming
  <2>2. First(worker.todo) \in ShowTimes
    BY <1>18, AtFirst DEF ClearInflight, ClearQuotaByShowTime, ReplaceActive, Priming
  <2>3. QED
    BY <1>18, <2>1, <2>2 DEF ClearInflight, ClearQuotaByShowTime, ReplaceActive, WorkerStep,
       ActiveGuards, FindActiveByShowTimeAfterID, TypeOK
<1>19. CASE SetQuotaAvailable
  <2>1. worker' \in Workers
    BY <1>19 DEF SetQuotaAvailable, WorkerStep, TypeOK, Workers, Priming
  <2>2. worker.read \in Nat
    BY DEF TypeOK, Workers
  <2>3. QED
    BY <1>19, <2>1, <2>2 DEF SetQuotaAvailable, WorkerStep, QuotaToSet, TypeOK
<1>20. CASE PrimeSeatLedger
  <2>1. worker' \in Workers
    BY <1>20 DEF PrimeSeatLedger, WorkerStep, TypeOK, Workers
  <2>2. QED
    BY <1>20, <2>1 DEF PrimeSeatLedger, PrimeFromDB, WorkerStep, TypeOK
<1>21. CASE MarkTaskConsumeFailed \/ Crash
  BY <1>12, <1>21 DEF MarkTaskConsumeFailed, Crash, WorkerStep, TypeOK
<1>22. ASSUME NEW u \in Users, NEW s \in ShowTimes, Admit(u, s)
       PROVE TypeOK'
  <2>1. quota' \in [ShowTimes -> Nat \cup {None}]
    <3>1. quota[s] \in Nat \cup {None} /\ quota[s] > 0
      BY <1>22 DEF Admit, TypeOK
    <3>2. quota[s] - 1 \in Nat
      BY <3>1
    <3>3. QED
      BY <1>22, <3>2 DEF Admit, TypeOK
  <2>2. attempts' \in [ShowTimes -> Seq(Users)] /\ inflight' \in [ShowTimes -> SUBSET Users]
    <3>1. Append(attempts[s], u) \in Seq(Users)
      BY DEF TypeOK
    <3>2. QED
      BY <1>22, <3>1 DEF Admit, TypeOK
  <2>3. QED
    BY <1>22, <2>1, <2>2 DEF Admit, TypeOK
<1>23. ASSUME NEW u \in Users, NEW s \in ShowTimes, Succeed(u, s)
       PROVE TypeOK'
  <2>1. u \in ToSet(attempts[s]) /\ attempts[s] \in Seq(Users)
    BY <1>23 DEF Succeed, TypeOK
  <2>2. DropOne(attempts[s], u) \in Seq(Users)
    BY <2>1, DropOneFacts
  <2>3. seats' \in [ShowTimes -> Nat] /\ ledger' \in [ShowTimes -> Nat \cup {None}]
    <3>1. seats[s] - 1 \in Nat /\ ledger[s] - 1 \in Nat
      BY <1>23 DEF Succeed, TypeOK, None
    <3>2. QED
      BY <1>23, <3>1 DEF Succeed, TypeOK
  <2>4. attempts' \in [ShowTimes -> Seq(Users)]
    BY <1>23, <2>2 DEF Succeed, TypeOK
  <2>5. /\ inflight' \in [ShowTimes -> SUBSET Users]
        /\ active' \in [ShowTimes -> SUBSET Users]
        /\ orders' \in [ShowTimes -> SUBSET Users]
    BY <1>23 DEF Succeed, TypeOK
  <2>6. QED
    BY <1>23, <2>3, <2>4, <2>5 DEF Succeed, TypeOK
<1>24. ASSUME NEW u \in Users, NEW s \in ShowTimes, FailAttempt(u, s)
       PROVE TypeOK'
  <2>1. u \in ToSet(attempts[s]) /\ attempts[s] \in Seq(Users)
    BY <1>24 DEF FailAttempt, TypeOK
  <2>2. DropOne(attempts[s], u) \in Seq(Users)
    BY <2>1, DropOneFacts
  <2>3. quota' \in [ShowTimes -> Nat \cup {None}]
    BY <1>24 DEF FailAttempt, TypeOK
  <2>4. attempts' \in [ShowTimes -> Seq(Users)] /\ inflight' \in [ShowTimes -> SUBSET Users]
    BY <1>24, <2>2 DEF FailAttempt, TypeOK
  <2>5. QED
    BY <1>24, <2>3, <2>4 DEF FailAttempt, TypeOK
<1>25. QED
  BY <1>0, <1>1, <1>2, <1>3, <1>4, <1>5, <1>6, <1>7, <1>8, <1>9, <1>10, <1>11, <1>13, <1>14, <1>15,
     <1>16, <1>17, <1>18, <1>19, <1>20, <1>21, <1>22, <1>23, <1>24
  DEF Next, Edit, Dispatcher, Handle, Faults, Sale

\* An edit validates against the row it has read; only a show time whose copy
\* of the row is out of date is not held against the window that is in force.
LEMMA WindowsStep == TypeOK /\ Windows /\ [Next]_vars => Windows'
<1> SUFFICES ASSUME TypeOK, Windows, [Next]_vars PROVE Windows'
  OBVIOUS
<1> USE PreheatAssumption DEF Windows, OpensBeforeShows
<1>1. CASE UNCHANGED <<program, showTimes, editor, late, reverted>>
  BY <1>1
<1>2. ASSUME NEW s \in ShowTimes, CreateProgramShowTime(s)
      PROVE Windows'
  BY <1>2 DEF CreateProgramShowTime, StartEdit, ValidateShowTime, TypeOK
<1>3. ASSUME NEW s \in ShowTimes, CreateSeat(s)
      PROVE Windows'
  BY <1>3 DEF CreateSeat, StartEdit
<1>4. CASE CommitShowTime
  <2>1. /\ editor.copy \in ProgramRow /\ editor.show \in ShowTimes
        /\ editor.copy.open <= StartOf[editor.show]
    BY <1>4 DEF CommitShowTime
  <2>2. ~reverted' => ~reverted /\ program'.open = program.open
    BY <1>4 DEF CommitShowTime
  <2>3. editor.show \in late' \/ editor.copy = program
    BY <1>4 DEF CommitShowTime
  <2>4. showTimes' = showTimes \cup {editor.show} /\ late \subseteq late' /\ editor' = NoCall
    BY <1>4 DEF CommitShowTime
  <2>5. QED
    BY <2>1, <2>2, <2>3, <2>4 DEF NoCall
<1>5. CASE InsertSeat
  BY <1>5 DEF InsertSeat, TypeOK, Editors
<1>6. ASSUME NEW t \in OpenTimes, UpdateProgram(t)
      PROVE Windows'
  <2>1. program'.open = t /\ \A s \in showTimes : t <= StartOf[s]
    BY <1>6 DEF UpdateProgram, ValidateRushSaleWindow, TypeOK, ProgramRow
  <2>2. QED
    BY <1>6, <2>1 DEF UpdateProgram
<1>7. CASE InvalidProgram
  BY <1>7, FindOneRow DEF InvalidProgram, StartEdit
<1>8. CASE WriteInvalid
  BY <1>8 DEF WriteInvalid, TypeOK, Editors
<1>9. CASE ClearProgramSeatLedgers
  BY <1>9 DEF ClearProgramSeatLedgers, NoCall
<1>10. CASE Finish
  BY <1>10 DEF Finish, WorkerStep, TypeOK, ProgramRow
<1>11. CASE CacheExpires \/ Dispatcher \/ Sale
  BY <1>1, <1>11 DEF CacheExpires, Dispatcher, Publish, MarkPublished, Sale, Admit, Succeed,
     FailAttempt
<1>12. CASE (Handle /\ ~Finish) \/ Faults
  BY <1>1, <1>12 DEF Handle, Faults, Deliver, ListByProgramID, MarkTaskProcessed, PrimeRushRuntime,
     PrimeRead, ClearInflight, ClearQuotaByShowTime, ReplaceActive, SetQuotaAvailable,
     PrimeSeatLedger, MarkTaskConsumeFailed, Crash, WorkerStep, WorkerReads
<1>13. QED
  BY <1>1, <1>2, <1>3, <1>4, <1>5, <1>6, <1>7, <1>8, <1>9, <1>10, <1>11, <1>12
  DEF Next, Edit, vars

\* The task of the open time in force stays to be run until a task has primed
\* every show time it could know of.
LEMMA TasksStep == IInv /\ TypeOK' /\ [Next]_vars => Tasks'
<1> SUFFICES ASSUME IInv, TypeOK', [Next]_vars PROVE Tasks'
  OBVIOUS
<1>a. TypeOK /\ Tasks
  BY DEF IInv
<1> USE PreheatAssumption DEF Tasks, PreheatMissesOnlyLate, Dispatchable, PastListing, Priming
<1>1. CASE UNCHANGED <<program, showTimes, row, queue, worker, quota, late, reverted>>
  BY <1>a, <1>1
<1>2. CASE CommitShowTime
  <2>1. editor.copy \in ProgramRow /\ editor.show \in ShowTimes
    BY <1>2 DEF CommitShowTime, IInv, Windows
  <2>2. /\ ~reverted' => ~reverted /\ program'.open = program.open
        /\ reverted => reverted'
    BY <1>2 DEF CommitShowTime
  <2>3. /\ showTimes' = showTimes \cup {editor.show} /\ late \subseteq late'
        /\ editor.show \in late' \/ (~PastListing /\ program'.status = 1)
        /\ program' = program \/ program'.status = 1
    BY <1>2, <2>1 DEF CommitShowTime, Schedule, ProgramRow
  <2>4. \A k \in OpenTimes : row[k] \in Dispatchable => row'[k] \in Dispatchable
    BY <1>2, <1>a DEF CommitShowTime, Schedule, Enqueue, TypeOK
  <2>5. UNCHANGED <<worker, queue, quota>>
    BY <1>2 DEF CommitShowTime
  <2>6. program.open \in OpenTimes /\ queue \subseteq OpenTimes
    BY <1>a DEF TypeOK, ProgramRow
  <2>7. \A s \in showTimes' \ late' :
            s \in showTimes \ late \/ (program'.status = 1 /\ ~PastListing)
    <3> SUFFICES ASSUME NEW s \in showTimes', s \notin late'
                 PROVE s \in showTimes \ late \/ (program'.status = 1 /\ ~PastListing)
      OBVIOUS
    <3>1. s \in showTimes \cup {editor.show} /\ s \notin late
      BY <2>3
    <3>2. QED
      BY <2>3, <3>1
  <2>8. PreheatMissesOnlyLate'
    <3> SUFFICES ASSUME program'.status = 2, ~reverted', NEW s \in showTimes', s \notin late',
                        quota'[s] = None
                 PROVE row'[program'.open] \in Dispatchable
      OBVIOUS
    <3>1. s \in showTimes \ late /\ program' = program /\ ~reverted
      BY <2>2, <2>3, <2>7
    <3>2. row[program.open] \in Dispatchable
      BY <1>a, <2>5, <3>1
    <3>3. QED
      BY <2>4, <2>6, <3>1, <3>2
  <2>9. PastListing' => showTimes' # {} /\ (reverted' \/ row'[program'.open] \in Dispatchable)
    BY <1>a, <2>2, <2>3, <2>4, <2>5, <2>6
  <2>10. worker'.at = "noop" /\ worker'.key = program'.open
            => reverted' \/ program'.status = 1 \/ showTimes' \subseteq late'
    BY <1>a, <2>2, <2>3, <2>5
  <2> HIDE DEF PreheatMissesOnlyLate
  <2>11. QED
    BY <1>a, <2>4, <2>5, <2>6, <2>7, <2>8, <2>9, <2>10
<1>3. ASSUME NEW t \in OpenTimes, UpdateProgram(t)
      PROVE Tasks'
  <2>1. program'.open = t /\ UNCHANGED <<showTimes, queue, worker, quota, late, reverted>>
    BY <1>3, <1>a DEF UpdateProgram, TypeOK, ProgramRow
  <2>2. \A k \in OpenTimes : row[k] \in Dispatchable => row'[k] \in Dispatchable
    BY <1>3, <1>a DEF UpdateProgram, Enqueue, TypeOK
  <2>3. showTimes # {} => program'.status = 1 /\ row'[t] \in Dispatchable
    BY <1>3, <1>a DEF UpdateProgram, Enqueue, TypeOK
  <2>4. queue \subseteq OpenTimes
    BY <1>a DEF TypeOK
  <2>5. QED
    BY <1>a, <2>1, <2>2, <2>3, <2>4
<1>4. CASE WriteInvalid
  BY <1>4, <1>a DEF WriteInvalid
<1>5. ASSUME NEW k \in OpenTimes, Publish(k)
      PROVE Tasks'
  BY <1>5, <1>a DEF Publish
<1>6. CASE MarkPublished
  <2>1. \A k \in OpenTimes : row[k] \in Dispatchable => row'[k] \in Dispatchable
    BY <1>6, <1>a DEF MarkPublished, TypeOK
  <2>2. program.open \in OpenTimes /\ queue \subseteq OpenTimes
    BY <1>a DEF TypeOK, ProgramRow
  <2>3. QED
    BY <1>6, <1>a, <2>1, <2>2 DEF MarkPublished
<1>7. ASSUME NEW k \in OpenTimes, Deliver(k)
      PROVE Tasks'
  BY <1>7, <1>a DEF Deliver, WorkerStep, Idle
<1>8. CASE ListByProgramID
  BY <1>8, <1>a DEF ListByProgramID, WorkerStep, TypeOK, Workers
<1>9. ASSUME Processed(worker.key), worker' = Idle, worker.key \in OpenTimes
      PROVE /\ \A k \in queue' : row'[k] \in Dispatchable
            /\ worker'.at = "idle"
            /\ \A k \in OpenTimes \ {worker.key} : row'[k] = row[k]
  BY <1>9, <1>a DEF Processed, TypeOK, Idle
<1>10. CASE MarkTaskProcessed
  <2>1. worker.at = "noop" /\ worker.key \in OpenTimes /\ worker.key \in queue
    BY <1>10, <1>a DEF MarkTaskProcessed, TypeOK
  <2>2. UNCHANGED <<program, showTimes, quota, late, reverted>>
    BY <1>10 DEF MarkTaskProcessed
  <2>3. Processed(worker.key) /\ worker' = Idle
    BY <1>10 DEF MarkTaskProcessed, WorkerStep
  <2>4. program.open \in OpenTimes
    BY <1>a DEF TypeOK, ProgramRow
  <2>5. /\ \A k \in queue' : row'[k] \in Dispatchable
        /\ worker'.at = "idle"
        /\ program.open # worker.key => row'[program.open] = row[program.open]
    BY <1>9, <2>1, <2>3, <2>4
  <2>6. PreheatMissesOnlyLate'
    <3>1. CASE program.open = worker.key
      BY <1>a, <2>1, <2>2, <3>1
    <3>2. CASE program.open # worker.key
      BY <1>a, <2>2, <2>5, <3>2
    <3>3. QED
      BY <3>1, <3>2
  <2>7. QED
    BY <2>5, <2>6
<1>11. CASE Finish
  <2>1. worker.at = "finish" /\ worker.key \in OpenTimes
    BY <1>11, <1>a DEF Finish, TypeOK
  <2>2. UNCHANGED <<showTimes, quota, late, reverted>>
    BY <1>11 DEF Finish
  <2>3. Processed(worker.key) /\ worker' = Idle
    BY <1>11 DEF Finish, WorkerStep
  <2>4. \A s \in showTimes \ late : quota[s] # None
    BY <1>a, <2>1
  <2>5. QED
    BY <1>9, <2>1, <2>2, <2>3, <2>4
<1>12. CASE PrimeRushRuntime
  BY <1>12, <1>a DEF PrimeRushRuntime, WorkerReads, ListProgramShowTimesForRush, TypeOK, Workers
<1>13. CASE PrimeRead \/ ClearInflight \/ ReplaceActive
  <2>1. /\ worker.at \in Priming /\ worker'.at \in Priming
        /\ worker'.key = worker.key /\ worker'.todo = worker.todo
    BY <1>13, <1>a, ZenonT(30) DEF PrimeRead, ClearInflight, ReplaceActive, WorkerStep, WorkerReads, TypeOK, Workers
  <2>2. UNCHANGED <<program, showTimes, row, queue, quota, late, reverted>>
    BY <1>13 DEF PrimeRead, ClearInflight, ReplaceActive, WorkerStep, WorkerReads
  <2>3. QED
    BY <1>a, <2>1, <2>2
<1>14. CASE ClearQuotaByShowTime
  <2>1. First(worker.todo) \in worker.todo /\ worker.at = "quota"
    BY <1>14, <1>a, AtFirst DEF ClearQuotaByShowTime
  <2>2. worker'.at = "active" /\ worker'.key = worker.key /\ worker'.todo = worker.todo
    BY <1>14, <1>a DEF ClearQuotaByShowTime, WorkerStep, TypeOK, Workers
  <2>3. \A s \in ShowTimes \ {First(worker.todo)} : quota'[s] = quota[s]
    BY <1>14, <1>a DEF ClearQuotaByShowTime, TypeOK
  <2>4. UNCHANGED <<program, showTimes, row, queue, late, reverted>>
    BY <1>14 DEF ClearQuotaByShowTime, WorkerStep
  <2>5. QED
    BY <1>a, <2>1, <2>2, <2>3, <2>4, SMTT(30) DEF TypeOK
<1>15. CASE SetQuotaAvailable
  <2>1. First(worker.todo) \in worker.todo /\ worker.at = "set" /\ worker.read \in Nat
    BY <1>15, <1>a, AtFirst DEF SetQuotaAvailable, TypeOK, Workers
  <2>2. /\ worker'.key = worker.key
        /\ \/ worker'.at = "ledger" /\ worker.todo \ {First(worker.todo)} = {}
           \/ worker'.at = "read" /\ worker'.todo = worker.todo \ {First(worker.todo)} /\ worker'.todo # {}
    <3> DEFINE rest == worker.todo \ {First(worker.todo)}
    <3>1. worker' = [worker EXCEPT !.at = IF rest = {} THEN "ledger" ELSE "read",
                                   !.todo = IF rest = {} THEN worker.ids ELSE rest]
      BY <1>15 DEF SetQuotaAvailable, WorkerStep
    <3>2. worker \in Workers
      BY <1>a DEF TypeOK
    <3> HIDE DEF rest
    <3>3. /\ worker'.key = worker.key
          /\ worker'.at = IF rest = {} THEN "ledger" ELSE "read"
          /\ worker'.todo = IF rest = {} THEN worker.ids ELSE rest
      BY <3>1, <3>2 DEF Workers
    <3>4. QED
      BY <3>3 DEF rest
  <2>3. /\ \A s \in ShowTimes \ {First(worker.todo)} : quota'[s] = quota[s]
        /\ \A s \in ShowTimes : s = First(worker.todo) => quota'[s] # None
    BY <1>15, <1>a, <2>1 DEF SetQuotaAvailable, QuotaToSet, TypeOK
  <2>4. UNCHANGED <<program, showTimes, row, queue, late, reverted>>
    BY <1>15 DEF SetQuotaAvailable, WorkerStep
  <2>5. QED
    BY <1>a, <2>1, <2>2, <2>3, <2>4, SMTT(30) DEF TypeOK
<1>16. CASE PrimeSeatLedger
  BY <1>16, <1>a DEF PrimeSeatLedger, WorkerStep, TypeOK, Workers
<1>17. CASE MarkTaskConsumeFailed \/ Crash
  <2>1. \A k \in OpenTimes : row[k] \in Dispatchable => row'[k] \in Dispatchable
    BY <1>17, <1>a DEF MarkTaskConsumeFailed, Crash, TypeOK
  <2>2. worker'.at = "idle" /\ UNCHANGED <<program, showTimes, queue, quota, late, reverted>>
    BY <1>17 DEF MarkTaskConsumeFailed, Crash, WorkerStep, Idle
  <2>3. program.open \in OpenTimes /\ queue \subseteq OpenTimes
    BY <1>a DEF TypeOK, ProgramRow
  <2>4. QED
    BY <1>a, <2>1, <2>2, <2>3
<1>18. ASSUME NEW u \in Users, NEW s \in ShowTimes, Admit(u, s) \/ Succeed(u, s) \/ FailAttempt(u, s)
       PROVE Tasks'
  <2>1. \A t \in ShowTimes : quota[t] # None => quota'[t] # None
    BY <1>18, <1>a DEF Admit, Succeed, FailAttempt, TypeOK
  <2>2. UNCHANGED <<program, showTimes, row, queue, worker, late, reverted>>
    BY <1>18 DEF Admit, Succeed, FailAttempt
  <2>3. QED
    BY <1>a, <2>1, <2>2 DEF TypeOK
<1>19. CASE Edit /\ ~CommitShowTime /\ ~WriteInvalid /\ ~(\E t \in OpenTimes : UpdateProgram(t))
  BY <1>1, <1>19 DEF Edit, CacheExpires, CreateProgramShowTime, CreateSeat, InsertSeat,
     InvalidProgram, ClearProgramSeatLedgers, StartEdit
<1>20. QED
  BY <1>1, <1>2, <1>3, <1>4, <1>5, <1>6, <1>7, <1>8, <1>10, <1>11, <1>12, <1>13, <1>14, <1>15,
     <1>16, <1>17, <1>18, <1>19
  DEF Next, Dispatcher, Handle, Faults, Sale, Edit, vars

\* A show time outside "disturbed" is cleared and set at rest only, so that
\* each admission has its seat and each attempt its projection.
Undisturbed(s) ==
    /\ quota[s] = None => attempts[s] = <<>>
    /\ \A i \in DOMAIN attempts[s] : attempts[s][i] \in inflight[s]
    /\ quota[s] # None => quota[s] + Len(attempts[s]) <= seats[s]
    /\ \A i, j \in DOMAIN attempts[s] : i # j => attempts[s][i] # attempts[s][j]
    /\ ToSet(attempts[s]) \cap orders[s] = {}

LEMMA UndisturbedKept ==
  ASSUME NEW s, Undisturbed(s), quota'[s] = quota[s], attempts'[s] = attempts[s],
         inflight'[s] = inflight[s], seats'[s] = seats[s], orders'[s] = orders[s]
  PROVE  Undisturbed(s)'
  BY DEF Undisturbed

LEMMA AdmissionsStep == IInv /\ TypeOK' /\ [Next]_vars => Admissions'
<1> SUFFICES ASSUME IInv, TypeOK', [Next]_vars PROVE Admissions'
  OBVIOUS
<1>a. /\ TypeOK /\ Tasks /\ \A s \in ShowTimes : orders[s] \subseteq active[s]
      /\ \A s \in ShowTimes \ disturbed : Undisturbed(s)
  BY DEF IInv, Admissions, AdmissionCovered, Undisturbed
<1>b. ASSUME \A s \in ShowTimes : orders'[s] \subseteq active'[s],
             \A s \in ShowTimes \ disturbed' : Undisturbed(s)'
      PROVE Admissions'
  BY <1>b DEF Admissions, AdmissionCovered, Undisturbed
<1> USE PreheatAssumption
<1>1. CASE UNCHANGED <<quota, attempts, inflight, seats, orders, active, disturbed>>
  <2>1. ASSUME NEW s \in ShowTimes \ disturbed' PROVE Undisturbed(s)'
    BY <1>1, <1>a, UndisturbedKept
  <2>2. QED
    BY <1>1, <1>a, <1>b, <2>1
<1>2. CASE InsertSeat
  <2>1. editor.show \in ShowTimes
    BY <1>2 DEF InsertSeat, IInv, Windows
  <2>2. \A s \in ShowTimes : seats'[s] >= seats[s] /\ seats[s] \in Nat /\ seats'[s] \in Nat
                             /\ quota[s] \in Int /\ Len(attempts[s]) \in Nat
    BY <1>2, <1>a, <2>1, SMTT(30) DEF InsertSeat, TypeOK
  <2>3. UNCHANGED <<quota, attempts, inflight, orders, active, disturbed>>
    BY <1>2 DEF InsertSeat
  <2>4. QED
    BY <1>a, <1>b, <2>2, <2>3, SMTT(30) DEF Undisturbed
<1>3. ASSUME NEW s \in ShowTimes, Disturb(s), s \notin disturbed'
      PROVE attempts[s] = <<>> /\ worker.read = seats[s] /\ s \notin disturbed
  BY <1>3 DEF Disturb
<1>4. ASSUME NEW s \in ShowTimes, Disturb(s)
      PROVE \A t \in ShowTimes : t \notin disturbed' => t \notin disturbed
  BY <1>4 DEF Disturb
<1>5. ASSUME NEW s \in ShowTimes, Disturb(s), UNCHANGED <<attempts, seats, orders, active>>,
             \A t \in ShowTimes \ {s} : inflight'[t] = inflight[t] /\ quota'[t] = quota[t],
             quota'[s] \in {None, worker.read, quota[s]}
      PROVE Admissions'
  <2>1. ASSUME NEW t \in ShowTimes, t \notin disturbed' PROVE Undisturbed(t)'
    <3>1. CASE t # s
      <4>1. Undisturbed(t)
        BY <1>4, <1>5, <1>a, <2>1
      <4>2. QED
        BY <1>5, <3>1, <4>1, UndisturbedKept
    <3>2. CASE t = s
      <4>1. attempts'[t] = <<>> /\ worker.read = seats[t] /\ t \notin disturbed
        BY <1>3, <1>5, <2>1, <3>2
      <4>2. quota'[t] # None => quota'[t] <= seats'[t] /\ quota'[t] \in Nat
        BY <1>5, <1>a, <2>1, <3>2, <4>1 DEF Undisturbed, TypeOK
      <4>3. QED
        BY <4>1, <4>2 DEF Undisturbed, ToSet
    <3>3. QED
      BY <3>1, <3>2
  <2>2. QED
    BY <1>5, <1>a, <1>b, <2>1
<1>6. CASE ClearInflight \/ ClearQuotaByShowTime \/ SetQuotaAvailable
  <2>1. First(worker.todo) \in ShowTimes
    BY <1>6, <1>a, AtFirst DEF ClearInflight, ClearQuotaByShowTime, SetQuotaAvailable, Priming
  <2>2. /\ Disturb(First(worker.todo)) /\ UNCHANGED <<attempts, seats, orders, active>>
        /\ inflight' = inflight \/ inflight' = [inflight EXCEPT ![First(worker.todo)] = {}]
        /\ \/ quota' = quota
           \/ \E q \in {None, worker.read} : quota' = [quota EXCEPT ![First(worker.todo)] = q]
    BY <1>6 DEF ClearInflight, ClearQuotaByShowTime, SetQuotaAvailable, WorkerStep, QuotaToSet
  <2>3. /\ \A t \in ShowTimes \ {First(worker.todo)} :
               inflight'[t] = inflight[t] /\ quota'[t] = quota[t]
        /\ quota'[First(worker.todo)] \in {None, worker.read, quota[First(worker.todo)]}
    BY <1>a, <2>1, <2>2 DEF TypeOK
  <2>4. QED
    BY <1>5, <2>1, <2>2, <2>3
<1>7. CASE ReplaceActive
  <2>1. \A s \in ShowTimes : orders'[s] \subseteq active'[s]
    BY <1>7, <1>a DEF ReplaceActive, WorkerStep, ActiveGuards, FindActiveByShowTimeAfterID, TypeOK
  <2>2. UNCHANGED <<quota, attempts, inflight, seats, orders, disturbed>>
    BY <1>7 DEF ReplaceActive, WorkerStep
  <2>3. QED
    BY <1>a, <1>b, <2>1, <2>2 DEF Undisturbed
<1>8. ASSUME NEW u \in Users, NEW s \in ShowTimes, Admit(u, s)
      PROVE Admissions'
  <2>1. UNCHANGED <<seats, orders, active, disturbed>>
    BY <1>8 DEF Admit
  <2>2. ASSUME NEW t \in ShowTimes \ disturbed' PROVE Undisturbed(t)'
    <3>1. Undisturbed(t)
      BY <1>a, <2>1, <2>2
    <3>2. CASE t # s
      <4>1. quota'[t] = quota[t] /\ attempts'[t] = attempts[t] /\ inflight'[t] = inflight[t]
        BY <1>8, <1>a, <3>2 DEF Admit, TypeOK
      <4>2. QED
        BY <2>1, <3>1, <4>1, UndisturbedKept
    <3>3. CASE t = s
      <4>1. /\ quota[s] \in Nat /\ quota[s] > 0 /\ quota'[s] = quota[s] - 1
            /\ attempts[s] \in Seq(Users) /\ attempts'[s] = Append(attempts[s], u)
            /\ inflight'[s] = inflight[s] \cup {u} /\ u \notin inflight[s] /\ u \notin active[s]
            /\ orders'[s] = orders[s] /\ seats'[s] = seats[s] /\ seats[s] \in Nat
        <5>1. quota[s] \in Nat \cup {None} /\ quota[s] > 0
          BY <1>8, <1>a DEF Admit, TypeOK
        <5>2. QED
          BY <1>8, <1>a, <5>1 DEF Admit, TypeOK
      <4>2. PICK n \in Nat : n = Len(attempts[s]) /\ DOMAIN attempts[s] = 1..n
        BY <4>1
      <4>3. /\ DOMAIN attempts'[s] = 1..(n + 1) /\ Len(attempts'[s]) = n + 1
            /\ \A i \in 1..n : attempts'[s][i] = attempts[s][i]
            /\ attempts'[s][n + 1] = u
        BY <4>1, <4>2
      <4>4. /\ \A i \in 1..n : attempts[s][i] \in inflight[s] /\ attempts[s][i] \notin orders[s]
            /\ quota[s] + n <= seats[s]
            /\ \A i, j \in 1..n : i # j => attempts[s][i] # attempts[s][j]
        <5>1. /\ \A i \in 1..n : attempts[s][i] \in inflight[s]
              /\ \A i, j \in 1..n : i # j => attempts[s][i] # attempts[s][j]
              /\ ToSet(attempts[s]) \cap orders[s] = {}
          BY <3>1, <3>3, <4>2 DEF Undisturbed
        <5>2. quota[s] # None
          BY <4>1
        <5>3. quota[s] + n <= seats[s]
          BY <3>1, <3>3, <4>2, <5>2 DEF Undisturbed
        <5>4. ASSUME NEW i \in 1..n PROVE attempts[s][i] \notin orders[s]
          BY <4>2, <5>1 DEF ToSet
        <5>5. QED
          BY <5>1, <5>3, <5>4
      <4>5. u \notin orders[s]
        BY <1>a, <4>1
      <4>6. \A i \in 1..(n + 1) : i \in 1..n \/ i = n + 1
        BY <4>2
      <4>7. /\ \A i \in 1..(n + 1) : attempts'[s][i] \in inflight'[s] /\ attempts'[s][i] \notin orders'[s]
            /\ quota'[s] + (n + 1) <= seats'[s] /\ quota'[s] # None
        <5>1. ASSUME NEW i \in 1..(n + 1)
              PROVE attempts'[s][i] \in inflight'[s] /\ attempts'[s][i] \notin orders'[s]
          <6>1. CASE i = n + 1
            BY <4>1, <4>3, <4>5, <6>1
          <6>2. CASE i \in 1..n
            <7>1. attempts'[s][i] = attempts[s][i]
              BY <4>3, <6>2
            <7>2. QED
              BY <4>1, <4>4, <6>2, <7>1
          <6>3. QED
            BY <4>6, <6>1, <6>2
        <5>2. quota'[s] + (n + 1) <= seats'[s] /\ quota'[s] # None
          BY <4>1, <4>2, <4>4
        <5>3. QED
          BY <5>1, <5>2
      <4>8. \A i, j \in 1..(n + 1) : i # j => attempts'[s][i] # attempts'[s][j]
        BY <4>1, <4>3, <4>4, <4>6, SMTT(30)
      <4>9. QED
        BY <3>3, <4>3, <4>7, <4>8 DEF Undisturbed, ToSet
    <3>4. QED
      BY <3>2, <3>3
  <2>3. QED
    BY <1>a, <1>b, <2>1, <2>2
<1>9. ASSUME NEW u, NEW s \in ShowTimes \ disturbed, u \in ToSet(attempts[s]),
             attempts'[s] = DropOne(attempts[s], u),
             inflight'[s] = inflight[s] \ {u},
             orders'[s] = orders[s] \/ orders'[s] = orders[s] \cup {u},
             \/ quota'[s] = quota[s] /\ seats'[s] = seats[s] - 1
             \/ seats'[s] = seats[s] /\ quota'[s] = IF quota[s] = None THEN 1 ELSE quota[s] + 1
      PROVE Undisturbed(s)'
  <2>1. Undisturbed(s) /\ attempts[s] \in Seq(Users) /\ seats[s] \in Nat /\ quota[s] \in Nat \cup {None}
    BY <1>9, <1>a DEF TypeOK
  <2>2. PICK n \in Nat \ {0} : n = Len(attempts[s]) /\ DOMAIN attempts[s] = 1..n
    BY <1>9, <2>1, DropOneFacts
  <2>3. PICK d \in Seq(Users) : d = DropOne(attempts[s], u)
    BY <1>9, <2>1, DropOneFacts
  <2>4. /\ Len(d) = n - 1
        /\ \A j \in DOMAIN d : \E i \in 1..n : d[j] = attempts[s][i]
        /\ \A i, j \in DOMAIN d : i # j => d[i] # d[j]
        /\ \A j \in DOMAIN d : d[j] # u
    <3>1. \A i, j \in DOMAIN attempts[s] : i # j => attempts[s][i] # attempts[s][j]
      BY <2>1 DEF Undisturbed
    <3>2. /\ Len(d) = Len(attempts[s]) - 1
          /\ \A j \in DOMAIN d : \E i \in DOMAIN attempts[s] : d[j] = attempts[s][i]
          /\ \A i, j \in DOMAIN d : i # j => d[i] # d[j]
          /\ \A j \in DOMAIN d : d[j] # u
      <4>a. attempts[s] \in Seq(Users) /\ u \in ToSet(attempts[s])
        BY <1>9, <2>1
      <4>1. /\ Len(DropOne(attempts[s], u)) = Len(attempts[s]) - 1
            /\ \A j \in DOMAIN DropOne(attempts[s], u) :
                  \E i \in DOMAIN attempts[s] : DropOne(attempts[s], u)[j] = attempts[s][i]
            /\ \A i, j \in DOMAIN DropOne(attempts[s], u) :
                  i # j => DropOne(attempts[s], u)[i] # DropOne(attempts[s], u)[j]
            /\ \A j \in DOMAIN DropOne(attempts[s], u) : DropOne(attempts[s], u)[j] # u
        BY <4>a, <3>1, DropOneFacts, SMTT(30)
      <4>2. QED
        BY <2>3, <4>1, Zenon
    <3>3. QED
      BY <2>2, <3>2, Zenon
  <2>5. quota[s] # None /\ quota[s] \in Nat /\ quota[s] + n <= seats[s]
    <3>1. attempts[s] # <<>>
      BY <2>2
    <3>2. QED
      BY <2>1, <2>2, <3>1 DEF Undisturbed
  <2>6. \A i \in 1..n : attempts[s][i] \in inflight[s] /\ attempts[s][i] \notin orders[s]
    BY <2>1, <2>2 DEF Undisturbed, ToSet
  <2>7. \A j \in DOMAIN d : d[j] \in inflight'[s] /\ d[j] \notin orders'[s]
    BY <1>9, <2>4, <2>6
  <2>8. quota'[s] # None /\ quota'[s] + (n - 1) <= seats'[s]
    BY <1>9, <2>1, <2>5, SMTT(30)
  <2>9. QED
    BY <1>9, <2>2, <2>3, <2>4, <2>7, <2>8 DEF Undisturbed, ToSet
<1>10. ASSUME NEW u \in Users, NEW s \in ShowTimes, Succeed(u, s) \/ FailAttempt(u, s)
       PROVE Admissions'
  <2>1. /\ u \in ToSet(attempts[s]) /\ UNCHANGED disturbed
        /\ attempts' = [attempts EXCEPT ![s] = DropOne(attempts[s], u)]
        /\ inflight' = [inflight EXCEPT ![s] = @ \ {u}]
    BY <1>10 DEF Succeed, FailAttempt
  <2>2. /\ \A t \in ShowTimes \ {s} : /\ attempts'[t] = attempts[t] /\ inflight'[t] = inflight[t]
                                      /\ quota'[t] = quota[t] /\ seats'[t] = seats[t]
                                      /\ orders'[t] = orders[t]
        /\ attempts'[s] = DropOne(attempts[s], u) /\ inflight'[s] = inflight[s] \ {u}
    BY <1>10, <1>a, <2>1 DEF Succeed, FailAttempt, TypeOK
  <2>3. /\ orders'[s] = orders[s] \/ orders'[s] = orders[s] \cup {u}
        /\ \/ quota'[s] = quota[s] /\ seats'[s] = seats[s] - 1
           \/ seats'[s] = seats[s] /\ quota'[s] = IF quota[s] = None THEN 1 ELSE quota[s] + 1
        /\ \A t \in ShowTimes : orders'[t] \subseteq active'[t]
    BY <1>10, <1>a, SMTT(30) DEF Succeed, FailAttempt, TypeOK
  <2>4. ASSUME NEW t \in ShowTimes \ disturbed' PROVE Undisturbed(t)'
    <3>1. CASE t = s
      BY <1>9, <2>1, <2>2, <2>3, <2>4, <3>1
    <3>2. CASE t # s
      BY <1>a, <2>1, <2>2, <2>4, <3>2, UndisturbedKept
    <3>3. QED
      BY <3>1, <3>2
  <2>5. QED
    BY <1>b, <2>3, <2>4
<1>11. CASE Edit /\ ~InsertSeat
  BY <1>1, <1>11 DEF Edit, CacheExpires, CreateProgramShowTime, CreateSeat, CommitShowTime,
     UpdateProgram, InvalidProgram, WriteInvalid, ClearProgramSeatLedgers, StartEdit
<1>12. CASE Dispatcher \/ Faults
  BY <1>1, <1>12 DEF Dispatcher, Publish, MarkPublished, Faults, MarkTaskConsumeFailed, Crash,
     WorkerStep
<1>13. CASE Handle /\ ~ClearInflight /\ ~ClearQuotaByShowTime /\ ~SetQuotaAvailable /\ ~ReplaceActive
  BY <1>1, <1>13 DEF Handle, Deliver, ListByProgramID, MarkTaskProcessed, PrimeRushRuntime,
     PrimeRead, PrimeSeatLedger, Finish, WorkerStep, WorkerReads
<1>14. QED
  BY <1>1, <1>2, <1>6, <1>7, <1>8, <1>10, <1>11, <1>12, <1>13 DEF Next, Sale, vars

-----------------------------------------------------------------------------
LEMMA Invariance == Spec => []IInv
<1>1. IInv /\ [Next]_vars => IInv'
  BY TypeStep, WindowsStep, TasksStep, AdmissionsStep DEF IInv
<1>2. QED
  BY InitIInv, <1>1, PTL DEF Spec

\* Program, tasks, runtime and calls under way keep their types; in particular
\* seats, stock and quota are never counted below zero.
THEOREM PreheatTypeCorrect == Spec => []TypeOK
<1>1. IInv => TypeOK
  BY DEF IInv
<1>2. QED
  BY <1>1, Invariance, PTL

\* The worker never leaves a show time without a quota behind a program marked
\* as preheated, whatever fails between its steps and however often the task runs
\* again: MarkInventoryPreheatedByProgramAndTaskProcessed comes after the loop of
\* PrimeRushRuntime.  A show time that slips in is one of those that the outbox
\* row still stands for, or was committed beside the running task.
THEOREM PreheatMissesOnlyLateTheorem == Spec => []PreheatMissesOnlyLate
<1>1. IInv => PreheatMissesOnlyLate
  BY DEF IInv, Tasks
<1>2. QED
  BY Invariance, <1>1, PTL

\* What admit_attempt.lua gives out is covered by free seat rows for as long as
\* PrimeRushRuntime has met no attempt under way, and the in-flight and active
\* projections admit no user twice: for any number of users, seats and attempts.
THEOREM AdmissionCoveredTheorem == Spec => []AdmissionCovered
<1>1. IInv => AdmissionCovered
  BY DEF IInv, Admissions
<1>2. QED
  BY Invariance, <1>1, PTL

\* The two checks of the rush window, of UpdateProgram against the show times and
\* of CreateProgramShowTime against the program, hold the sale before every show
\* but those whose transaction ran beside an edit or over a stale program row.
THEOREM OpensBeforeShowsTheorem == Spec => []OpensBeforeShows
<1>1. IInv => OpensBeforeShows
  BY DEF IInv, Windows
<1>2. QED
  BY Invariance, <1>1, PTL
=============================================================================
