-------------------------- MODULE RushOrderProofs ---------------------------
(***************************************************************************)
(* Safety of rush ordering for any number of orders, users, viewers, seats  *)
(* and workers, any quota and any set of hazards.                           *)
(*                                                                          *)
(* A step of Next is seen from three sides: what it does to the attempt     *)
(* store (StoreStep), to the database (DbStep) and to the workers.  The     *)
(* invariants about one side are proved against its view.                   *)
(***************************************************************************)
EXTENDS RushOrder, FiniteSetTheorems, TLAPS

\* A ticket count is a number: the viewers of a token are finitely many.
LEMMA TicketCountType == \A o \in Orders : TicketCount(o) \in Nat
  BY StoreAssumption, FS_Subset, FS_CardinalityType DEF TicketCount

\* Abbreviations every proof looks through.
USE DEF Found, FailInflight, Activate, Verify, DispatchOrderCreateEventAsync,
        UserGuarded, ViewersGuarded, SeatsGuarded, DeleteByOrderNumber,
        TakePreparedAttempt, BuildOrderCreateEventFromSnapshots, InsertOrderTickets

-----------------------------------------------------------------------------
(***************************************************************************)
(* Views of a step                                                          *)
(***************************************************************************)
\* One script or one expiry.
StoreStep ==
    \/ \E o \in Orders :
          \/ Admit(o) \/ PrepareAttemptForConsume(o) \/ FailBeforeProcessing(o)
          \/ FinalizeSuccess(o) \/ FinalizeFailure(o) \/ FinalizeClosedOrder(o)
          \/ ExpireAttempt(o)
    \/ ExpireInflight
    \/ UNCHANGED storeVars

\* One create or one cancel transaction.
DbStep ==
    \/ \E w \in Workers :
          pc[w] = "persist" /\ work[w] \in Orders /\ InsertOrder(work[w], got[w])
    \/ \E o \in Orders : CancelRows(o)
    \/ UNCHANGED dbVars

\* Every action runs at most one script of the attempt store.
LEMMA StoreView == TypeOK /\ [Next]_vars => StoreStep
  <1> SUFFICES ASSUME TypeOK, [Next]_vars PROVE StoreStep
    OBVIOUS
  <1> USE DEF StoreStep
  <1>1. ASSUME NEW o \in Orders,
               CreateOrder(o) \/ CreateOrderUnknown(o) \/ CreatePurchaseToken(o)
        PROVE  StoreStep
    BY <1>1 DEF CreateOrder, CreateOrderUnknown, CreatePurchaseToken, NoteRevived
  <1>2. ASSUME NEW o \in Orders, SenderStep(o) PROVE StoreStep
    BY <1>2 DEF SenderStep, SendOk, SendError, FailPendingAttemptAfterAsyncSendError
  <1>3. ASSUME NEW o \in Orders, CloserStep(o) PROVE StoreStep
    BY <1>3 DEF CloserStep, CloseSync, CloseRelease, CancelTx, CancelSync,
                SyncClosedRushAttempt
  <1>4. ASSUME NEW o \in Orders,
               CloseTx(o) \/ CancelRelease(o) \/ CancelAgain(o) \/ CloserCrash(o)
        PROVE  StoreStep
    BY <1>4 DEF CloseTx, CancelRelease, CancelAgain, CloserCrash
  <1>5. ASSUME NEW o \in Orders, LeaseExpires(o) \/ RecordExpires(o)
        PROVE  StoreStep
    BY <1>5 DEF LeaseExpires, RecordExpires
  <1>6. ASSUME NEW w \in Workers, Take(w) PROVE StoreStep
    BY <1>6 DEF Take, ConsumePrepare, ConsumeSkip
  <1>7. ASSUME NEW w \in Workers, ConsumeStep(w) PROVE StoreStep
    <2>1. CASE ConsumeFinalizeSuccess(w)
      BY <2>1 DEF ConsumeFinalizeSuccess, TypeOK, WorkerTypeOK
    <2>2. CASE ConsumeFinalizeFailure(w)
      BY <2>2 DEF ConsumeFinalizeFailure, TypeOK, WorkerTypeOK
    <2>3. CASE ~(ConsumeFinalizeSuccess(w) \/ ConsumeFinalizeFailure(w))
      BY <1>7, <2>3
      DEF ConsumeStep, ConsumeLookup, FreezeSeats, FreezeExhausted, FreezeError,
          PersistLost, Persist, PersistGuardConflict, PersistError, Resolve,
          ConsumeFinalizeFailureRefused, ReleaseOrderCreateFreeze
    <2> QED
      BY <2>1, <2>2, <2>3
  <1>8. ASSUME NEW w \in Workers, WorkerCrash(w)
        PROVE  StoreStep
    BY <1>8 DEF WorkerCrash
  <1>9. CASE InflightExpires \/ UNCHANGED vars
    BY <1>9 DEF InflightExpires, vars
  <1> QED
    BY <1>1, <1>2, <1>3, <1>4, <1>5, <1>6, <1>7, <1>8, <1>9 DEF Next, PerfCreateOrder

\* Only Persist and PersistError insert an order, only CloseTx and CancelTx
\* cancel one.
LEMMA DbView == TypeOK /\ [Next]_vars => DbStep
  <1> SUFFICES ASSUME TypeOK, [Next]_vars PROVE DbStep
    OBVIOUS
  <1> USE DEF DbStep
  <1>1. ASSUME NEW o \in Orders,
               CreateOrder(o) \/ CreateOrderUnknown(o) \/ CreatePurchaseToken(o)
        PROVE  DbStep
    BY <1>1 DEF CreateOrder, CreateOrderUnknown, CreatePurchaseToken, NoteRevived
  <1>2. ASSUME NEW o \in Orders, SenderStep(o) PROVE DbStep
    BY <1>2 DEF SenderStep, SendOk, SendError, FailPendingAttemptAfterAsyncSendError
  <1>3. ASSUME NEW o \in Orders, CloserStep(o) PROVE DbStep
    BY <1>3 DEF CloserStep, CloseSync, CloseRelease, CancelTx, CancelSync
  <1>4. ASSUME NEW o \in Orders,
               CloseTx(o) \/ CancelRelease(o) \/ CancelAgain(o) \/ CloserCrash(o)
        PROVE  DbStep
    BY <1>4 DEF CloseTx, CancelRelease, CancelAgain, CloserCrash
  <1>5. ASSUME NEW o \in Orders, LeaseExpires(o) \/ RecordExpires(o)
        PROVE  DbStep
    BY <1>5 DEF LeaseExpires, RecordExpires
  <1>6. ASSUME NEW w \in Workers, Take(w) PROVE DbStep
    BY <1>6 DEF Take, ConsumePrepare, ConsumeSkip
  <1>7. ASSUME NEW w \in Workers, ConsumeStep(w) PROVE DbStep
    <2>1. CASE Persist(w) \/ PersistError(w)
      BY <2>1 DEF Persist, PersistError, TypeOK, WorkerTypeOK
    <2>2. CASE ~(Persist(w) \/ PersistError(w))
      BY <1>7, <2>2
      DEF ConsumeStep, ConsumeLookup, FreezeSeats, FreezeExhausted, FreezeError,
          PersistLost, PersistGuardConflict, Resolve, ConsumeFinalizeSuccess,
          ConsumeFinalizeFailure, ConsumeFinalizeFailureRefused,
          ReleaseOrderCreateFreeze
    <2> QED
      BY <2>1, <2>2
  <1>8. ASSUME NEW w \in Workers, WorkerCrash(w)
        PROVE  DbStep
    BY <1>8 DEF WorkerCrash
  <1>9. CASE InflightExpires \/ UNCHANGED vars
    BY <1>9 DEF InflightExpires, vars
  <1> QED
    BY <1>1, <1>2, <1>3, <1>4, <1>5, <1>6, <1>7, <1>8, <1>9 DEF Next, PerfCreateOrder

-----------------------------------------------------------------------------
(***************************************************************************)
(* Types                                                                    *)
(***************************************************************************)
\* Every script and every expiry keeps the store well typed.
LEMMA StoreStepType == StoreTypeOK /\ StoreStep => StoreTypeOK'
  <1> SUFFICES ASSUME StoreTypeOK, StoreStep PROVE StoreTypeOK'
    OBVIOUS
  <1> USE StoreAssumption, TicketCountType DEF StoreTypeOK, AttemptStates, SetFields
  <1>1. ASSUME NEW o \in Orders, Admit(o) PROVE StoreTypeOK'
    BY <1>1 DEF Admit
  <1>2. ASSUME NEW o \in Orders, PrepareAttemptForConsume(o) PROVE StoreTypeOK'
    BY <1>2 DEF PrepareAttemptForConsume
  <1>3. ASSUME NEW o \in Orders, FailBeforeProcessing(o) PROVE StoreTypeOK'
    BY <1>3 DEF FailBeforeProcessing
  <1>4. ASSUME NEW o \in Orders, FinalizeSuccess(o) PROVE StoreTypeOK'
    BY <1>4 DEF FinalizeSuccess
  <1>5. ASSUME NEW o \in Orders, FinalizeFailure(o) \/ FinalizeClosedOrder(o)
        PROVE  StoreTypeOK'
    BY <1>5 DEF FinalizeFailure, FinalizeClosedOrder, FailAndRelease
  <1>6. ASSUME NEW o \in Orders, ExpireAttempt(o) PROVE StoreTypeOK'
    BY <1>6 DEF ExpireAttempt
  <1>7. CASE ExpireInflight
    BY <1>7 DEF ExpireInflight
  <1>8. CASE UNCHANGED storeVars
    BY <1>8 DEF storeVars
  <1> QED
    BY <1>1, <1>2, <1>3, <1>4, <1>5, <1>6, <1>7, <1>8 DEF StoreStep

\* Both transactions keep the tables well typed.
LEMMA DbStepType == TypeOK /\ DbStep => DbTypeOK'
  <1> SUFFICES ASSUME TypeOK, DbStep PROVE DbTypeOK'
    OBVIOUS
  <1> USE DEF TypeOK, DbTypeOK
  <1>1. ASSUME NEW w \in Workers, work[w] \in Orders, InsertOrder(work[w], got[w])
        PROVE  DbTypeOK'
    <2>1. got[w] \in SUBSET Seats
      BY DEF WorkerTypeOK
    <2> QED
      BY <1>1, <2>1 DEF InsertOrder, SetFields
  <1>2. ASSUME NEW o \in Orders, CancelRows(o) PROVE DbTypeOK'
    BY <1>2 DEF CancelRows
  <1>3. CASE UNCHANGED dbVars
    BY <1>3 DEF dbVars
  <1> QED
    BY <1>1, <1>2, <1>3 DEF DbStep

\* Leaving an event, acknowledged or not, keeps the workers well typed.
LEMMA LeaveType ==
    ASSUME WorkerTypeOK, NEW w \in Workers, pc[w] # "idle",
           Ack(w) \/ ReturnError(w) \/ (Leave(w) /\ UNCHANGED queue)
    PROVE  WorkerTypeOK'
  <1> USE DEF WorkerTypeOK
  <1>1. work[w] \in Orders /\ Leave(w)
    BY DEF Ack, ReturnError
  <1>2. queue' \in [Orders -> Nat]
    <2>1. ASSUME NEW n \in {0, 1},
                 queue' = [queue EXCEPT ![work[w]] = IF @ > n THEN @ - n ELSE 0]
          PROVE  queue' \in [Orders -> Nat]
      BY <1>1, <2>1
    <2>2. CASE Ack(w)
      BY <1>1, <2>2 DEF Ack
    <2> QED
      BY <2>1, <2>2 DEF ReturnError
  <1>3. /\ pc' \in [Workers -> Steps]
        /\ work' \in [Workers -> Orders \cup {None}]
        /\ got' \in [Workers -> SUBSET Seats]
        /\ \A v \in Workers : pc'[v] # "idle" => work'[v] \in Orders
    BY <1>1 DEF Leave, Goto, Steps
  <1> QED
    BY <1>2, <1>3

\* So does a move of a busy worker to another step.
LEMMA GotoType ==
    ASSUME WorkerTypeOK, NEW w \in Workers, pc[w] # "idle",
           NEW step \in Steps, Goto(w, step), UNCHANGED <<queue, work, got>>
    PROVE  WorkerTypeOK'
  BY DEF WorkerTypeOK, Goto

\* Every step of a consumer keeps the workers well typed.
LEMMA ConsumeStepType ==
    ASSUME TypeOK, NEW w \in Workers, ConsumeStep(w)
    PROVE  WorkerTypeOK'
  <1> USE DEF TypeOK
  <1>1. CASE ConsumeLookup(w)
    BY <1>1, LeaveType, GotoType DEF ConsumeLookup, Steps
  <1>2. CASE FreezeSeats(w)
    BY <1>2 DEF FreezeSeats, Goto, WorkerTypeOK, Steps
  <1>3. CASE FreezeExhausted(w)
    BY <1>3, GotoType DEF FreezeExhausted, Steps
  <1>4. CASE FreezeError(w)
    BY <1>4, LeaveType DEF FreezeError
  <1>5. CASE PersistLost(w)
    BY <1>5, LeaveType DEF PersistLost
  <1>6. CASE Persist(w)
    BY <1>6, GotoType DEF Persist, Steps
  <1>7. CASE PersistGuardConflict(w)
    BY <1>7, GotoType DEF PersistGuardConflict, Steps
  <1>8. CASE PersistError(w)
    BY <1>8, LeaveType, GotoType DEF PersistError, Steps
  <1>9. CASE Resolve(w)
    BY <1>9, LeaveType, GotoType DEF Resolve, Steps
  <1>10. CASE ConsumeFinalizeSuccess(w)
    BY <1>10, LeaveType DEF ConsumeFinalizeSuccess
  <1>11. CASE ConsumeFinalizeFailure(w)
    BY <1>11, LeaveType, GotoType DEF ConsumeFinalizeFailure, Steps
  <1>12. CASE ConsumeFinalizeFailureRefused(w)
    BY <1>12, LeaveType DEF ConsumeFinalizeFailureRefused
  <1>13. CASE ReleaseOrderCreateFreeze(w)
    BY <1>13, LeaveType DEF ReleaseOrderCreateFreeze
  <1> QED
    BY <1>1, <1>2, <1>3, <1>4, <1>5, <1>6, <1>7, <1>8, <1>9, <1>10, <1>11,
       <1>12, <1>13 DEF ConsumeStep

\* Every step keeps the workers well typed.
LEMMA WorkersType == TypeOK /\ [Next]_vars => WorkerTypeOK'
  <1> SUFFICES ASSUME TypeOK, [Next]_vars PROVE WorkerTypeOK'
    OBVIOUS
  <1>1. CASE UNCHANGED <<queue, workerVars>>
    BY <1>1 DEF TypeOK, WorkerTypeOK, workerVars
  <1>2. ASSUME NEW o \in Orders, SendOk(o) \/ SendError(o) PROVE WorkerTypeOK'
    BY <1>2 DEF SendOk, SendError, TypeOK, WorkerTypeOK, workerVars
  <1>3. ASSUME NEW w \in Workers, NEW o \in Orders, ConsumePrepare(w, o)
        PROVE  WorkerTypeOK'
    BY <1>3 DEF ConsumePrepare, Fetched, Goto, Steps, TypeOK, WorkerTypeOK
  <1>4. ASSUME NEW w \in Workers, NEW o \in Orders, ConsumeSkip(w, o)
        PROVE  WorkerTypeOK'
    BY <1>4 DEF ConsumeSkip, Fetched, TypeOK, WorkerTypeOK, workerVars
  <1>5. ASSUME NEW w \in Workers, WorkerCrash(w) PROVE WorkerTypeOK'
    BY <1>5, LeaveType DEF WorkerCrash, TypeOK
  <1>6. ASSUME NEW o \in Orders, SenderStep(o) PROVE WorkerTypeOK'
    BY <1>1, <1>2, <1>6 DEF SenderStep, FailPendingAttemptAfterAsyncSendError
  <1>7. ASSUME NEW o \in Orders,
               \/ CreateOrder(o) \/ CreateOrderUnknown(o) \/ CreatePurchaseToken(o)
               \/ FailPendingAttemptAfterAsyncSendError(o)
               \/ CloseTx(o) \/ CancelRelease(o) \/ CancelAgain(o)
               \/ CloserStep(o) \/ CloserCrash(o)
               \/ LeaseExpires(o) \/ RecordExpires(o)
        PROVE  UNCHANGED <<queue, workerVars>>
    BY <1>7 DEF CreateOrder, CreateOrderUnknown, CreatePurchaseToken, NoteRevived,
         FailPendingAttemptAfterAsyncSendError, CloseTx, CancelRelease, CancelAgain,
         CloserStep, CloseSync, CloseRelease, CancelTx, CancelSync, CloserCrash,
         LeaseExpires, RecordExpires
  <1>8. CASE InflightExpires \/ UNCHANGED vars
    BY <1>1, <1>8 DEF InflightExpires, vars
  <1> QED
    BY <1>1, <1>2, <1>3, <1>4, <1>5, <1>6, <1>7, <1>8, ConsumeStepType
    DEF Next, PerfCreateOrder, Take

\* The purchase tokens, senders, freezes and closers.
OthersTypeOK ==
    /\ token \in [Orders -> {"unissued", "valid", "expired"}]
    /\ sending \in [Orders -> Nat]
    /\ failed \in [Orders -> Nat]
    /\ freeze \in [Orders -> SUBSET Seats]
    /\ closer \in [Orders -> {"idle", "closeSync", "closeRelease",
                              "cancelTx", "cancelSync"}]
    /\ revived \subseteq Orders

\* Every step keeps them well typed.
LEMMA OthersType == TypeOK /\ [Next]_vars => OthersTypeOK'
  <1> SUFFICES ASSUME TypeOK, [Next]_vars PROVE OthersTypeOK'
    OBVIOUS
  <1> USE DEF TypeOK, OthersTypeOK, senderVars
  <1>1. ASSUME NEW o \in Orders,
               CreateOrder(o) \/ CreateOrderUnknown(o) \/ CreatePurchaseToken(o)
        PROVE  OthersTypeOK'
    BY <1>1 DEF CreateOrder, CreateOrderUnknown, CreatePurchaseToken, NoteRevived
  <1>2. ASSUME NEW o \in Orders, SenderStep(o) PROVE OthersTypeOK'
    BY <1>2 DEF SenderStep, SendOk, SendError, FailPendingAttemptAfterAsyncSendError
  <1>3. ASSUME NEW o \in Orders, CloserStep(o) PROVE OthersTypeOK'
    BY <1>3 DEF CloserStep, CloseSync, CloseRelease, CancelTx, CancelSync, CloserAt,
                ReleaseSeatFreeze
  <1>4. ASSUME NEW o \in Orders,
               CloseTx(o) \/ CancelRelease(o) \/ CancelAgain(o) \/ CloserCrash(o)
        PROVE  OthersTypeOK'
    BY <1>4 DEF CloseTx, CancelRelease, CancelAgain, CloserCrash, CloserAt,
                ReleaseSeatFreeze
  <1>5. ASSUME NEW o \in Orders, LeaseExpires(o) \/ RecordExpires(o)
        PROVE  OthersTypeOK'
    BY <1>5, RushAssumption DEF LeaseExpires, RecordExpires
  <1>6. ASSUME NEW w \in Workers, Take(w) PROVE OthersTypeOK'
    BY <1>6 DEF Take, ConsumePrepare, ConsumeSkip
  <1>7. ASSUME NEW w \in Workers, ConsumeStep(w) PROVE OthersTypeOK'
    <2>1. CASE FreezeSeats(w) \/ FreezeError(w) \/ ReleaseOrderCreateFreeze(w)
      BY <2>1 DEF FreezeSeats, FreezeError, ReleaseOrderCreateFreeze, WorkerTypeOK
    <2>2. CASE ~(FreezeSeats(w) \/ FreezeError(w) \/ ReleaseOrderCreateFreeze(w))
      BY <1>7, <2>2
      DEF ConsumeStep, ConsumeLookup, FreezeExhausted, PersistLost, Persist,
          PersistGuardConflict, PersistError, Resolve, ConsumeFinalizeSuccess,
          ConsumeFinalizeFailure, ConsumeFinalizeFailureRefused
    <2> QED
      BY <2>1, <2>2
  <1>8. ASSUME NEW w \in Workers, WorkerCrash(w)
        PROVE  OthersTypeOK'
    BY <1>8 DEF WorkerCrash
  <1>9. CASE InflightExpires \/ UNCHANGED vars
    BY <1>9 DEF InflightExpires, vars
  <1> QED
    BY <1>1, <1>2, <1>3, <1>4, <1>5, <1>6, <1>7, <1>8, <1>9 DEF Next, PerfCreateOrder

\* Type correctness of rush ordering: attempt states, guard rows, seats and
\* steps stay in their ranges, and a busy worker always has an order in hand.
THEOREM TypeCorrect == Spec => []TypeOK
<1>1. Init => TypeOK
  BY StoreAssumption
  DEF Init, TypeOK, WorkerTypeOK, DbTypeOK, StoreInit, StoreTypeOK,
      AttemptStates, Steps
<1>2. TypeOK /\ [Next]_vars => TypeOK'
  BY StoreView, StoreStepType, DbView, DbStepType, WorkersType, OthersType
  DEF TypeOK, OthersTypeOK
<1> QED
  BY <1>1, <1>2, PTL DEF Spec

-----------------------------------------------------------------------------
(***************************************************************************)
(* Admission quota                                                          *)
(***************************************************************************)
\* The tickets an attempt holds while it is live.
TicketsOf(o) == {o} \X ViewersOf[o]

\* The tickets of one attempt are as many as its ticket count.
LEMMA TicketsOfCount ==
    ASSUME NEW o \in Orders
    PROVE  /\ IsFiniteSet(TicketsOf(o))
           /\ Cardinality(TicketsOf(o)) = TicketCount(o)
  <1>1. IsFiniteSet(ViewersOf[o])
    BY StoreAssumption, FS_Subset
  <1>2. IsFiniteSet({o}) /\ Cardinality({o}) = 1
    BY FS_Singleton
  <1>3. TicketCount(o) \in Nat
    BY TicketCountType
  <1> QED
    BY <1>1, <1>2, <1>3, FS_Product DEF TicketsOf, TicketCount

\* The live tickets are finitely many.
LEMMA LiveTicketsFinite == IsFiniteSet(LiveTickets) /\ Cardinality(LiveTickets) \in Nat
  <1>1. IsFiniteSet(Orders \X Viewers)
    BY StoreAssumption, FS_Product
  <1>2. LiveTickets \in SUBSET (Orders \X Viewers)
    BY DEF LiveTickets
  <1> QED
    BY <1>1, <1>2, FS_Subset, FS_CardinalityType

\* A set that loses a subset T changes its size by that of T.
LEMMA Loss ==
    ASSUME NEW S, NEW T, IsFiniteSet(S), T \subseteq S
    PROVE  Cardinality(S \ T) = Cardinality(S) - Cardinality(T)
  <1>1. S \cap T = T
    OBVIOUS
  <1> QED
    BY <1>1, FS_Difference

\* So does one that gains a set T disjoint from it.
LEMMA Gain ==
    ASSUME NEW S, NEW T, IsFiniteSet(S), IsFiniteSet(T), S \cap T = {}
    PROVE  Cardinality(S \cup T) = Cardinality(S) + Cardinality(T)
  <1>1. Cardinality(S \cap T) = 0
    BY FS_EmptySet
  <1>2. Cardinality(S) \in Nat /\ Cardinality(T) \in Nat
    BY FS_CardinalityType
  <1>3. Cardinality(S \cup T) = Cardinality(S) + Cardinality(T) - Cardinality(S \cap T)
    BY FS_Union
  <1> QED
    BY <1>1, <1>2, <1>3

\* An attempt that becomes live takes its tickets, one that ends gives them up.
LEMMA LiveTicketsStep ==
    ASSUME StoreTypeOK, NEW o \in Orders, NEW s,
           attempt' = [attempt EXCEPT ![o] = s]
    PROVE  /\ attempt[o] \notin Live /\ s \in Live
                => Cardinality(LiveTickets') = Cardinality(LiveTickets) + TicketCount(o)
           /\ attempt[o] \in Live /\ s \notin Live
                => Cardinality(LiveTickets') = Cardinality(LiveTickets) - TicketCount(o)
           /\ (attempt[o] \in Live <=> s \in Live) => LiveTickets' = LiveTickets
  <1>1. \A p \in Orders : attempt'[p] = IF p = o THEN s ELSE attempt[p]
    BY DEF StoreTypeOK
  <1>2. ViewersOf[o] \subseteq Viewers
    BY StoreAssumption
  <1>3. ASSUME attempt[o] \notin Live, s \in Live
        PROVE  Cardinality(LiveTickets') = Cardinality(LiveTickets) + TicketCount(o)
    <2>1. LiveTickets' = LiveTickets \cup TicketsOf(o)
      BY <1>1, <1>2, <1>3 DEF LiveTickets, TicketsOf
    <2>2. LiveTickets \cap TicketsOf(o) = {}
      BY <1>3 DEF LiveTickets, TicketsOf
    <2> QED
      BY <2>1, <2>2, LiveTicketsFinite, TicketsOfCount, Gain
  <1>4. ASSUME attempt[o] \in Live, s \notin Live
        PROVE  Cardinality(LiveTickets') = Cardinality(LiveTickets) - TicketCount(o)
    <2>1. LiveTickets' = LiveTickets \ TicketsOf(o)
      BY <1>1, <1>4 DEF LiveTickets, TicketsOf
    <2>2. TicketsOf(o) \subseteq LiveTickets
      BY <1>2, <1>4 DEF LiveTickets, TicketsOf
    <2> QED
      BY <2>1, <2>2, LiveTicketsFinite, TicketsOfCount, Loss
  <1>5. ASSUME attempt[o] \in Live <=> s \in Live PROVE LiveTickets' = LiveTickets
    BY <1>1, <1>5 DEF LiveTickets
  <1> QED
    BY <1>3, <1>4, <1>5

\* Every script keeps the account: a unit is taken with an admission and given
\* back only by a script that moves the attempt out of the live states.
LEMMA QuotaStep == StoreTypeOK /\ QuotaNeverOvercredited /\ StoreStep
                       => QuotaNeverOvercredited'
  <1> SUFFICES ASSUME StoreTypeOK, QuotaNeverOvercredited, StoreStep
               PROVE  QuotaNeverOvercredited'
    OBVIOUS
  <1> USE DEF QuotaNeverOvercredited
  <1>1. /\ quota \in Int /\ InitialQuota \in Nat
        /\ Cardinality(LiveTickets) \in Nat
        /\ \A o \in Orders : TicketCount(o) \in Nat
    BY StoreAssumption, LiveTicketsFinite, TicketCountType DEF StoreTypeOK
  <1>2. ASSUME NEW o \in Orders, Admit(o) PROVE QuotaNeverOvercredited'
    <2>1. Cardinality(LiveTickets') = Cardinality(LiveTickets) + TicketCount(o)
      BY <1>2, LiveTicketsStep DEF Admit, Admissible, Live
    <2> QED
      BY <1>1, <1>2, <2>1 DEF Admit, Admissible
  <1>3. ASSUME NEW o \in Orders, PrepareAttemptForConsume(o) \/ FinalizeSuccess(o)
        PROVE  QuotaNeverOvercredited'
    <2>1. LiveTickets' = LiveTickets
      BY <1>3, LiveTicketsStep
      DEF PrepareAttemptForConsume, ShouldProcess, FinalizeSuccess, Live
    <2> QED
      BY <1>1, <1>3, <2>1 DEF PrepareAttemptForConsume, FinalizeSuccess
  <1>4. ASSUME NEW o \in Orders,
               \/ FailBeforeProcessing(o) \/ FinalizeFailure(o)
               \/ FinalizeClosedOrder(o)
        PROVE  QuotaNeverOvercredited'
    <2>1. /\ attempt[o] \in Live
          /\ attempt' = [attempt EXCEPT ![o] = "FAILED"]
          /\ quota' = quota + TicketCount(o)
      BY <1>4 DEF FailBeforeProcessing, FinalizeFailure, FinalizeClosedOrder,
                  FailAndRelease, Live
    <2>2. "FAILED" \notin Live
      BY DEF Live
    <2>3. Cardinality(LiveTickets') = Cardinality(LiveTickets) - TicketCount(o)
      BY <2>1, <2>2, LiveTicketsStep
    <2> QED
      BY <1>1, <2>1, <2>3
  <1>5. ASSUME NEW o \in Orders, ExpireAttempt(o) PROVE QuotaNeverOvercredited'
    <2>1. "missing" \notin Live
      BY DEF Live
    <2>2. attempt' = [attempt EXCEPT ![o] = "missing"] /\ quota' = quota
      BY <1>5 DEF ExpireAttempt
    <2>3. \/ Cardinality(LiveTickets') = Cardinality(LiveTickets) - TicketCount(o)
          \/ LiveTickets' = LiveTickets
      BY <2>1, <2>2, LiveTicketsStep
    <2> QED
      BY <1>1, <2>2, <2>3
  <1>6. CASE ExpireInflight \/ UNCHANGED storeVars
    BY <1>6 DEF ExpireInflight, storeVars, LiveTickets
  <1> QED
    BY <1>2, <1>3, <1>4, <1>5, <1>6 DEF StoreStep

\* No admission unit is ever given back twice, whatever faults happen.
THEOREM QuotaSafe == Spec => []QuotaNeverOvercredited
<1>1. Init => QuotaNeverOvercredited
  <2> SUFFICES ASSUME Init PROVE QuotaNeverOvercredited
    OBVIOUS
  <2>1. LiveTickets = {}
    BY DEF Init, StoreInit, LiveTickets, Live
  <2> QED
    BY <2>1, FS_EmptySet, StoreAssumption DEF Init, StoreInit, QuotaNeverOvercredited
<1>2. TypeOK /\ QuotaNeverOvercredited /\ [Next]_vars => QuotaNeverOvercredited'
  BY StoreView, QuotaStep DEF TypeOK
<1> QED
  BY <1>1, <1>2, TypeCorrect, PTL DEF Spec

-----------------------------------------------------------------------------
(***************************************************************************)
(* Guards                                                                   *)
(***************************************************************************)
\* Both transactions keep the guard rows in line with the active orders.
LEMMA GuardsStep == TypeOK /\ GuardsMatchOrders /\ DbStep => GuardsMatchOrders'
  <1> SUFFICES ASSUME TypeOK, GuardsMatchOrders, DbStep PROVE GuardsMatchOrders'
    OBVIOUS
  <1> USE StoreAssumption DEF GuardsMatchOrders, Active
  <1>1. ASSUME NEW w \in Workers, work[w] \in Orders, InsertOrder(work[w], got[w])
        PROVE  GuardsMatchOrders'
    <2> DEFINE o == work[w]
               S == got[w]
    <2>1. o \in Orders /\ S \subseteq Seats
      BY <1>1 DEF TypeOK, WorkerTypeOK
    <2> HIDE DEF o, S
    <2>2. InsertOrder(o, S)
      BY <1>1 DEF o, S
    <2>3. \A p \in Orders : order'[p] = IF p = o THEN "unpaid" ELSE order[p]
      BY <2>1, <2>2 DEF InsertOrder, TypeOK, DbTypeOK
    <2>4. \A p \in Orders : seatsOf'[p] = IF p = o THEN S ELSE seatsOf[p]
      BY <2>1, <2>2 DEF InsertOrder, TypeOK, DbTypeOK
    <2>5. /\ order[o] = "none"
          /\ userGuard[UserOf[o]] = None
          /\ \A v \in ViewersOf[o] : viewerGuard[v] = None
          /\ \A s \in S : seatGuard[s] = None
      BY <2>2 DEF InsertOrder, GuardConflict
    <2>6. ASSUME NEW p \in Orders, NEW u \in Users
          PROVE  userGuard'[u] = p <=> order'[p] = "unpaid" /\ UserOf[p] = u
      <3>1. userGuard'[u] = IF u = UserOf[o] THEN o ELSE userGuard[u]
        BY <2>2 DEF InsertOrder, SetFields, TypeOK, DbTypeOK
      <3> QED
        BY <2>1, <2>3, <2>5, <3>1
    <2>7. ASSUME NEW p \in Orders, NEW v \in Viewers
          PROVE  viewerGuard'[v] = p <=> order'[p] = "unpaid" /\ v \in ViewersOf[p]
      <3>1. viewerGuard'[v] = IF v \in ViewersOf[o] THEN o ELSE viewerGuard[v]
        BY <2>2 DEF InsertOrder, SetFields, TypeOK, DbTypeOK
      <3> QED
        BY <2>1, <2>3, <2>5, <3>1
    <2>8. ASSUME NEW p \in Orders, NEW s \in Seats
          PROVE  seatGuard'[s] = p <=> order'[p] = "unpaid" /\ s \in seatsOf'[p]
      <3>1. seatGuard'[s] = IF s \in S THEN o ELSE seatGuard[s]
        BY <2>2 DEF InsertOrder, SetFields, TypeOK, DbTypeOK
      <3> QED
        BY <2>1, <2>3, <2>4, <2>5, <3>1
    <2> QED
      BY <2>6, <2>7, <2>8
  <1>2. ASSUME NEW o \in Orders, CancelRows(o) PROVE GuardsMatchOrders'
    BY <1>2 DEF CancelRows, TypeOK, DbTypeOK
  <1>3. CASE UNCHANGED dbVars
    BY <1>3 DEF dbVars
  <1> QED
    BY <1>1, <1>2, <1>3 DEF DbStep

\* The guard rows are always exactly those of the active orders.
THEOREM GuardsExact == Spec => []GuardsMatchOrders
<1>1. Init => GuardsMatchOrders
  BY StoreAssumption DEF Init, GuardsMatchOrders, Active
<1>2. TypeOK /\ GuardsMatchOrders /\ [Next]_vars => GuardsMatchOrders'
  BY DbView, GuardsStep
<1> QED
  BY <1>1, <1>2, TypeCorrect, PTL DEF Spec

\* Exact guards exclude conflicting orders.
LEMMA GuardsExclude == TypeOK /\ GuardsMatchOrders => NoConflictingOrders
  BY StoreAssumption
  DEF TypeOK, DbTypeOK, GuardsMatchOrders, NoConflictingOrders, Active

\* Two active orders never share their user, a viewer or a seat.
THEOREM NoConflict == Spec => []NoConflictingOrders
  BY GuardsExclude, GuardsExact, TypeCorrect, PTL

-----------------------------------------------------------------------------
(***************************************************************************)
(* The sale                                                                 *)
(***************************************************************************)
\* A worker that is about to persist holds as many seats as tickets.
SeatsForTickets ==
    \A w \in Workers : pc[w] = "persist" => Cardinality(got[w]) = TicketCount(work[w])

\* Only FreezeSeats leads to the transaction, with the seats it was given.
LEMMA SeatsForTicketsStep ==
    TypeOK /\ SeatsForTickets /\ [Next]_vars => SeatsForTickets'
  <1> SUFFICES ASSUME TypeOK, SeatsForTickets, [Next]_vars PROVE SeatsForTickets'
    OBVIOUS
  <1> USE DEF SeatsForTickets
  <1>0. /\ pc \in [Workers -> Steps] /\ work \in [Workers -> Orders \cup {None}]
        /\ got \in [Workers -> SUBSET Seats]
    BY DEF TypeOK, WorkerTypeOK
  <1>1. CASE UNCHANGED <<pc, work, got>>
    BY <1>1
  <1>2. ASSUME NEW w \in Workers, FreezeSeats(w) PROVE SeatsForTickets'
    BY <1>0, <1>2 DEF FreezeSeats, Frozen, Goto, TicketCount
  <1>3. ASSUME NEW w \in Workers, Leave(w) PROVE SeatsForTickets'
    BY <1>0, <1>3 DEF Leave, Goto, TicketCount
  <1>4. ASSUME NEW w \in Workers, NEW step \in Steps \ {"persist"}, Goto(w, step),
               \A v \in Workers : v # w => work'[v] = work[v], UNCHANGED got
        PROVE  SeatsForTickets'
    BY <1>0, <1>4 DEF Goto, TicketCount
  <1>5. ASSUME NEW w \in Workers, Take(w) PROVE SeatsForTickets'
    BY <1>0, <1>1, <1>4, <1>5 DEF Take, ConsumePrepare, ConsumeSkip, Steps, workerVars
  <1>6. ASSUME NEW w \in Workers, ConsumeStep(w) PROVE SeatsForTickets'
    BY <1>2, <1>3, <1>4, <1>6
    DEF ConsumeStep, ConsumeLookup, FreezeExhausted, FreezeError, PersistLost, Persist,
        PersistGuardConflict, PersistError, Resolve, ConsumeFinalizeSuccess,
        ConsumeFinalizeFailure, ConsumeFinalizeFailureRefused,
        ReleaseOrderCreateFreeze, Ack, ReturnError, Steps
  <1>7. ASSUME NEW w \in Workers, WorkerCrash(w)
        PROVE  SeatsForTickets'
    BY <1>1, <1>3, <1>7 DEF WorkerCrash
  <1>8. ASSUME NEW o \in Orders,
               \/ CreateOrder(o) \/ CreateOrderUnknown(o) \/ CreatePurchaseToken(o) \/ SenderStep(o)
               \/ CloseTx(o) \/ CancelRelease(o) \/ CancelAgain(o)
               \/ CloserStep(o) \/ CloserCrash(o)
               \/ LeaseExpires(o) \/ RecordExpires(o)
        PROVE  UNCHANGED <<pc, work, got>>
    BY <1>8 DEF CreateOrder, CreateOrderUnknown, CreatePurchaseToken, NoteRevived,
       SenderStep, SendOk, SendError,
         FailPendingAttemptAfterAsyncSendError, CloseTx, CancelRelease, CancelAgain,
         CloserStep, CloseSync, CloseRelease, CancelTx, CancelSync, CloserCrash,
         LeaseExpires, RecordExpires, workerVars
  <1>9. CASE InflightExpires \/ UNCHANGED vars
    BY <1>1, <1>9 DEF InflightExpires, vars, workerVars
  <1> QED
    BY <1>1, <1>5, <1>6, <1>7, <1>8, <1>9 DEF Next, PerfCreateOrder

\* A create transaction places an order in TicketSale, a cancel transaction
\* cancels one, every other step leaves it alone.
LEMMA SaleStep ==
    TypeOK /\ GuardsMatchOrders /\ SeatsForTickets /\ DbStep
        => [Sale!SaleNext]_(Sale!saleVars)
  <1> SUFFICES ASSUME TypeOK, GuardsMatchOrders, SeatsForTickets, DbStep
               PROVE  [Sale!SaleNext]_(Sale!saleVars)
    OBVIOUS
  <1>1. ASSUME NEW w \in Workers, pc[w] = "persist", work[w] \in Orders,
               InsertOrder(work[w], got[w])
        PROVE  Sale!SaleNext
    <2> DEFINE o == work[w]
               S == got[w]
    <2>1. /\ o \in Orders /\ S \in SUBSET Seats
          /\ Cardinality(S) = Cardinality(ViewersOf[o])
      BY <1>1 DEF TypeOK, WorkerTypeOK, SeatsForTickets, TicketCount
    <2>2. InsertOrder(o, S)
      BY <1>1
    <2> HIDE DEF o, S
    <2>3. ASSUME NEW p \in Orders, order[p] = "unpaid" PROVE Sale!Compatible(o, S, p)
      <3>1. /\ userGuard[UserOf[p]] = p
            /\ \A v \in ViewersOf[p] : viewerGuard[v] = p
            /\ \A s \in seatsOf[p] : seatGuard[s] = p
        BY <2>3, StoreAssumption DEF GuardsMatchOrders, Active, TypeOK, DbTypeOK
      <3>2. p # None
        BY StoreAssumption
      <3> QED
        BY <2>2, <3>1, <3>2 DEF InsertOrder, GuardConflict, Sale!Compatible
    <2>4. Sale!Place(o, S)
      <3>1. \A p \in Orders : order[p] = "unpaid" => Sale!Compatible(o, S, p)
        BY <2>3
      <3>2. /\ order[o] = "none"
            /\ order' = [order EXCEPT ![o] = "unpaid"]
            /\ seatsOf' = [seatsOf EXCEPT ![o] = S]
        BY <2>2 DEF InsertOrder
      <3> QED
        BY <2>1, <3>1, <3>2 DEF Sale!Place, Cardinality, Sale!Cardinality
    <2> QED
      BY <2>1, <2>4 DEF Sale!SaleNext
  <1>2. ASSUME NEW o \in Orders, CancelRows(o) PROVE Sale!SaleNext
    BY <1>2 DEF CancelRows, Sale!SaleNext, Sale!Cancel
  <1>3. CASE UNCHANGED dbVars
    BY <1>3 DEF dbVars, Sale!saleVars
  <1> QED
    BY <1>1, <1>2, <1>3 DEF DbStep

\* Rush ordering with all its faults implements the one-step sale.
THEOREM SaleRefinement == Spec => ImplementsSale
<1>1. Init => Sale!SaleInit /\ SeatsForTickets
  BY DEF Init, Sale!SaleInit, SeatsForTickets
<1>2. Spec => []SeatsForTickets
  BY <1>1, SeatsForTicketsStep, TypeCorrect, PTL DEF Spec
<1>3. TypeOK /\ GuardsMatchOrders /\ SeatsForTickets /\ [Next]_vars
          => [Sale!SaleNext]_(Sale!saleVars)
  BY DbView, SaleStep
<1> QED
  BY <1>1, <1>2, <1>3, GuardsExact, TypeCorrect, PTL
  DEF Spec, ImplementsSale, Sale!SaleSpec

-----------------------------------------------------------------------------
(***************************************************************************)
(* Success                                                                  *)
(***************************************************************************)
\* A worker about to finalize a success has seen the order in the database.
SuccessInv ==
    /\ \A o \in Orders : attempt[o] = "SUCCESS" => order[o] # "none"
    /\ \A w \in Workers : pc[w] = "succeed" => order[work[w]] # "none"

\* An order row is never taken back.
LEMMA OrderStays ==
    ASSUME TypeOK, DbStep, NEW o \in Orders, order[o] # "none"
    PROVE  order'[o] # "none"
  BY DEF TypeOK, DbTypeOK, DbStep, InsertOrder, CancelRows, dbVars

\* Every step keeps SuccessInv: "succeed" is entered with a row at hand and the
\* record becomes SUCCESS only there.
LEMMA SuccessStep == TypeOK /\ SuccessInv /\ [Next]_vars => SuccessInv'
  <1> SUFFICES ASSUME TypeOK, SuccessInv, [Next]_vars PROVE SuccessInv'
    OBVIOUS
  <1>0. /\ \A o \in Orders : order[o] # "none" => order'[o] # "none"
        /\ pc \in [Workers -> Steps] /\ work \in [Workers -> Orders \cup {None}]
        /\ \A w \in Workers : pc[w] # "idle" => work[w] \in Orders
        /\ attempt \in [Orders -> AttemptStates]
        /\ order \in [Orders -> {"none", "unpaid", "cancelled"}]
    BY DbView, OrderStays DEF TypeOK, WorkerTypeOK, StoreTypeOK, DbTypeOK
  <1> USE DEF SuccessInv
  <1>1. ASSUME \A o \in Orders : attempt'[o] = "SUCCESS" => attempt[o] = "SUCCESS",
               \A w \in Workers : pc'[w] = "succeed"
                    => pc[w] = "succeed" /\ work'[w] = work[w]
        PROVE  SuccessInv'
    BY <1>0, <1>1
  <1>2. ASSUME \A o \in Orders : attempt'[o] = "SUCCESS" => attempt[o] = "SUCCESS",
               NEW w \in Workers, Goto(w, "succeed"), work' = work,
               pc[w] # "idle", order'[work[w]] # "none"
        PROVE  SuccessInv'
    BY <1>0, <1>2 DEF Goto
  <1>3. ASSUME NEW w \in Workers, ConsumeLookup(w) PROVE SuccessInv'
    <2>1. CASE order[work[w]] = "none" \/ ~Goto(w, "succeed")
      BY <1>0, <1>1, <1>3, <2>1 DEF ConsumeLookup, ReturnError, Leave, Goto, storeVars
    <2>2. CASE order[work[w]] # "none" /\ Goto(w, "succeed")
      BY <1>0, <1>2, <1>3, <2>2 DEF ConsumeLookup, ReturnError, Leave, Goto, storeVars
    <2> QED
      BY <2>1, <2>2
  <1>4. ASSUME NEW w \in Workers, Persist(w) PROVE SuccessInv'
    <2>1. order'[work[w]] # "none"
      BY <1>0, <1>4 DEF Persist, InsertOrder, dbVars
    <2> QED
      BY <1>0, <1>2, <1>4, <2>1 DEF Persist, storeVars
  <1>5. ASSUME NEW w \in Workers, Resolve(w) PROVE SuccessInv'
    <2>1. CASE order[work[w]] = "none" \/ ~Goto(w, "succeed")
      BY <1>0, <1>1, <1>5, <2>1 DEF Resolve, Ack, ReturnError, Leave, Goto, storeVars
    <2>2. CASE order[work[w]] # "none" /\ Goto(w, "succeed")
      BY <1>0, <1>2, <1>5, <2>2 DEF Resolve, Ack, ReturnError, Leave, Goto, storeVars
    <2> QED
      BY <2>1, <2>2
  <1>6. ASSUME NEW w \in Workers, ConsumeFinalizeSuccess(w) PROVE SuccessInv'
    BY <1>0, <1>6 DEF ConsumeFinalizeSuccess, FinalizeSuccess, Ack, Leave, Goto,
       storeVars
  <1>7. ASSUME NEW w \in Workers, ConsumeFinalizeFailure(w) PROVE SuccessInv'
    BY <1>0, <1>1, <1>7 DEF ConsumeFinalizeFailure, FinalizeFailure, FailAndRelease,
       Ack, Leave, Goto
  <1>8. ASSUME NEW w \in Workers,
               \/ FreezeSeats(w) \/ FreezeExhausted(w) \/ FreezeError(w)
               \/ PersistLost(w) \/ PersistGuardConflict(w) \/ PersistError(w)
               \/ ConsumeFinalizeFailureRefused(w) \/ ReleaseOrderCreateFreeze(w)
               \/ WorkerCrash(w)
        PROVE  SuccessInv'
    BY <1>0, <1>1, <1>8 DEF FreezeSeats, FreezeExhausted, FreezeError, PersistLost,
       PersistGuardConflict, PersistError, ConsumeFinalizeFailureRefused,
       ReleaseOrderCreateFreeze, WorkerCrash, ReturnError, Ack, Leave,
       Goto, storeVars
  <1>9. ASSUME NEW w \in Workers, Take(w) PROVE SuccessInv'
    BY <1>0, <1>1, <1>9 DEF Take, ConsumePrepare, ConsumeSkip,
       PrepareAttemptForConsume, Goto, storeVars, workerVars
  <1>10. ASSUME NEW o \in Orders,
               CreateOrder(o) \/ CreateOrderUnknown(o) \/ CreatePurchaseToken(o) \/ SenderStep(o)
         PROVE SuccessInv'
    BY <1>0, <1>1, <1>10 DEF CreateOrder, CreateOrderUnknown, CreatePurchaseToken,
       NoteRevived, SenderStep, SendOk,
       SendError, FailPendingAttemptAfterAsyncSendError, Admit, FailBeforeProcessing,
       storeVars, workerVars
  <1>11. ASSUME NEW o \in Orders,
               \/ CloseTx(o) \/ CancelRelease(o) \/ CancelAgain(o)
               \/ CloserStep(o) \/ CloserCrash(o)
         PROVE SuccessInv'
    BY <1>0, <1>1, <1>11 DEF CloseTx, CancelRelease, CancelAgain, CloserStep,
       CloseSync, CloseRelease, CancelTx, CancelSync, CloserCrash,
       SyncClosedRushAttempt, FinalizeClosedOrder, FailAndRelease, storeVars,
       workerVars
  <1>12. ASSUME NEW o \in Orders, LeaseExpires(o) \/ RecordExpires(o)
         PROVE SuccessInv'
    BY <1>0, <1>1, <1>12 DEF LeaseExpires, RecordExpires, ExpireAttempt, workerVars
  <1>13. CASE InflightExpires \/ UNCHANGED vars
    BY <1>0, <1>1, <1>13 DEF InflightExpires, ExpireInflight, vars, storeVars, workerVars
  <1> QED
    BY <1>3, <1>4, <1>5, <1>6, <1>7, <1>8, <1>9, <1>10, <1>11, <1>12, <1>13
    DEF Next, PerfCreateOrder, ConsumeStep

\* A poll answers "success" only when the order is in the database.
THEOREM SuccessBacked == Spec => []SuccessHasOrder
<1>1. Init => SuccessInv
  BY DEF Init, StoreInit, SuccessInv
<1>2. TypeOK /\ SuccessInv => SuccessHasOrder
  BY DEF TypeOK, StoreTypeOK, AttemptStates, SuccessInv, SuccessHasOrder,
         PollOrderProgress, ProjectOrderProgress,
         MapAttemptRecordToPoll
<1> QED
  BY <1>1, <1>2, SuccessStep, TypeCorrect, PTL DEF Spec

-----------------------------------------------------------------------------
(***************************************************************************)
(* One consumer per order number, unless it was revived                     *)
(***************************************************************************)
\* An attempt that waits for a consumer is untouched; a record in the hands of a
\* worker stays PROCESSING until this worker decides it or it expires; no other
\* worker ever inserts the order.  Revived numbers are excepted throughout: an
\* admission that finds the number touched makes it one of them.
ConsumerInv ==
    /\ \A o \in Orders \ revived : attempt[o] = "PENDING" => Untouched(o)
    /\ \A w \in Workers : pc[w] \notin {"idle", "release"} /\ work[w] \notin revived
                            => attempt[work[w]] \in {"PROCESSING", "missing"}
    /\ \A w \in Workers : pc[w] = "release" /\ work[w] \notin revived
                            => attempt[work[w]] \in {"FAILED", "missing"}
    /\ \A w \in Workers : /\ pc[w] \in {"lookup", "freeze", "persist", "fail", "failRelease"}
                           /\ work[w] \notin revived
                            => order[work[w]] = "none"
    /\ \A o \in Orders : closer[o] \in {"closeSync", "closeRelease", "cancelSync"}
                            => order[o] = "cancelled"
    /\ SingleConsumer
    /\ \A o \in Orders \ revived : attempt[o] = "FAILED" => ~Active(o)

\* Every step keeps it.
LEMMA ConsumerStep == TypeOK /\ ConsumerInv /\ [Next]_vars => ConsumerInv'
  <1> SUFFICES ASSUME TypeOK, ConsumerInv, [Next]_vars PROVE ConsumerInv'
    OBVIOUS
  <1>0. /\ pc \in [Workers -> Steps] /\ work \in [Workers -> Orders \cup {None}]
        /\ \A w \in Workers : pc[w] # "idle" => work[w] \in Orders
        /\ attempt \in [Orders -> AttemptStates]
        /\ order \in [Orders -> {"none", "unpaid", "cancelled"}]
        /\ closer \in [Orders -> {"idle", "closeSync", "closeRelease",
                                  "cancelTx", "cancelSync"}]
    BY DEF TypeOK, WorkerTypeOK, StoreTypeOK, DbTypeOK
  <1> USE <1>0 DEF ConsumerInv, Untouched, SingleConsumer, Active,
          AttemptStates, Steps
  <1>1. ASSUME NEW o \in Orders,
               CreateOrder(o) \/ CreateOrderUnknown(o) \/ CreatePurchaseToken(o)
        PROVE  ConsumerInv'
    <2>1. CASE CreatePurchaseToken(o)
      BY <2>1 DEF CreatePurchaseToken, storeVars, workerVars, dbVars
    <2>2. CASE CreateOrder(o) \/ CreateOrderUnknown(o)
      <3>1. /\ attempt[o] = "missing" /\ attempt' = [attempt EXCEPT ![o] = "PENDING"]
            /\ UNCHANGED <<pc, work, order, closer>>
            /\ revived' = IF Untouched(o) THEN revived ELSE revived \cup {o}
        BY <2>2 DEF CreateOrder, CreateOrderUnknown, NoteRevived, Admit, Admissible,
                    workerVars, dbVars
      <3>2. CASE Untouched(o)
        BY <3>1, <3>2
      <3>3. CASE ~Untouched(o)
        <4>1. revived' = revived \cup {o}
          BY <3>1, <3>3
        <4> QED
          BY <3>1, <4>1
      <3> QED
        BY <3>2, <3>3
    <2> QED
      BY <1>1, <2>1, <2>2
  <1>2. ASSUME NEW o \in Orders, SenderStep(o) PROVE ConsumerInv'
    BY <1>2 DEF SenderStep, SendOk, SendError, FailPendingAttemptAfterAsyncSendError,
       FailBeforeProcessing, storeVars, workerVars, dbVars
  <1>3. ASSUME NEW o \in Orders, CloseTx(o) \/ CancelTx(o) PROVE ConsumerInv'
    BY <1>3 DEF CloseTx, CancelTx, CancelRows, CloserAt, storeVars, workerVars
  <1>4. ASSUME NEW o \in Orders, CloseSync(o) \/ CancelSync(o) PROVE ConsumerInv'
    BY <1>4 DEF CloseSync, CancelSync, SyncClosedRushAttempt, FinalizeClosedOrder,
       FailAndRelease, CloserAt, storeVars, workerVars, dbVars
  <1>5. ASSUME NEW o \in Orders,
               CloseRelease(o) \/ CancelRelease(o) \/ CancelAgain(o) \/ CloserCrash(o)
        PROVE  ConsumerInv'
    BY <1>5 DEF CloseRelease, CancelRelease, CancelAgain, CloserCrash, CloserAt,
       storeVars, workerVars, dbVars
  <1>6. ASSUME NEW o \in Orders, LeaseExpires(o) \/ RecordExpires(o)
        PROVE  ConsumerInv'
    BY <1>6 DEF LeaseExpires, RecordExpires, ExpireAttempt, workerVars, dbVars
  <1>7. ASSUME NEW w \in Workers, Take(w) PROVE ConsumerInv'
    <2>1. ASSUME NEW o \in Orders, ConsumePrepare(w, o) PROVE ConsumerInv'
      BY <2>1 DEF ConsumePrepare, Fetched, PrepareAttemptForConsume, ShouldProcess, Goto,
         dbVars
    <2>2. ASSUME NEW o \in Orders, ConsumeSkip(w, o) PROVE ConsumerInv'
      BY <2>2 DEF ConsumeSkip, storeVars, workerVars, dbVars
    <2> QED
      BY <1>7, <2>1, <2>2 DEF Take
  <1>8. ASSUME NEW w \in Workers, Leave(w), UNCHANGED <<attempt, closer, dbVars, revived>>
        PROVE  ConsumerInv'
    BY <1>8 DEF Leave, Goto, dbVars
  <1>9. ASSUME NEW w \in Workers, ConsumeLookup(w) PROVE ConsumerInv'
    BY <1>8, <1>9 DEF ConsumeLookup, ReturnError, Goto, storeVars, dbVars
  <1>10. ASSUME NEW w \in Workers,
               FreezeSeats(w) \/ FreezeExhausted(w) \/ PersistGuardConflict(w)
         PROVE ConsumerInv'
    BY <1>10 DEF FreezeSeats, FreezeExhausted, PersistGuardConflict, Goto, storeVars, dbVars
  <1>11. ASSUME NEW w \in Workers, Persist(w) PROVE ConsumerInv'
    BY <1>11 DEF Persist, InsertOrder, Goto, storeVars, dbVars
  <1>12. ASSUME NEW w \in Workers, PersistError(w) PROVE ConsumerInv'
    BY <1>12 DEF PersistError, InsertOrder, ReturnError, Leave, Goto, storeVars, dbVars
  <1>13. ASSUME NEW w \in Workers, Resolve(w) PROVE ConsumerInv'
    BY <1>8, <1>13 DEF Resolve, Ack, ReturnError, Goto, storeVars, dbVars
  <1>14. ASSUME NEW w \in Workers, ConsumeFinalizeSuccess(w) PROVE ConsumerInv'
    <2>1. CASE FinalizeSuccess(work[w])
      BY <1>14, <2>1 DEF ConsumeFinalizeSuccess, FinalizeSuccess, Ack, Leave, Goto, dbVars
    <2>2. CASE UNCHANGED storeVars
      BY <1>8, <1>14, <2>2 DEF ConsumeFinalizeSuccess, Ack, storeVars
    <2> QED
      BY <1>14, <2>1, <2>2 DEF ConsumeFinalizeSuccess
  <1>15. ASSUME NEW w \in Workers, ConsumeFinalizeFailure(w) PROVE ConsumerInv'
    <2>1. /\ attempt' = [attempt EXCEPT ![work[w]] = "FAILED"]
          /\ work[w] \notin revived => order[work[w]] = "none"
          /\ UNCHANGED <<closer, order, revived>>
      BY <1>15 DEF ConsumeFinalizeFailure, FinalizeFailure, FailAndRelease, dbVars
    <2>2. CASE pc[w] = "fail" /\ Ack(w)
      BY <2>1, <2>2 DEF Ack, Leave, Goto
    <2>3. CASE pc[w] = "failRelease" /\ Goto(w, "release") /\ UNCHANGED work
      BY <2>1, <2>3 DEF Goto
    <2> QED
      BY <1>15, <2>2, <2>3 DEF ConsumeFinalizeFailure
  <1>16. ASSUME NEW w \in Workers,
               \/ FreezeError(w) \/ PersistLost(w) \/ ConsumeFinalizeFailureRefused(w)
               \/ ReleaseOrderCreateFreeze(w) \/ WorkerCrash(w)
         PROVE ConsumerInv'
    BY <1>8, <1>16 DEF FreezeError, PersistLost, ConsumeFinalizeFailureRefused,
       ReleaseOrderCreateFreeze, WorkerCrash, ReturnError, Ack, storeVars
  <1>17. CASE InflightExpires \/ UNCHANGED vars
    BY <1>17 DEF InflightExpires, ExpireInflight, vars, storeVars, workerVars, dbVars
  <1> QED
    BY <1>1, <1>2, <1>3, <1>4, <1>5, <1>6, <1>7, <1>9, <1>10, <1>11,
       <1>12, <1>13,
       <1>14, <1>15, <1>16, <1>17
    DEF Next, PerfCreateOrder, CloserStep, ConsumeStep

\* At most one consumer works on an order number, unless the number was admitted
\* again while an order row or a consumer of its earlier admission was there.
THEOREM ConsumerSafe == Spec => []SingleConsumer
<1>1. Init => ConsumerInv
  BY DEF Init, StoreInit, ConsumerInv, Untouched, SingleConsumer, Active
<1> QED
  BY <1>1, ConsumerStep, TypeCorrect, PTL DEF Spec, ConsumerInv

\* With the same exception a poll never answers "failed" for an order that is
\* active, whatever leases expire, replies are lost and processes die.
THEOREM VerdictSafe == Spec => []FailedHasNoActiveOrder
<1>1. Init => ConsumerInv
  BY DEF Init, StoreInit, ConsumerInv, Untouched, SingleConsumer, Active
<1>2. TypeOK /\ ConsumerInv => FailedHasNoActiveOrder
  BY DEF TypeOK, StoreTypeOK, AttemptStates, ConsumerInv, FailedHasNoActiveOrder,
         PollOrderProgress, ProjectOrderProgress,
         MapAttemptRecordToPoll, Active
<1> QED
  BY <1>1, <1>2, ConsumerStep, TypeCorrect, PTL DEF Spec

=============================================================================
