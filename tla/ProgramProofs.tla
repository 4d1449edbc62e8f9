---------------------------- MODULE ProgramProofs ----------------------------
(***************************************************************************)
(* Safety of program-rpc: its seats, for any seats, tokens, handlers and    *)
(* processes, and its catalogue, for any processes, rows, numbers of edits  *)
(* and faults.                                                              *)
(*                                                                         *)
(* The seats.  A step of Next is seen from two sides, the table (TableStep) *)
(* and the ledger (LedgerStep), and the invariants of a side are proved     *)
(* against its view.                                                        *)
(*                                                                         *)
(* The catalogue.  The inductive invariant says, for every copy of a row,   *)
(* what is still under way when the copy is old: a copy in Redis or in a    *)
(* load has a write before its DEL, a view a write or a message of the      *)
(* detail topic, a category snapshot a write or a message of the category   *)
(* topic.                                                                   *)
(***************************************************************************)
EXTENDS SeatLedger, ProgramCatalogue, FiniteSetTheorems, TLAPS

\* A set of seats is finite and has a number of members.
LEMMA SeatCount ==
    ASSUME NEW S \in SUBSET Seats
    PROVE  IsFiniteSet(S) /\ Cardinality(S) \in Nat
  BY LedgerAssumption, FS_Subset, FS_CardinalityType

-----------------------------------------------------------------------------
(***************************************************************************)
(* Views of a step                                                          *)
(***************************************************************************)
PersistStep(c) ==
    /\ pc[c] = "persist"
    /\ AllIn(seen[c], "available")
    /\ SetSeats(seen[c], "frozen", tok[c])

SettleStep(c) ==
    /\ pc[c] = "tx"
    /\ \A s \in seen[c] : status[s] = "frozen" /\ holder[s] = tok[c]
    /\ IF op[c] = "confirm"
       THEN SetSeats(seen[c], "sold", tok[c])
       ELSE SetSeats(seen[c], "available", None)

TableStep ==
    \/ \E c \in Clients : PersistStep(c) \/ SettleStep(c)
    \/ UNCHANGED tableVars

ScriptStep ==
    \E t \in Tokens :
        \/ \E S \in SUBSET Seats : FreezeScript(t, S)
        \/ ReleaseScript(t)
        \/ ConfirmScript(t)

ReloadStep ==
    \/ \E l \in Loaders : LoadWipe(l) \/ LoadStock(l) \/ LoadSeat(l)
    \/ StockExpires
    \/ SeatsExpire

LedgerStep == ScriptStep \/ ReloadStep \/ UNCHANGED ledgerVars

\* Only the transactions of persist, confirm and release write the table.
LEMMA TableView == [Next]_vars => TableStep
  <1> SUFFICES ASSUME [Next]_vars PROVE TableStep
    OBVIOUS
  <1> USE DEF TableStep
  <1>1. ASSUME NEW c \in Clients, HandlerStep(c) PROVE TableStep
    <2>1. CASE FreezePersist(c) \/ FreezePersistError(c)
      BY <2>1 DEF FreezePersist, FreezePersistError, PersistStep
    <2>2. CASE SettleTx(c)
      BY <2>2 DEF SettleTx, SettleStep
    <2> QED
      BY <1>1, <2>1, <2>2
      DEF HandlerStep, FreezeExisting, FreezeLookup, FreezeReserve, FreezeRefused,
          FreezeUndo, SettleLedger, SettleScript, ClientCrash
  <1>2. ASSUME NEW c \in Clients, NEW t \in Tokens, Call(c, t) PROVE TableStep
    BY <1>2 DEF Call, FreezeStart, ReleaseUnheld, SettleStart
  <1>3. ASSUME NEW l \in Loaders, LoadStep(l) \/ PrimeSeatLedger(l) PROVE TableStep
    BY <1>3 DEF LoadStep, LoadAvailable, LoadFrozen, LoadSold, LoadKeys, LoadWipe,
                LoadStock, LoadSeat, LoadDone, LoadError, LoadReset, PrimeSeatLedger
  <1>4. CASE StockExpires \/ LoadingExpires \/ SeatsExpire \/ UNCHANGED vars
    BY <1>4 DEF StockExpires, LoadingExpires, SeatsExpire, vars
  <1> QED
    BY <1>1, <1>2, <1>3, <1>4 DEF Next

\* Only scripts, loads and expiry write the ledger.
LEMMA LedgerView == ClientTypeOK /\ [Next]_vars => LedgerStep
  <1> SUFFICES ASSUME ClientTypeOK, [Next]_vars PROVE LedgerStep
    OBVIOUS
  <1> USE DEF LedgerStep, ReloadStep
  <1>1. ASSUME NEW c \in Clients, HandlerStep(c) PROVE LedgerStep
    <2>1. CASE FreezeReserve(c)
      BY <2>1 DEF FreezeReserve, ScriptStep, ClientTypeOK
    <2>2. CASE FreezeUndo(c)
      BY <2>2 DEF FreezeUndo, ScriptStep, ClientTypeOK
    <2>3. CASE SettleScript(c)
      BY <2>3 DEF SettleScript, ScriptStep, ClientTypeOK
    <2> QED
      BY <1>1, <2>1, <2>2, <2>3
      DEF HandlerStep, FreezeExisting, FreezeLookup, FreezeRefused, FreezePersist,
          FreezePersistError, SettleLedger, SettleTx, ClientCrash
  <1>2. ASSUME NEW c \in Clients, NEW t \in Tokens, Call(c, t) PROVE LedgerStep
    BY <1>2 DEF Call, FreezeStart, ReleaseUnheld, SettleStart
  <1>3. ASSUME NEW l \in Loaders, LoadStep(l) \/ PrimeSeatLedger(l) PROVE LedgerStep
    BY <1>3 DEF LoadStep, LoadAvailable, LoadFrozen, LoadSold, LoadKeys, LoadDone,
                LoadError, LoadReset, PrimeSeatLedger
  <1>4. CASE StockExpires \/ LoadingExpires \/ SeatsExpire \/ UNCHANGED vars
    BY <1>4 DEF LoadingExpires, vars
  <1> QED
    BY <1>1, <1>2, <1>3, <1>4 DEF Next

-----------------------------------------------------------------------------
(***************************************************************************)
(* Type correctness                                                         *)
(***************************************************************************)
LEMMA TableTypeStep ==
    ASSUME TableTypeOK, ClientTypeOK, TableStep
    PROVE  TableTypeOK'
  BY DEF TableTypeOK, ClientTypeOK, TableStep, PersistStep, SettleStep, SetSeats, tableVars

LEMMA LedgerTypeStep ==
    ASSUME LedgerTypeOK, LoaderTypeOK, LedgerStep
    PROVE  LedgerTypeOK'
  <1> USE DEF LedgerTypeOK
  <1>1. ASSUME NEW t \in Tokens, NEW S \in SUBSET Seats, FreezeScript(t, S)
        PROVE  LedgerTypeOK'
    BY <1>1, LedgerAssumption DEF FreezeScript, ledgerVars
  <1>2. ASSUME NEW t \in Tokens, ReleaseScript(t) PROVE LedgerTypeOK'
    <2>1. Cardinality(frozen[t]) \in Nat
      BY SeatCount
    <2> QED
      BY <1>2, <2>1 DEF ReleaseScript
  <1>3. ASSUME NEW t \in Tokens, ConfirmScript(t) PROVE LedgerTypeOK'
    BY <1>3 DEF ConfirmScript
  <1>4. ASSUME NEW l \in Loaders, LoadWipe(l) \/ LoadStock(l) PROVE LedgerTypeOK'
    <2>1. rows[l].available \in SUBSET Seats
      BY DEF LoaderTypeOK
    <2>2. Cardinality(rows[l].available) \in Nat
      BY <2>1, SeatCount
    <2>3. CASE LoadWipe(l)
      BY <2>3 DEF LoadWipe
    <2>4. CASE LoadStock(l)
      BY <2>2, <2>4 DEF LoadStock
    <2> QED
      BY <1>4, <2>3, <2>4
  <1>5. ASSUME NEW l \in Loaders, LoadSeat(l) PROVE LedgerTypeOK'
    <2>1. rows[l].available \subseteq Seats /\ rows[l].sold \subseteq Seats
      BY DEF LoaderTypeOK
    <2>2. \A t \in Tokens : rows[l].frozen[t] \subseteq Seats
      BY DEF LoaderTypeOK
    <2> QED
      BY <1>5, <2>1, <2>2 DEF LoadSeat
  <1>6. CASE StockExpires
    BY <1>6 DEF StockExpires
  <1>7. CASE SeatsExpire
    BY <1>7 DEF SeatsExpire
  <1>8. CASE UNCHANGED ledgerVars
    BY <1>8 DEF ledgerVars
  <1> QED
    BY <1>1, <1>2, <1>3, <1>4, <1>5, <1>6, <1>7, <1>8
    DEF LedgerStep, ScriptStep, ReloadStep

\* Every step of a handler is a start, a move to another step or the end.
LEMMA ClientTypeStep ==
    ASSUME TypeOK, [Next]_vars
    PROVE  ClientTypeOK'
  <1> USE LedgerAssumption DEF ClientTypeOK, Steps
  <1>0. TableTypeOK /\ LedgerTypeOK /\ ClientTypeOK /\ LoaderTypeOK
    BY DEF TypeOK
  <1>1. ASSUME NEW c \in Clients, HandlerStep(c) PROVE ClientTypeOK'
    <2>1. CASE Leave(c)
      BY <1>0, <2>1 DEF Leave
    <2>2. CASE FreezeLookup(c)
      BY <1>0, <2>1, <2>2 DEF FreezeLookup, Goto
    <2>3. CASE FreezeReserve(c)
      BY <1>0, <2>1, <2>3 DEF FreezeReserve, Goto
    <2>4. CASE FreezePersist(c) \/ FreezePersistError(c)
      BY <1>0, <2>1, <2>4 DEF FreezePersist, FreezePersistError, Goto
    <2>5. CASE SettleLedger(c)
      <3>1. tok[c] \in Tokens
        BY <1>0, <2>5 DEF SettleLedger
      <3>2. frozen[tok[c]] \subseteq Seats
        BY <1>0, <3>1 DEF LedgerTypeOK
      <3> QED
        BY <1>0, <2>1, <2>5, <3>2 DEF SettleLedger, Goto
    <2>6. CASE SettleTx(c)
      BY <1>0, <2>1, <2>6 DEF SettleTx, Goto
    <2> QED
      BY <1>1, <2>1, <2>2, <2>3, <2>4, <2>5, <2>6
      DEF HandlerStep, FreezeExisting, FreezeRefused, FreezeUndo, SettleScript, ClientCrash
  <1>2. ASSUME NEW c \in Clients, NEW t \in Tokens, Call(c, t) PROVE ClientTypeOK'
    <2>1. CASE FreezeStart(c, t)
      <3>1. frozen[t] \subseteq Seats
        BY <1>0 DEF LedgerTypeOK
      <3> QED
        BY <1>0, <2>1, <3>1 DEF FreezeStart, Begin
    <2>2. CASE ReleaseUnheld(c, t)
      BY <1>0, <2>2 DEF ReleaseUnheld, Begin
    <2>3. ASSUME NEW kind \in {"confirm", "release"}, SettleStart(c, t, kind)
          PROVE  ClientTypeOK'
      <3>1. HeldBy(t) \subseteq Seats
        BY DEF HeldBy
      <3> QED
        BY <1>0, <2>3, <3>1 DEF SettleStart, Begin
    <2> QED
      BY <1>2, <2>1, <2>2, <2>3 DEF Call
  <1>3. ASSUME NEW l \in Loaders, LoadStep(l) \/ PrimeSeatLedger(l) PROVE ClientTypeOK'
    <2>1. UNCHANGED clientVars
      BY <1>3 DEF LoadStep, LoadAvailable, LoadFrozen, LoadSold, LoadKeys, LoadWipe,
                  LoadStock, LoadSeat, LoadDone, LoadError, LoadReset, PrimeSeatLedger
    <2> QED
      BY <1>0, <2>1 DEF clientVars
  <1>4. CASE StockExpires \/ LoadingExpires \/ SeatsExpire \/ UNCHANGED vars
    <2>1. UNCHANGED clientVars
      BY <1>4 DEF StockExpires, LoadingExpires, SeatsExpire, vars
    <2> QED
      BY <1>0, <2>1 DEF clientVars
  <1> QED
    BY <1>1, <1>2, <1>3, <1>4 DEF Next

\* The loader's rows are sets of seats, and losses stays within its bound.
LEMMA LoaderTypeStep ==
    ASSUME TypeOK, [Next]_vars
    PROVE  LoaderTypeOK'
  <1> USE LedgerAssumption DEF LoaderTypeOK, LoadSteps
  <1>0. TableTypeOK /\ LedgerTypeOK /\ ClientTypeOK /\ LoaderTypeOK
    BY DEF TypeOK
  <1>1. CASE UNCHANGED loaderVars
    BY <1>0, <1>1 DEF loaderVars
  <1>2. CASE Schedule
    BY <1>0, <1>1, <1>2 DEF Schedule
  <1>3. ASSUME NEW c \in Clients, HandlerStep(c) PROVE LoaderTypeOK'
    <2>1. UNCHANGED loaderVars \/ Schedule
      BY <1>3 DEF HandlerStep, FreezeExisting, FreezeLookup, FreezeReserve, FreezeRefused,
                  FreezePersist, FreezePersistError, FreezeUndo, SettleLedger, SettleTx,
                  SettleScript, ClientCrash
    <2> QED
      BY <1>1, <1>2, <2>1
  <1>4. ASSUME NEW c \in Clients, NEW t \in Tokens, Call(c, t) PROVE LoaderTypeOK'
    BY <1>1, <1>4 DEF Call, FreezeStart, ReleaseUnheld, SettleStart
  <1>5. ASSUME NEW l \in Loaders, LoadStep(l) \/ PrimeSeatLedger(l) PROVE LoaderTypeOK'
    <2> DEFINE R == [available : SUBSET Seats, sold : SUBSET Seats,
                     frozen : [Tokens -> SUBSET Seats]]
    <2>0. rows[l] \in R /\ rows \in [Loaders -> R]
      BY <1>0
    <2>1. CASE LoadAvailable(l)
      BY <1>0, <2>0, <2>1 DEF LoadAvailable, LoadGoto, SeatRows
    <2>2. CASE LoadFrozen(l)
      BY <1>0, <2>0, <2>2 DEF LoadFrozen, LoadGoto, SeatRows, HeldBy
    <2>3. CASE LoadSold(l)
      BY <1>0, <2>0, <2>3 DEF LoadSold, LoadGoto, SeatRows
    <2>4. CASE LoadKeys(l) \/ LoadWipe(l) \/ LoadStock(l)
      BY <1>0, <2>4, ZenonT(30) DEF LoadKeys, LoadWipe, LoadStock, LoadGoto
    <2>5. CASE LoadSeat(l)
      <3>1. ASSUME NEW r \in R, rows' = [rows EXCEPT ![l] = r] PROVE LoaderTypeOK'
        BY <1>0, <2>0, <2>5, <3>1 DEF LoadSeat
      <3>2. CASE \E s \in rows[l].available : rows' = [rows EXCEPT ![l].available = @ \ {s}]
        BY <2>0, <3>1, <3>2
      <3>3. CASE \E s \in rows[l].sold : rows' = [rows EXCEPT ![l].sold = @ \ {s}]
        BY <2>0, <3>1, <3>3
      <3>4. CASE \E t \in Tokens : \E s \in rows[l].frozen[t] :
                    rows' = [rows EXCEPT ![l].frozen[t] = @ \ {s}]
        BY <2>0, <3>1, <3>4
      <3> QED
        BY <2>5, <3>2, <3>3, <3>4 DEF LoadSeat
    <2>6. CASE LoadDone(l) \/ LoadError(l)
      <3>1. loading' \in BOOLEAN
        BY <1>0, <2>6 DEF LoadDone, LoadError
      <3>2. losses' \in 0..MaxLosses
        BY <1>0, <2>6 DEF LoadDone, LoadError, Lose
      <3>3. NoRows \in R
        BY DEF NoRows
      <3>4. LoadReset(l)
        BY <2>6 DEF LoadDone, LoadError
      <3>5. rows' \in [Loaders -> R]
        BY <2>0, <3>3, <3>4 DEF LoadReset
      <3>6. lpc' \in [Loaders -> LoadSteps]
        BY <1>0, <3>4 DEF LoadReset, LoadGoto
      <3>7. sync' \in [Loaders -> BOOLEAN]
        BY <1>0, <3>4 DEF LoadReset
      <3>8. keys' \in [Loaders -> SUBSET Tokens]
        BY <1>0, <3>4 DEF LoadReset
      <3> QED
        BY <3>1, <3>2, <3>5, <3>6, <3>7, <3>8
    <2>7. CASE PrimeSeatLedger(l)
      BY <1>0, <2>7 DEF PrimeSeatLedger, LoadGoto, Lose
    <2> QED
      BY <1>5, <2>1, <2>2, <2>3, <2>4, <2>5, <2>6, <2>7 DEF LoadStep
  <1>6. CASE StockExpires \/ LoadingExpires \/ SeatsExpire
    <2>1. loading' \in BOOLEAN
      BY <1>0, <1>6 DEF StockExpires, LoadingExpires, SeatsExpire
    <2>2. losses' \in 0..MaxLosses
      BY <1>0, <1>6 DEF StockExpires, LoadingExpires, SeatsExpire, Lose
    <2>3. UNCHANGED <<lpc, sync, rows, keys>>
      BY <1>6 DEF StockExpires, LoadingExpires, SeatsExpire
    <2> QED
      BY <1>0, <2>1, <2>2, <2>3
  <1>7. CASE UNCHANGED vars
    BY <1>1, <1>7 DEF vars
  <1> QED
    BY <1>3, <1>4, <1>5, <1>6, <1>7 DEF Next

\* The tables, the ledger, handlers and loaders stay well formed, and the stock
\* key is never negative, for all constants and all hazards.
THEOREM LedgerTypeCorrect == Spec => []TypeOK
  <1>1. Init => TypeOK
    <2> SUFFICES ASSUME Init PROVE TypeOK
      OBVIOUS
    <2>1. TableTypeOK
      BY DEF Init, TableTypeOK
    <2>2. LedgerTypeOK
      BY SeatCount DEF Init, LedgerTypeOK
    <2>3. ClientTypeOK
      BY LedgerAssumption DEF Init, ClientTypeOK, Steps
    <2>4. LoaderTypeOK
      <3>1. NoRows \in [available : SUBSET Seats, sold : SUBSET Seats,
                        frozen : [Tokens -> SUBSET Seats]]
        BY DEF NoRows
      <3>2. losses \in 0..MaxLosses
        BY LedgerAssumption DEF Init
      <3> QED
        BY <3>1, <3>2 DEF Init, LoaderTypeOK, LoadSteps
    <2> QED
      BY <2>1, <2>2, <2>3, <2>4 DEF TypeOK
  <1>2. TypeOK /\ [Next]_vars => TypeOK'
    BY TableView, LedgerView, TableTypeStep, LedgerTypeStep, ClientTypeStep, LoaderTypeStep
    DEF TypeOK
  <1> QED
    BY <1>1, <1>2, PTL DEF Spec

-----------------------------------------------------------------------------
(***************************************************************************)
(* Nobody's seat is taken, whatever the ledger says.                        *)
(***************************************************************************)
\* A seat has a holder exactly when it is not available.
HolderInv == \A s \in Seats : holder[s] = None <=> status[s] = "available"

LEMMA HolderStep ==
    ASSUME TableTypeOK, ClientTypeOK, HolderInv, TableStep
    PROVE  HolderInv'
  <1> USE LedgerAssumption DEF HolderInv, TableTypeOK, ClientTypeOK, SetSeats
  <1>1. ASSUME NEW c \in Clients, PersistStep(c) PROVE HolderInv'
    BY <1>1 DEF PersistStep
  <1>2. ASSUME NEW c \in Clients, SettleStep(c) PROVE HolderInv'
    BY <1>2 DEF SettleStep
  <1>3. CASE UNCHANGED tableVars
    BY <1>3 DEF tableVars
  <1> QED
    BY <1>1, <1>2, <1>3 DEF TableStep

\* In every reachable state a seat has a holder exactly when it is not available.
LEMMA HolderSafe == Spec => []HolderInv
  <1>1. Init => HolderInv
    BY DEF Init, HolderInv
  <1>2. TypeOK /\ HolderInv /\ [Next]_vars => HolderInv'
    BY TableView, HolderStep DEF TypeOK
  <1> QED
    BY <1>1, <1>2, LedgerTypeCorrect, PTL DEF Spec

\* A confirm or release of its own token is the only way the row of a held seat
\* changes, with any number of processes, stale ledgers and failures.
THEOREM NotStolen == Spec => SeatNotStolen
  <1> DEFINE Kept ==
        \A s \in Seats :
          holder[s] # None /\ <<holder'[s], status'[s]>> # <<holder[s], status[s]>> =>
             /\ status[s] = "frozen"
             /\ \E c \in Clients :
                   /\ tok[c] = holder[s]
                   /\ \/ op[c] = "confirm" /\ holder'[s] = holder[s] /\ status'[s] = "sold"
                      \/ op[c] = "release" /\ holder'[s] = None /\ status'[s] = "available"
  <1>1. TypeOK /\ HolderInv /\ [Next]_vars => [Kept]_vars
    <2> SUFFICES ASSUME TypeOK, HolderInv, [Next]_vars PROVE Kept
      OBVIOUS
    <2> USE DEF TypeOK, TableTypeOK, ClientTypeOK, SetSeats
    <2>1. ASSUME NEW c \in Clients, PersistStep(c) PROVE Kept
      BY <2>1 DEF PersistStep, AllIn, HolderInv
    <2>2. ASSUME NEW c \in Clients, SettleStep(c) PROVE Kept
      BY <2>2 DEF SettleStep
    <2>3. CASE UNCHANGED tableVars
      BY <2>3 DEF tableVars
    <2> QED
      BY <2>1, <2>2, <2>3, TableView DEF TableStep
  <1> QED
    BY <1>1, LedgerTypeCorrect, HolderSafe, PTL DEF Spec, SeatNotStolen

-----------------------------------------------------------------------------
(***************************************************************************)
(* The ledger between two loads                                             *)
(***************************************************************************)
\* No key expires and nobody primes again.
NoReload == Hazards \cap {"evict", "prime"} = {}

Loaded == ready /\ \A l \in Loaders : lpc[l] = "idle"

\* Without expiry the stock key stays, so that no load is ever scheduled.
LEMMA LoadedStep ==
    ASSUME NoReload, Loaded, LedgerTypeOK, ClientTypeOK, [Next]_vars
    PROVE  /\ Loaded'
           /\ ScriptStep \/ UNCHANGED ledgerVars
  <1>1. ~ReloadStep
    BY DEF NoReload, Loaded, ReloadStep, LoadWipe, LoadStock, LoadSeat, StockExpires,
           SeatsExpire, Lose
  <1>2. ScriptStep \/ UNCHANGED ledgerVars
    BY <1>1, LedgerView DEF LedgerStep
  <1>3. ready' = ready
    BY <1>2 DEF ScriptStep, FreezeScript, ReleaseScript, ConfirmScript, ledgerVars
  <1>4. UNCHANGED lpc
    <2>1. ASSUME NEW c \in Clients, HandlerStep(c) PROVE UNCHANGED lpc
      BY <2>1
      DEF Loaded, HandlerStep, FreezeExisting, FreezeLookup, FreezeReserve, FreezeRefused,
          FreezePersist, FreezePersistError, FreezeUndo, SettleLedger, SettleTx,
          SettleScript, ClientCrash, loaderVars
    <2>2. ASSUME NEW c \in Clients, NEW t \in Tokens, Call(c, t) PROVE UNCHANGED lpc
      BY <2>2 DEF Call, FreezeStart, ReleaseUnheld, SettleStart, loaderVars
    <2>3. ASSUME NEW l \in Loaders PROVE ~(LoadStep(l) \/ PrimeSeatLedger(l))
      BY DEF Loaded, NoReload, LoadStep, LoadAvailable, LoadFrozen, LoadSold, LoadKeys,
             LoadWipe, LoadStock, LoadSeat, LoadDone, LoadError, PrimeSeatLedger, Lose
    <2>4. ~(StockExpires \/ LoadingExpires \/ SeatsExpire)
      BY DEF NoReload, StockExpires, LoadingExpires, SeatsExpire, Lose
    <2>5. CASE UNCHANGED vars
      BY <2>5 DEF vars, loaderVars
    <2> QED
      BY <2>1, <2>2, <2>3, <2>4, <2>5 DEF Next
  <1> QED
    BY <1>2, <1>3, <1>4 DEF Loaded

\* Without expiry and priming the ledger stays loaded.
LEMMA StaysLoaded == NoReload => (Spec => []Loaded)
  <1> SUFFICES ASSUME NoReload PROVE Spec => []Loaded
    OBVIOUS
  <1>1. Init => Loaded
    BY DEF Init, Loaded
  <1>2. TypeOK /\ Loaded /\ [Next]_vars => Loaded'
    BY LoadedStep DEF TypeOK
  <1> QED
    BY <1>1, <1>2, LedgerTypeCorrect, PTL DEF Spec

\* Taking seats out of a set, and putting others in, counts.
LEMMA SeatsRemoved ==
    ASSUME NEW A \in SUBSET Seats, NEW S \in SUBSET A
    PROVE  Cardinality(A \ S) = Cardinality(A) - Cardinality(S)
  <1>1. IsFiniteSet(A) /\ S \in SUBSET Seats
    BY SeatCount
  <1>2. Cardinality(A \ S) = Cardinality(A) - Cardinality(A \cap S)
    BY <1>1, FS_Difference
  <1>3. A \cap S = S
    OBVIOUS
  <1> QED
    BY <1>2, <1>3

LEMMA SeatsAdded ==
    ASSUME NEW A \in SUBSET Seats, NEW S \in SUBSET Seats, A \cap S = {}
    PROVE  Cardinality(A \cup S) = Cardinality(A) + Cardinality(S)
  <1>1. IsFiniteSet(A) /\ IsFiniteSet(S) /\ Cardinality(A) \in Nat /\ Cardinality(S) \in Nat
    BY SeatCount
  <1>2. Cardinality(A \cup S) = Cardinality(A) + Cardinality(S) - Cardinality(A \cap S)
    BY <1>1, FS_Union
  <1>3. Cardinality(A \cap S) = 0
    BY FS_EmptySet
  <1> QED
    BY <1>1, <1>2, <1>3

\* Each script moves seats between the sets of the ledger and counts them.
LEMMA ScriptConserves ==
    ASSUME LedgerTypeOK, LedgerConserved, ScriptStep
    PROVE  LedgerConserved'
  <1> USE DEF LedgerTypeOK, LedgerConserved
  <1>1. ASSUME NEW t \in Tokens, NEW S \in SUBSET Seats, FreezeScript(t, S)
        PROVE  LedgerConserved'
    <2>1. CASE UNCHANGED ledgerVars
      BY <2>1 DEF ledgerVars
    <2>2. CASE ~UNCHANGED ledgerVars
      <3>1. /\ frozen[t] = {} /\ S \subseteq available /\ Cardinality(S) = CountOf[t]
            /\ available' = available \ S
            /\ frozen' = [frozen EXCEPT ![t] = S]
            /\ stock' = stock - CountOf[t]
            /\ sold' = sold
        BY <1>1, <2>2 DEF FreezeScript
      <3>2. stock' = Cardinality(available')
        BY <3>1, SeatsRemoved
      <3>3. available' \cup sold' \cup UNION {frozen'[u] : u \in Tokens} = Seats
        BY <3>1
      <3> QED
        BY <3>1, <3>2, <3>3
    <2> QED
      BY <2>1, <2>2
  <1>2. ASSUME NEW t \in Tokens, ReleaseScript(t) PROVE LedgerConserved'
    <2>1. stock' = Cardinality(available')
      BY <1>2, SeatsAdded DEF ReleaseScript
    <2>2. available' \cup sold' \cup UNION {frozen'[u] : u \in Tokens} = Seats
      BY <1>2 DEF ReleaseScript
    <2> QED
      BY <1>2, <2>1, <2>2 DEF ReleaseScript
  <1>3. ASSUME NEW t \in Tokens, ConfirmScript(t) PROVE LedgerConserved'
    <2>1. available' \cup sold' \cup UNION {frozen'[u] : u \in Tokens} = Seats
      BY <1>3 DEF ConfirmScript
    <2> QED
      BY <1>3, <2>1 DEF ConfirmScript
  <1> QED
    BY <1>1, <1>2, <1>3 DEF ScriptStep

\* While no key expires, every seat is in exactly one set of the ledger and the
\* stock key counts the available ones, whatever handlers overlap or fail.
THEOREM Conserved == NoReload => (Spec => []LedgerConserved)
  <1> SUFFICES ASSUME NoReload PROVE Spec => []LedgerConserved
    OBVIOUS
  <1>1. Init => LedgerConserved
    BY DEF Init, LedgerConserved
  <1>2. TypeOK /\ Loaded /\ LedgerConserved /\ [Next]_vars => LedgerConserved'
    <2> SUFFICES ASSUME TypeOK, Loaded, LedgerConserved, [Next]_vars
                 PROVE  LedgerConserved'
      OBVIOUS
    <2>1. CASE ScriptStep
      BY <2>1, ScriptConserves DEF TypeOK
    <2>2. CASE UNCHANGED ledgerVars
      BY <2>2 DEF LedgerConserved, ledgerVars
    <2> QED
      BY <2>1, <2>2, LoadedStep DEF TypeOK
  <1> QED
    BY <1>1, <1>2, LedgerTypeCorrect, StaysLoaded, PTL DEF Spec

-----------------------------------------------------------------------------
(***************************************************************************)
(* Tokens hold their seats as a whole.                                      *)
(***************************************************************************)
\* All handlers run in one process, so that freezes exclude each other.
OneProcess == \A c, d \in Clients : InstanceOf[c] = InstanceOf[d]

\* A frozen key has the seats of the whole order.
WholeFrozen == \A t \in Tokens : frozen[t] = {} \/ Cardinality(frozen[t]) = CountOf[t]

\* So has the token in the table, with one status.
WholeHeld ==
    \A t \in Tokens :
        /\ HeldBy(t) = {} \/ Cardinality(HeldBy(t)) = CountOf[t]
        /\ AllIn(HeldBy(t), "frozen") \/ AllIn(HeldBy(t), "sold")

\* One freeze at a time, for a token without seats; and what the handlers read.
WholeSeen ==
    \A c \in Clients :
        /\ \A d \in Clients : op[c] = "freeze" /\ op[d] = "freeze" => c = d
        /\ op[c] = "freeze" /\ pc[c] \in {"script", "persist"} => HeldBy(tok[c]) = {}
        /\ pc[c] \in {"persist", "tx"} => Cardinality(seen[c]) = CountOf[tok[c]]
        /\ pc[c] = "ledger" => seen[c] # {}

\* A settled freeze is the whole of its token: the seats read from the ledger are
\* all the seats of the token in the table.
LEMMA SettleWhole ==
    ASSUME TypeOK, WholeHeld, WholeSeen, NEW c \in Clients, SettleStep(c)
    PROVE  tok[c] \in Tokens /\ seen[c] = HeldBy(tok[c]) /\ seen[c] # {}
  <1>1. tok[c] \in Tokens /\ seen[c] \in SUBSET Seats
    BY DEF SettleStep, TypeOK, ClientTypeOK
  <1>2. seen[c] \in SUBSET HeldBy(tok[c]) /\ HeldBy(tok[c]) \in SUBSET Seats
    BY <1>1 DEF SettleStep, HeldBy
  <1>3. Cardinality(seen[c]) = CountOf[tok[c]] /\ CountOf[tok[c]] \in Nat \ {0}
    BY <1>1, LedgerAssumption DEF SettleStep, WholeSeen
  <1>4. seen[c] # {}
    BY <1>3, FS_EmptySet
  <1>5. Cardinality(HeldBy(tok[c])) = Cardinality(seen[c])
    BY <1>1, <1>2, <1>3, <1>4 DEF WholeHeld
  <1>6. HeldBy(tok[c]) = seen[c]
    BY <1>2, <1>5, SeatCount, FS_Subset
  <1> QED
    BY <1>1, <1>4, <1>6

\* What a step does to the seats of the tokens.
OthersKeep(t) ==
    \A u \in Tokens \ {t} :
        HeldBy(u)' = HeldBy(u) /\ \A s \in HeldBy(u) : status'[s] = status[s]

Granted(t, S) ==
    /\ HeldBy(t) = {} /\ HeldBy(t)' = S
    /\ Cardinality(S) = CountOf[t]
    /\ \A u \in Tokens : S \cap HeldBy(u) = {}
    /\ \A s \in S : status'[s] = "frozen"
    /\ OthersKeep(t)

Settled(t) ==
    /\ HeldBy(t) # {}
    /\ \A s \in HeldBy(t) : status[s] = "frozen"
    /\ \/ HeldBy(t)' = HeldBy(t) /\ \A s \in HeldBy(t) : status'[s] = "sold"
       \/ HeldBy(t)' = {}
    /\ OthersKeep(t)

\* A persist grants, a confirm or a release settles all the seats of a token.
LEMMA PersistGrants ==
    ASSUME TypeOK, HolderInv, WholeSeen, NEW c \in Clients, PersistStep(c)
    PROVE  \E t \in Tokens, S \in SUBSET Seats : Granted(t, S)
  <1> USE DEF TypeOK, TableTypeOK, ClientTypeOK
  <1>1. /\ tok[c] \in Tokens /\ seen[c] \in SUBSET Seats
        /\ HeldBy(tok[c]) = {}
        /\ Cardinality(seen[c]) = CountOf[tok[c]]
    BY LedgerAssumption DEF PersistStep, WholeSeen
  <1> PICK t \in Tokens : t = tok[c]
    BY <1>1
  <1>2. \A s \in seen[c] : holder[s] = None
    BY <1>1 DEF PersistStep, AllIn, HolderInv
  <1>3. \A u \in Tokens : seen[c] \cap HeldBy(u) = {}
    BY <1>2, LedgerAssumption DEF HeldBy
  <1>4. HeldBy(t)' = seen[c] /\ \A s \in seen[c] : status'[s] = "frozen"
    BY <1>1 DEF PersistStep, SetSeats, HeldBy
  <1>5. OthersKeep(t)
    BY <1>1, <1>3 DEF PersistStep, SetSeats, HeldBy, OthersKeep
  <1>6. Granted(t, seen[c])
    BY <1>1, <1>3, <1>4, <1>5 DEF Granted
  <1> QED
    BY <1>1, <1>6

LEMMA SettleSettles ==
    ASSUME TypeOK, WholeHeld, WholeSeen, NEW c \in Clients, SettleStep(c)
    PROVE  \E t \in Tokens : Settled(t)
  <1> USE DEF TypeOK, TableTypeOK, ClientTypeOK
  <1>1. tok[c] \in Tokens /\ seen[c] = HeldBy(tok[c]) /\ HeldBy(tok[c]) # {}
    BY SettleWhole
  <1> PICK t \in Tokens : t = tok[c]
    BY <1>1
  <1>2. \A s \in HeldBy(t) : status[s] = "frozen"
    BY <1>1 DEF SettleStep
  <1>3. \/ HeldBy(t)' = HeldBy(t) /\ \A s \in HeldBy(t) : status'[s] = "sold"
        \/ HeldBy(t)' = {}
    BY <1>1, LedgerAssumption DEF SettleStep, SetSeats, HeldBy
  <1>4. OthersKeep(t)
    BY <1>1, LedgerAssumption DEF SettleStep, SetSeats, HeldBy, OthersKeep
  <1> QED
    BY <1>1, <1>2, <1>3, <1>4 DEF Settled

LEMMA HoldView ==
    ASSUME TypeOK, HolderInv, WholeHeld, WholeSeen, TableStep
    PROVE  \/ \E t \in Tokens : Settled(t) \/ \E S \in SUBSET Seats : Granted(t, S)
           \/ UNCHANGED tableVars
  BY PersistGrants, SettleSettles DEF TableStep

LEMMA WholeHeldStep ==
    ASSUME TypeOK, HolderInv, WholeHeld, WholeSeen, TableStep
    PROVE  WholeHeld'
  <1> USE DEF WholeHeld, AllIn
  <1>1. ASSUME NEW t \in Tokens, NEW S \in SUBSET Seats, Granted(t, S) PROVE WholeHeld'
    BY <1>1 DEF Granted, OthersKeep
  <1>2. ASSUME NEW t \in Tokens, Settled(t) PROVE WholeHeld'
    BY <1>2 DEF Settled, OthersKeep
  <1>3. CASE UNCHANGED tableVars
    BY <1>3 DEF tableVars, HeldBy
  <1> QED
    BY <1>1, <1>2, <1>3, HoldView

LEMMA WholeFrozenStep ==
    ASSUME LedgerTypeOK, WholeFrozen, ScriptStep \/ UNCHANGED ledgerVars
    PROVE  WholeFrozen'
  <1> USE DEF LedgerTypeOK, WholeFrozen
  <1>1. ASSUME NEW t \in Tokens, NEW S \in SUBSET Seats, FreezeScript(t, S)
        PROVE  WholeFrozen'
    BY <1>1 DEF FreezeScript, ledgerVars
  <1>2. ASSUME NEW t \in Tokens, ReleaseScript(t) \/ ConfirmScript(t)
        PROVE  WholeFrozen'
    BY <1>2 DEF ReleaseScript, ConfirmScript
  <1>3. CASE UNCHANGED ledgerVars
    BY <1>3 DEF ledgerVars
  <1> QED
    BY <1>1, <1>2, <1>3 DEF ScriptStep

\* What WholeSeen says of one handler.
SeenFits(c) ==
    /\ op[c] = "freeze" /\ pc[c] \in {"script", "persist"} => HeldBy(tok[c]) = {}
    /\ pc[c] \in {"persist", "tx"} => Cardinality(seen[c]) = CountOf[tok[c]]
    /\ pc[c] = "ledger" => seen[c] # {}

OneFreeze == \A c, d \in Clients : op[c] = "freeze" /\ op[d] = "freeze" => c = d

\* A handler that does not move keeps what it read, unless its token is granted
\* seats; only the one handler that freezes does that.
LEMMA OthersFit ==
    ASSUME TypeOK, WholeHeld, WholeSeen, NEW c \in Clients, NEW d \in Clients, c # d,
           pc'[d] = pc[d], op'[d] = op[d], tok'[d] = tok[d], seen'[d] = seen[d],
           PersistStep(c) \/ SettleStep(c) \/ UNCHANGED tableVars
    PROVE  SeenFits(d)'
  <1> USE DEF TypeOK, ClientTypeOK, WholeSeen, SeenFits
  <1>1. CASE PersistStep(c)
    BY <1>1 DEF PersistStep
  <1>2. CASE SettleStep(c)
    <2>1. ASSUME op[d] = "freeze", pc[d] \in {"script", "persist"}
          PROVE  {s \in Seats : holder'[s] = tok[d]} = {}
      <3>1. tok[d] \in Tokens /\ {s \in Seats : holder[s] = tok[d]} = {}
        BY <2>1 DEF HeldBy
      <3> QED
        BY <1>2, <3>1, LedgerAssumption DEF SettleStep, SetSeats
    <2> QED
      BY <2>1 DEF HeldBy
  <1>3. CASE UNCHANGED tableVars
    BY <1>3 DEF tableVars, HeldBy
  <1> QED
    BY <1>1, <1>2, <1>3

LEMMA WholeSeenHandler ==
    ASSUME TypeOK, WholeFrozen, WholeHeld, WholeSeen, NEW c \in Clients, HandlerStep(c)
    PROVE  WholeSeen'
  <1> USE DEF TypeOK, ClientTypeOK
  <1>1. \/ Leave(c)
        \/ \E step \in Steps \ {"idle"} : Goto(c, step)
    BY DEF HandlerStep, FreezeExisting, FreezeLookup, FreezeReserve, FreezeRefused,
           FreezePersist, FreezePersistError, FreezeUndo, SettleLedger, SettleTx,
           SettleScript, ClientCrash, Steps
  <1>2. PersistStep(c) \/ SettleStep(c) \/ UNCHANGED tableVars
    BY DEF HandlerStep, FreezeExisting, FreezeLookup, FreezeReserve, FreezeRefused,
           FreezePersist, FreezePersistError, FreezeUndo, SettleLedger, SettleTx,
           SettleScript, ClientCrash, PersistStep, SettleStep
  <1>3. \A d \in Clients : op'[d] = op[d] \/ op'[d] = "none"
    BY <1>1 DEF Leave, Goto
  <1>4. OneFreeze'
    BY <1>3 DEF OneFreeze, WholeSeen
  <1>5. ASSUME NEW d \in Clients, d # c
        PROVE  pc'[d] = pc[d] /\ op'[d] = op[d] /\ tok'[d] = tok[d] /\ seen'[d] = seen[d]
    BY <1>5
    DEF HandlerStep, FreezeExisting, FreezeLookup, FreezeReserve, FreezeRefused,
        FreezePersist, FreezePersistError, FreezeUndo, SettleLedger, SettleTx,
        SettleScript, ClientCrash, Leave, Goto
  <1>6. SeenFits(c)'
    <2> USE DEF SeenFits
    <2>1. CASE Leave(c)
      BY <2>1 DEF Leave
    <2>2. CASE FreezeLookup(c)
      BY <2>1, <2>2 DEF FreezeLookup, Goto, HeldBy, tableVars
    <2>3. CASE FreezeReserve(c)
      <3>1. tok[c] \in Tokens /\ HeldBy(tok[c]) = {}
        BY <2>3, LedgerAssumption DEF FreezeReserve, WholeSeen
      <3>2. ASSUME NEW S \in SUBSET Seats, FreezeScript(tok[c], S)
            PROVE  Cardinality(S) = CountOf[tok[c]]
        BY <3>1, <3>2 DEF FreezeScript, WholeFrozen
      <3> QED
        BY <2>1, <2>3, <3>1, <3>2 DEF FreezeReserve, Goto, HeldBy, tableVars
    <2>4. CASE FreezePersist(c) \/ FreezePersistError(c)
      BY <2>1, <2>4 DEF FreezePersist, FreezePersistError, Goto
    <2>5. CASE SettleLedger(c)
      <3>1. /\ tok[c] \in Tokens /\ seen[c] \in SUBSET Seats /\ seen[c] # {}
            /\ op[c] # "freeze"
        BY <2>5, LedgerAssumption DEF SettleLedger, WholeSeen
      <3>2. Cardinality(seen[c]) # 0
        BY <3>1, SeatCount, FS_EmptySet
      <3>3. Cardinality(frozen[tok[c]]) = Cardinality(seen[c])
            => Cardinality(frozen[tok[c]]) = CountOf[tok[c]]
        BY <3>1, <3>2, FS_EmptySet DEF WholeFrozen
      <3> QED
        BY <2>1, <2>5, <3>1, <3>3 DEF SettleLedger, Goto
    <2>6. CASE SettleTx(c)
      BY <2>1, <2>6 DEF SettleTx, Goto
    <2> QED
      BY <2>1, <2>2, <2>3, <2>4, <2>5, <2>6
      DEF HandlerStep, FreezeExisting, FreezeRefused, FreezeUndo, SettleScript, ClientCrash
  <1>7. \A d \in Clients : SeenFits(d)'
    BY <1>2, <1>5, <1>6, OthersFit
  <1> QED
    BY <1>4, <1>7 DEF WholeSeen, OneFreeze, SeenFits

LEMMA WholeSeenCall ==
    ASSUME TypeOK, OneProcess, WholeHeld, WholeSeen,
           NEW c \in Clients, NEW t \in Tokens, Call(c, t)
    PROVE  WholeSeen'
  <1> USE DEF TypeOK, ClientTypeOK
  <1>1. PICK kind \in {"freeze", "confirm", "release"} :
           /\ Begin(c, t, kind)
           /\ kind = "freeze" => FreezeStart(c, t)
           /\ kind # "freeze" => ReleaseUnheld(c, t) \/ SettleStart(c, t, kind)
    BY DEF Call, FreezeStart, ReleaseUnheld, SettleStart
  <1>2. UNCHANGED tableVars
    BY DEF Call, FreezeStart, ReleaseUnheld, SettleStart
  <1>3. OneFreeze'
    BY <1>1 DEF OneProcess, OneFreeze, WholeSeen, Begin, Locked
  <1>4. ASSUME NEW d \in Clients, d # c
        PROVE  pc'[d] = pc[d] /\ op'[d] = op[d] /\ tok'[d] = tok[d] /\ seen'[d] = seen[d]
    BY <1>1, <1>4 DEF Begin, FreezeStart, ReleaseUnheld, SettleStart
  <1>5. SeenFits(c)'
    BY <1>1 DEF SeenFits, Begin, FreezeStart, ReleaseUnheld, SettleStart
  <1>6. \A d \in Clients : SeenFits(d)'
    BY <1>2, <1>4, <1>5, OthersFit
  <1> QED
    BY <1>3, <1>6 DEF WholeSeen, OneFreeze, SeenFits

\* The inductive invariant of the refinement.
WholeInv == WholeFrozen /\ WholeHeld /\ WholeSeen

LEMMA WholeStep ==
    ASSUME NoReload, OneProcess, TypeOK, HolderInv, Loaded, WholeInv, [Next]_vars
    PROVE  WholeInv'
  <1> USE DEF WholeInv
  <1>1. WholeFrozen' /\ WholeHeld'
    BY WholeFrozenStep, WholeHeldStep, LoadedStep, TableView DEF TypeOK
  <1>2. ASSUME NEW c \in Clients, HandlerStep(c) PROVE WholeSeen'
    BY <1>2, WholeSeenHandler
  <1>3. ASSUME NEW c \in Clients, NEW t \in Tokens, Call(c, t) PROVE WholeSeen'
    BY <1>3, WholeSeenCall
  <1>4. ASSUME UNCHANGED <<tableVars, clientVars>> PROVE WholeSeen'
    BY <1>4 DEF WholeSeen, HeldBy, tableVars, clientVars
  <1>5. ASSUME NEW l \in Loaders, LoadStep(l) \/ PrimeSeatLedger(l)
        PROVE  UNCHANGED <<tableVars, clientVars>>
    BY <1>5 DEF LoadStep, LoadAvailable, LoadFrozen, LoadSold, LoadKeys, LoadWipe,
                LoadStock, LoadSeat, LoadDone, LoadError, LoadReset, PrimeSeatLedger
  <1>6. ASSUME StockExpires \/ LoadingExpires \/ SeatsExpire
        PROVE  UNCHANGED <<tableVars, clientVars>>
    BY <1>6 DEF StockExpires, LoadingExpires, SeatsExpire
  <1>7. ASSUME UNCHANGED vars PROVE UNCHANGED <<tableVars, clientVars>>
    BY <1>7 DEF vars
  <1> QED
    BY <1>1, <1>2, <1>3, <1>4, <1>5, <1>6, <1>7 DEF Next

\* Handlers of one process implement the one-step promise of SeatHold while no
\* key expires: tokens get, keep, sell and give back their seats as a whole.
THEOREM HoldRefinement == NoReload /\ OneProcess => (Spec => ImplementsHold)
  <1> SUFFICES ASSUME NoReload, OneProcess PROVE Spec => ImplementsHold
    OBVIOUS
  <1>1. Init => WholeInv /\ Hold!HoldInit
    <2> SUFFICES ASSUME Init PROVE WholeInv /\ Hold!HoldInit
      OBVIOUS
    <2>1. \A t \in Tokens : HeldBy(t) = {}
      BY LedgerAssumption DEF Init, HeldBy
    <2>2. WholeInv
      BY <2>1 DEF Init, WholeInv, WholeFrozen, WholeHeld, WholeSeen, AllIn
    <2>3. Hold!HoldInit
      BY <2>1 DEF Hold!HoldInit
    <2> QED
      BY <2>2, <2>3
  <1>2. TypeOK /\ HolderInv /\ Loaded /\ WholeInv /\ [Next]_vars => WholeInv'
    BY WholeStep
  <1>3. TypeOK /\ HolderInv /\ WholeInv /\ [Next]_vars => [Hold!HoldNext]_(Hold!holdVars)
    <2> SUFFICES ASSUME TypeOK, HolderInv, WholeInv, [Next]_vars
                 PROVE  [Hold!HoldNext]_(Hold!holdVars)
      OBVIOUS
    <2> DEFINE held == [t \in Tokens |-> HeldBy(t)]
               paid == [t \in Tokens |-> \E s \in HeldBy(t) : status[s] = "sold"]
    <2>1. ASSUME NEW t \in Tokens, NEW S \in SUBSET Seats, Granted(t, S)
          PROVE  Hold!Grant(t, S)
      <3>1. held[t] = {} /\ \A u \in Tokens : S \cap held[u] = {}
        BY <2>1 DEF Granted
      <3>2. held' = [held EXCEPT ![t] = S]
        BY <2>1 DEF Granted, OthersKeep
      <3>3. ASSUME NEW u \in Tokens PROVE paid'[u] = paid[u]
        <4>1. CASE u = t
          BY <2>1, <4>1 DEF Granted
        <4>2. CASE u # t
          BY <2>1, <4>2 DEF Granted, OthersKeep
        <4> QED
          BY <4>1, <4>2
      <3>4. paid' = paid
        BY <3>3
      <3>5. Hold!Cardinality(S) = CountOf[t]
        BY <2>1 DEF Granted, Hold!Cardinality, Cardinality
      <3> QED
        BY <3>1, <3>2, <3>4, <3>5, Zenon DEF Hold!Grant
    <2>2. ASSUME NEW t \in Tokens, Settled(t) PROVE Hold!Sell(t) \/ Hold!Release(t)
      <3>1. ASSUME NEW u \in Tokens \ {t} PROVE held'[u] = held[u] /\ paid'[u] = paid[u]
        BY <2>2 DEF Settled, OthersKeep
      <3>2. held[t] # {} /\ ~paid[t]
        BY <2>2 DEF Settled
      <3>3. CASE HeldBy(t)' = HeldBy(t) /\ \A s \in HeldBy(t) : status'[s] = "sold"
        <4>1. held' = held
          BY <3>1, <3>3
        <4>2. paid'[t] = TRUE
          BY <3>2, <3>3
        <4>3. paid' = [paid EXCEPT ![t] = TRUE]
          BY <3>1, <4>2
        <4> QED
          BY <3>2, <4>1, <4>3 DEF Hold!Sell
      <3>4. CASE HeldBy(t)' = {}
        <4>1. held' = [held EXCEPT ![t] = {}]
          BY <3>1, <3>4
        <4>2. paid'[t] = paid[t]
          BY <3>2, <3>4
        <4>3. paid' = paid
          BY <3>1, <4>2
        <4> QED
          BY <3>2, <4>1, <4>3 DEF Hold!Release
      <3> QED
        BY <2>2, <3>3, <3>4 DEF Settled
    <2>3. CASE UNCHANGED tableVars
      BY <2>3 DEF tableVars, Hold!holdVars, HeldBy
    <2> QED
      BY <2>1, <2>2, <2>3, TableView, HoldView DEF Hold!HoldNext, WholeInv
  <1> QED
    BY <1>1, <1>2, <1>3, LedgerTypeCorrect, HolderSafe, StaysLoaded, PTL
    DEF Spec, ImplementsHold, Hold!HoldSpec

-----------------------------------------------------------------------------
(***************************************************************************)
(* The catalogue                                                            *)
(***************************************************************************)
\* A copy that is as new as its row, but for the marks of the preheat worker.
Fresh(copy, r) ==
    IF r = "program" THEN UpToMarks(copy, ver[r]) ELSE Current(copy, r)

\* A write has committed and not yet deleted the keys of Redis.
KeysPending == \E w \in Instances : writer[w].at = "keys"

\* A write of the topic is not yet published, or its message not yet handled.
Pending(i, topic) ==
    \/ \E w \in Instances : writer[w].at # "idle" /\ writer[w].topic = topic
    \/ inbox[i][topic] > 0

\* A write deletes keys and views only for the detail topic; a load starts with
\* nothing and stores only rows that have a cache.
WriteSteps ==
    /\ \A w \in Instances :
         /\ writer[w].at \in {"keys", "view"} => writer[w].topic = "detail"
         /\ writer[w].at = "snapshot" => writer[w].topic = "category"
    /\ \A i \in Instances :
         /\ loader[i].fill # NoCopy => Loading(i) /\ RowAt(i) # "ticket"
         /\ ~Loading(i) => loader[i].got = NoView

\* An old copy in Redis, or an old row in a load, waits for a DEL.
KeysFollow ==
    \A r \in Rows \ {"category"} :
        \/ KeysPending
        \/ /\ r \in L2Rows => Fresh(l2[r], r)
           /\ \A i \in Instances :
                /\ Fresh(loader[i].got[r], r)
                /\ Loading(i) /\ RowAt(i) = r => Fresh(loader[i].fill, r)

\* An old view waits for the message of a write.
ViewsFollow ==
    \A i \in Instances : \A r \in Rows \ {"category"} :
        Fresh(view[i][r], r) \/ Pending(i, "detail")

\* An old category snapshot, or an old category in a load, waits likewise.
SnapshotsFollow ==
    \A i \in Instances :
        \/ Pending(i, "category")
        \/ /\ Fresh(snapshot[i], "category")
           /\ Loading(i) /\ RowAt(i) = "category" => Fresh(loader[i].fill, "category")

IInv ==
    /\ CatalogueTypeOK
    /\ WriteSteps
    /\ ~excused => KeysFollow /\ ViewsFollow /\ SnapshotsFollow

-----------------------------------------------------------------------------
(* Places in the load order.                                                *)

\* Every row has a place among the reads, and only rows do.
LEMMA ReadRows ==
    /\ \A n \in Reads : n \in 1..5 /\ n # 0 /\ LoadOrder[n] \in Rows
    /\ 1 \in Reads
    /\ L2Rows \subseteq Rows
    /\ L2Rows \subseteq L2Keys
    /\ \A r \in Rows : r \notin {"category", "ticket"} => r \in L2Rows
BY CatalogueAssumption DEF Reads, LoadOrder, L2Rows, L2Keys, RowOf

\* The record of a load that is under way names a row.
LEMMA LoadingRow ==
    ASSUME CatalogueTypeOK, NEW i \in Instances, Loading(i)
    PROVE  /\ loader[i].at \in Reads
           /\ RowAt(i) \in Rows
BY ReadRows DEF CatalogueTypeOK, Loading, RowAt

\* What Advance leaves in the load and in the view of its process, when it has
\* got v for the row it was at.
LEMMA AdvanceStep ==
    ASSUME CatalogueTypeOK, NEW i \in Instances, Loading(i), NEW v \in Copies, Advance(i, Got(i, v))
    PROVE  /\ view' \in [Instances -> [Rows -> Copies]]
           /\ loader' \in [Instances -> [at : {0} \cup Reads, got : [Rows -> Copies], fill : Copies]]
           /\ \A j \in Instances : j # i => loader'[j] = loader[j] /\ view'[j] = view[j]
           /\ loader'[i].fill = NoCopy /\ (loader'[i].at = 0 => loader'[i].got = NoView)
           /\ \A r \in Rows : loader'[i].got[r] \in {NoCopy, loader[i].got[r]}
                              \/ (r = RowAt(i) /\ loader'[i].got[r] = v)
           /\ \A r \in Rows : view'[i][r] \in {view[i][r], loader[i].got[r]}
                              \/ (r = RowAt(i) /\ view'[i][r] = v)
<1> DEFINE got == Got(i, v)
<1>1. /\ got \in [Rows -> Copies]
      /\ \A r \in Rows : got[r] = IF r = RowAt(i) THEN v ELSE loader[i].got[r]
  BY LoadingRow DEF CatalogueTypeOK, Got
<1>2. NoCopy \in Copies /\ NoView \in [Rows -> Copies]
  BY DEF Copies, NoView
<1> HIDE DEF got
<1>3. CASE view' = [view EXCEPT ![i] = got] /\ loader' = [loader EXCEPT ![i] = NoLoad]
  <2>1. NoLoad.fill = NoCopy /\ NoLoad.got = NoView /\ \A r \in Rows : NoView[r] = NoCopy
    BY DEF NoLoad, NoView
  <2>2. NoLoad \in [at : {0} \cup Reads, got : [Rows -> Copies], fill : Copies]
    BY <1>2 DEF NoLoad
  <2>3. loader'[i] = NoLoad /\ view'[i] = got
    BY <1>3 DEF CatalogueTypeOK
  <2>4. /\ view' \in [Instances -> [Rows -> Copies]]
        /\ loader' \in [Instances -> [at : {0} \cup Reads, got : [Rows -> Copies], fill : Copies]]
        /\ \A j \in Instances : j # i => loader'[j] = loader[j] /\ view'[j] = view[j]
    BY <1>1, <1>2, <1>3, <2>1, <2>2, <2>3 DEF CatalogueTypeOK
  <2>5. /\ loader'[i].fill = NoCopy /\ (loader'[i].at = 0 => loader'[i].got = NoView)
        /\ \A r \in Rows : loader'[i].got[r] \in {NoCopy, loader[i].got[r]}
                           \/ (r = RowAt(i) /\ loader'[i].got[r] = v)
    BY <1>1, <2>1, <2>2, <2>3
  <2>6. \A r \in Rows : view'[i][r] \in {view[i][r], loader[i].got[r]}
                        \/ (r = RowAt(i) /\ view'[i][r] = v)
    BY <1>1, <1>3, <2>1, <2>2, <2>3
  <2> QED
    BY <2>4, <2>5, <2>6
<1>4. CASE /\ view' = view
           /\ \E n \in Reads : loader' = [loader EXCEPT ![i] = [at |-> n, got |-> got, fill |-> NoCopy]]
  <2> PICK n \in Reads : loader' = [loader EXCEPT ![i] = [at |-> n, got |-> got, fill |-> NoCopy]]
    BY <1>4
  <2>1. [at |-> n, got |-> got, fill |-> NoCopy] \in
          [at : {0} \cup Reads, got : [Rows -> Copies], fill : Copies]
    BY <1>1, <1>2
  <2>2. loader'[i] = [at |-> n, got |-> got, fill |-> NoCopy]
    BY DEF CatalogueTypeOK
  <2>4. /\ view' \in [Instances -> [Rows -> Copies]]
        /\ loader' \in [Instances -> [at : {0} \cup Reads, got : [Rows -> Copies], fill : Copies]]
        /\ \A j \in Instances : j # i => loader'[j] = loader[j] /\ view'[j] = view[j]
    BY <1>1, <1>2, <1>4, <2>1, <2>2 DEF CatalogueTypeOK
  <2>5. /\ loader'[i].fill = NoCopy /\ (loader'[i].at = 0 => loader'[i].got = NoView)
        /\ \A r \in Rows : loader'[i].got[r] \in {NoCopy, loader[i].got[r]}
                           \/ (r = RowAt(i) /\ loader'[i].got[r] = v)
    BY <1>1, <2>1, <2>2, ReadRows
  <2>6. \A r \in Rows : view'[i][r] \in {view[i][r], loader[i].got[r]}
                        \/ (r = RowAt(i) /\ view'[i][r] = v)
    BY <1>1, <1>4, <2>1, <2>2
  <2> QED
    BY <2>4, <2>5, <2>6
<1>5. Advance(i, got)
  BY DEF got
<1> QED
  BY <1>3, <1>4, <1>5 DEF Advance

-----------------------------------------------------------------------------
(* WriteSteps of a load.                                                         *)

\* A load that has got v for the row it is at, where v is current unless a DEL
\* is under way, and has perhaps stored it in front of the row.
LEMMA FetchStep ==
    ASSUME IInv, NEW i \in Instances, Loading(i), NEW v \in Copies, Advance(i, Got(i, v)),
           UNCHANGED <<ver, writer, inbox, online, edits, faults, silent, excused>>,
           ~excused /\ RowAt(i) # "category" => KeysPending \/ Fresh(v, RowAt(i)),
           l2' \in [L2Keys -> Copies],
           \A r \in L2Rows : l2'[r] = l2[r] \/ (r = RowAt(i) /\ l2'[r] = v),
           snapshot' \in [Instances -> Copies],
           \A j \in Instances : \/ snapshot'[j] = snapshot[j]
                                \/ RowAt(i) = "category" /\ j = i /\ snapshot'[j] = loader[i].fill
    PROVE  IInv'
<1> USE DEF IInv
<1>1. /\ view' \in [Instances -> [Rows -> Copies]]
      /\ loader' \in [Instances -> [at : {0} \cup Reads, got : [Rows -> Copies], fill : Copies]]
      /\ \A j \in Instances : j # i => loader'[j] = loader[j] /\ view'[j] = view[j]
      /\ loader'[i].fill = NoCopy /\ (loader'[i].at = 0 => loader'[i].got = NoView)
      /\ \A r \in Rows : loader'[i].got[r] \in {NoCopy, loader[i].got[r]}
                         \/ (r = RowAt(i) /\ loader'[i].got[r] = v)
      /\ \A r \in Rows : view'[i][r] \in {view[i][r], loader[i].got[r]}
                         \/ (r = RowAt(i) /\ view'[i][r] = v)
  BY AdvanceStep
<1>2. CatalogueTypeOK'
  BY <1>1 DEF CatalogueTypeOK
<1>3. \A j \in Instances : j # i => Loading(j)' = Loading(j) /\ RowAt(j)' = RowAt(j)
  BY <1>1 DEF Loading, RowAt
<1>4. WriteSteps'
  BY <1>1, <1>3, SMTT(30) DEF WriteSteps, Loading
<1>5. KeysPending' = KeysPending /\ \A j \in Instances, t \in Topics : Pending(j, t)' = Pending(j, t)
  BY DEF KeysPending, Pending
<1> SUFFICES ASSUME ~excused
             PROVE  (KeysFollow /\ ViewsFollow /\ SnapshotsFollow)'
  BY <1>2, <1>4
<1>6. RowAt(i) \in Rows
  BY LoadingRow
<1>7. KeysFollow'
  <2> SUFFICES ASSUME NEW r \in Rows \ {"category"}, ~KeysPending
               PROVE  /\ r \in L2Rows => Fresh(l2[r], r)'
                      /\ \A j \in Instances :
                           /\ Fresh(loader[j].got[r], r)'
                           /\ (Loading(j) /\ RowAt(j) = r => Fresh(loader[j].fill, r))'
    BY <1>5 DEF KeysFollow
  <2>1. /\ r \in L2Rows => Fresh(l2[r], r)
        /\ \A j \in Instances :
             /\ Fresh(loader[j].got[r], r)
             /\ Loading(j) /\ RowAt(j) = r => Fresh(loader[j].fill, r)
    BY DEF KeysFollow
  <2>2. r = RowAt(i) => Fresh(v, r)
    OBVIOUS
  <2>3. r \in L2Rows => Fresh(l2[r], r)'
    BY <2>1, <2>2 DEF Fresh, UpToMarks, Current
  <2>4. \A j \in Instances : Fresh(loader[j].got[r], r)'
    BY <1>1, <2>1, <2>2 DEF Fresh, UpToMarks, Current
  <2>5. \A j \in Instances : (Loading(j) /\ RowAt(j) = r => Fresh(loader[j].fill, r))'
    BY <1>1, <1>3, <2>1 DEF Fresh, UpToMarks, Current
  <2> QED
    BY <2>3, <2>4, <2>5
<1>8. KeysPending => \A j \in Instances : Pending(j, "detail")
  BY DEF KeysPending, Pending, WriteSteps
<1>9. ViewsFollow'
  <2> SUFFICES ASSUME NEW j \in Instances, NEW r \in Rows \ {"category"}, ~Pending(j, "detail")
               PROVE  Fresh(view[j][r], r)'
    BY <1>5 DEF ViewsFollow, Topics
  <2>1. ~KeysPending
    BY <1>8
  <2>2. Fresh(view[j][r], r) /\ Fresh(loader[j].got[r], r)
    BY <2>1 DEF ViewsFollow, KeysFollow
  <2>3. CASE j # i
    BY <1>1, <2>2, <2>3 DEF Fresh, UpToMarks, Current
  <2>4. CASE j = i
    <3>1. r = RowAt(i) => Fresh(v, r)
      BY <2>1
    <3>2. PICK c : c = view'[i][r]
      OBVIOUS
    <3>3. Fresh(c, r)
      BY <1>1, <2>2, <2>4, <3>1, <3>2
    <3> QED
      BY <2>4, <3>2, <3>3 DEF Fresh, UpToMarks, Current
  <2> QED
    BY <2>3, <2>4
<1>10. SnapshotsFollow'
  <2> SUFFICES ASSUME NEW j \in Instances, ~Pending(j, "category")
               PROVE  /\ Fresh(snapshot[j], "category")'
                      /\ (Loading(j) /\ RowAt(j) = "category" => Fresh(loader[j].fill, "category"))'
    BY <1>5 DEF SnapshotsFollow, Topics
  <2>1. /\ Fresh(snapshot[j], "category")
        /\ Loading(j) /\ RowAt(j) = "category" => Fresh(loader[j].fill, "category")
    BY DEF SnapshotsFollow
  <2> QED
    BY <1>1, <1>3, <2>1 DEF Fresh, UpToMarks, Current
<1> QED
  BY <1>7, <1>9, <1>10

LEMMA GetStep ==
    ASSUME IInv, NEW i \in Instances, Get(i)
    PROVE  IInv'
<1> USE DEF IInv, Get, cacheVars
<1>1. 1 \in Reads
  BY ReadRows
<1>2. /\ loader' \in [Instances -> [at : {0} \cup Reads, got : [Rows -> Copies], fill : Copies]]
      /\ \A j \in Instances : loader'[j].got = loader[j].got /\ loader'[j].fill = loader[j].fill
      /\ \A j \in Instances : j # i => loader'[j] = loader[j]
  BY <1>1, ZenonT(30) DEF CatalogueTypeOK
<1>3. CatalogueTypeOK'
  BY <1>2 DEF CatalogueTypeOK
<1>4. loader[i].fill = NoCopy
  BY DEF WriteSteps
<1>5. \A j \in Instances : j # i => Loading(j)' = Loading(j) /\ RowAt(j)' = RowAt(j)
  BY <1>2 DEF Loading, RowAt
<1>6. Loading(i)'
  BY DEF Loading, CatalogueTypeOK
<1>11. WriteSteps'
  BY <1>2, <1>4, <1>5, <1>6 DEF WriteSteps
<1>7. KeysPending' = KeysPending /\ \A j \in Instances, t \in Topics : Pending(j, t)' = Pending(j, t)
  BY DEF KeysPending, Pending
<1>8. KeysFollow => KeysFollow'
  BY <1>2, <1>4, <1>5, <1>7 DEF KeysFollow, Fresh, UpToMarks, Current
<1>9. ViewsFollow => ViewsFollow'
  BY <1>7 DEF ViewsFollow, Fresh, UpToMarks, Current, Topics
<1>10. SnapshotsFollow => SnapshotsFollow'
  BY <1>2, <1>4, <1>5, <1>7 DEF SnapshotsFollow, Fresh, UpToMarks, Current, Topics
<1> QED
  BY <1>3, <1>8, <1>9, <1>10, <1>11

\* A copy in front of the row a load is at is current unless a DEL is under way.
LEMMA CopyFollows ==
    ASSUME IInv, NEW i \in Instances, Loading(i)
    PROVE  /\ CopyOf(i, RowAt(i)) \in Copies
           /\ ~excused /\ RowAt(i) # "category" =>
                KeysPending \/ Fresh(CopyOf(i, RowAt(i)), RowAt(i))
<1> USE DEF IInv
<1>1. RowAt(i) \in Rows
  BY LoadingRow
<1>2. NoCopy \in Copies
  BY DEF Copies
<1>3. CASE RowAt(i) \in L2Rows
  <2>1. CopyOf(i, RowAt(i)) = l2[RowAt(i)] /\ RowAt(i) \in L2Keys
    BY <1>3, ReadRows DEF CopyOf, L2Rows
  <2>2. RowAt(i) # "category"
    BY <1>3 DEF L2Rows
  <2> QED
    BY <1>1, <1>3, <2>1, <2>2 DEF CatalogueTypeOK, KeysFollow
<1>4. CASE RowAt(i) = "category"
  <2>1. CopyOf(i, RowAt(i)) = snapshot[i]
    BY <1>4 DEF CopyOf, L2Rows
  <2> QED
    BY <1>4, <2>1 DEF CatalogueTypeOK
<1>5. CASE RowAt(i) \notin L2Rows /\ RowAt(i) # "category"
  <2>1. CopyOf(i, RowAt(i)) = NoCopy
    BY <1>5 DEF CopyOf
  <2> QED
    BY <1>2, <2>1 DEF Fresh, UpToMarks, Current
<1> QED
  BY <1>3, <1>4, <1>5

LEMMA LookupStep ==
    ASSUME IInv, NEW i \in Instances, Lookup(i)
    PROVE  IInv'
<1> USE DEF IInv
<1> DEFINE r == RowAt(i)
           copy == CopyOf(i, r)
<1>1. Loading(i) /\ loader[i].fill = NoCopy
  BY DEF Lookup
<1>2. UNCHANGED <<ver, l2, snapshot, writer, inbox, online, edits, faults, silent, excused>>
  BY DEF Lookup
<1>3. r \in Rows
  BY <1>1, LoadingRow
<1>4. CASE copy # NoCopy /\ Advance(i, Got(i, copy))
  BY <1>1, <1>2, <1>4, CopyFollows, FetchStep DEF CatalogueTypeOK
<1>5. CASE r = "ticket" /\ Advance(i, Got(i, FindByProgramId))
  <2>1. FindByProgramId = ver[r] /\ ver[r] \in Copies
    BY <1>3, <1>5 DEF FindByProgramId, Row, CatalogueTypeOK, Copies
  <2>2. Fresh(FindByProgramId, RowAt(i))
    BY <1>5, <2>1 DEF Fresh, Current
  <2> QED
    BY <1>1, <1>2, <1>5, <2>1, <2>2, FetchStep DEF CatalogueTypeOK
<1>6. CASE r # "ticket" /\ loader' = [loader EXCEPT ![i].fill = ver[r]] /\ view' = view
  <2>1. ver[r] \in Copies
    BY <1>3 DEF CatalogueTypeOK, Copies
  <2>2. /\ loader' \in [Instances -> [at : {0} \cup Reads, got : [Rows -> Copies], fill : Copies]]
        /\ \A j \in Instances : loader'[j].got = loader[j].got /\ loader'[j].at = loader[j].at
        /\ \A j \in Instances : j # i => loader'[j] = loader[j]
        /\ loader'[i].fill = ver[r]
    BY <1>6, <2>1, ZenonT(30) DEF CatalogueTypeOK
  <2>3. CatalogueTypeOK'
    BY <1>2, <1>6, <2>2 DEF CatalogueTypeOK
  <2>4. \A j \in Instances : Loading(j)' = Loading(j) /\ RowAt(j)' = RowAt(j)
    BY <2>2 DEF Loading, RowAt
  <2>5. WriteSteps'
    BY <1>1, <1>2, <1>6, <2>2, <2>4 DEF WriteSteps
  <2>6. KeysPending' = KeysPending /\ \A j \in Instances, t \in Topics : Pending(j, t)' = Pending(j, t)
    BY <1>2 DEF KeysPending, Pending
  <2>7. KeysFollow => KeysFollow'
    <3>1. Fresh(ver[r], r)
      <4>1. ver[r] \in Nat
        BY <1>3 DEF CatalogueTypeOK
      <4>2. \A w \in (ver[r] + 1)..ver[r] : FALSE
        BY <4>1
      <4> QED
        BY <4>1, <4>2 DEF Fresh, UpToMarks, Current
    <3>2. \A c, q : Fresh(c, q) <=>
             IF q = "program" THEN c = NoCopy \/ (c <= ver'[q] /\ \A w \in (c + 1)..ver'[q] : w \in silent')
             ELSE c \in {NoCopy, ver'[q]}
      BY <1>2 DEF Fresh, UpToMarks, Current
    <3> SUFFICES ASSUME KeysFollow, NEW q \in Rows \ {"category"}, ~KeysPending
                 PROVE  /\ q \in L2Rows => Fresh(l2[q], q)'
                        /\ \A j \in Instances :
                             /\ Fresh(loader[j].got[q], q)'
                             /\ (Loading(j) /\ RowAt(j) = q => Fresh(loader[j].fill, q))'
      BY <2>6 DEF KeysFollow
    <3>3. /\ q \in L2Rows => Fresh(l2'[q], q)
          /\ \A j \in Instances :
               /\ Fresh(loader'[j].got[q], q)
               /\ Loading(j) /\ RowAt(j) = q => Fresh(loader'[j].fill, q)
      BY <1>2, <2>2, <3>1 DEF KeysFollow
    <3> QED
      BY <2>4, <3>2, <3>3 DEF Fresh, UpToMarks, Current
  <2>8. ViewsFollow => ViewsFollow'
    BY <1>2, <1>6, <2>6 DEF ViewsFollow, Fresh, UpToMarks, Current, Topics
  <2>9. SnapshotsFollow => SnapshotsFollow'
    BY <1>2, <2>2, <2>4, <2>6 DEF SnapshotsFollow, Fresh, UpToMarks, Current, Topics
  <2> QED
    BY <1>2, <2>3, <2>5, <2>7, <2>8, <2>9
<1> QED
  BY <1>4, <1>5, <1>6 DEF Lookup

LEMMA FillStep ==
    ASSUME IInv, NEW i \in Instances, Fill(i)
    PROVE  IInv'
<1> USE DEF IInv
<1> DEFINE r == RowAt(i)
           v == loader[i].fill
<1>1. Loading(i) /\ v # NoCopy /\ Advance(i, Got(i, v))
  BY DEF Fill
<1>2. UNCHANGED <<ver, writer, inbox, online, edits, faults, silent, excused>>
  BY DEF Fill
<1>3. r \in Rows /\ r # "ticket" /\ v \in Copies
  BY <1>1, LoadingRow DEF WriteSteps, CatalogueTypeOK
<1>4. ~excused /\ r # "category" => KeysPending \/ Fresh(v, r)
  BY <1>1, <1>3 DEF KeysFollow
<1>5. CASE r = "category"
  <2>1. snapshot' = [snapshot EXCEPT ![i] = v] /\ l2' = l2
    BY <1>5 DEF Fill
  <2> QED
    BY <1>1, <1>2, <1>3, <1>4, <1>5, <2>1, FetchStep DEF CatalogueTypeOK
<1>6. CASE r # "category"
  <2>1. r \in L2Keys
    BY <1>3, <1>6, ReadRows
  <2>2. l2' \in {l2, [l2 EXCEPT ![r] = v]} /\ snapshot' = snapshot
    BY <1>6 DEF Fill
  <2>3. /\ l2' \in [L2Keys -> Copies]
        /\ \A q \in L2Rows : l2'[q] = l2[q] \/ (q = r /\ l2'[q] = v)
    BY <1>3, <2>1, <2>2, ReadRows DEF CatalogueTypeOK
  <2> QED
    BY <1>1, <1>2, <1>3, <1>4, <2>2, <2>3, FetchStep DEF CatalogueTypeOK
<1> QED
  BY <1>5, <1>6

-----------------------------------------------------------------------------
(* Entries that go.                                                         *)

\* A step that only loses entries of the caches, or stores a key that is not
\* the copy of a row of a view, or moves a subscription.
LEMMA DropStep ==
    ASSUME IInv, UNCHANGED <<ver, loader, writer, inbox, edits, faults, silent, excused>>,
           online' \in [Instances -> BOOLEAN],
           l2' \in [L2Keys -> Copies],
           \A r \in L2Rows : l2'[r] \in {NoCopy, l2[r]},
           view' \in [Instances -> [Rows -> Copies]],
           \A i \in Instances : view'[i] \in {NoView, view[i]},
           snapshot' \in [Instances -> Copies],
           \A i \in Instances : snapshot'[i] \in {NoCopy, snapshot[i]}
    PROVE  IInv'
<1> USE DEF IInv
<1>1. CatalogueTypeOK'
  BY DEF CatalogueTypeOK
<1>2. \A j \in Instances : Loading(j)' = Loading(j) /\ RowAt(j)' = RowAt(j)
  BY DEF Loading, RowAt
<1>3. WriteSteps'
  BY <1>2 DEF WriteSteps
<1>4. KeysPending' = KeysPending /\ \A j \in Instances, t \in Topics : Pending(j, t)' = Pending(j, t)
  BY DEF KeysPending, Pending
<1>5. KeysFollow => KeysFollow'
  BY <1>2, <1>4 DEF KeysFollow, Fresh, UpToMarks, Current
<1>6. \A r \in Rows : NoView[r] = NoCopy
  BY DEF NoView
<1>7. ViewsFollow => ViewsFollow'
  BY <1>4, <1>6 DEF ViewsFollow, Fresh, UpToMarks, Current, Topics
<1>8. SnapshotsFollow => SnapshotsFollow'
  BY <1>2, <1>4 DEF SnapshotsFollow, Fresh, UpToMarks, Current, Topics
<1> QED
  BY <1>1, <1>3, <1>5, <1>7, <1>8

LEMMA ExpiryStep ==
    ASSUME IInv,
           \/ FindShowTime
           \/ \E k \in L2Keys : ExpireKey(k)
           \/ \E i \in Instances : ExpireView(i) \/ ExpireSnapshot(i) \/ Reconnect(i)
    PROVE  IInv'
<1> USE DEF IInv
<1>1. NoCopy \in Copies /\ NoView \in [Rows -> Copies]
  BY DEF Copies, NoView
<1>2. CASE FindShowTime
  <2>1. "show" \in Rows
    BY <1>2 DEF FindShowTime, L2Keys, RowOf
  <2>2. ver["show"] \in Copies /\ "showById" \notin L2Rows
    BY <2>1 DEF CatalogueTypeOK, Copies, L2Rows
  <2> QED
    BY <1>1, <1>2, <2>2, DropStep, ReadRows DEF FindShowTime, CatalogueTypeOK
<1>3. ASSUME NEW k \in L2Keys, ExpireKey(k)
      PROVE  IInv'
  BY <1>1, <1>3, DropStep, ReadRows DEF ExpireKey, CatalogueTypeOK
<1>4. ASSUME NEW i \in Instances, ExpireView(i)
      PROVE  IInv'
  BY <1>1, <1>4, DropStep DEF ExpireView, CatalogueTypeOK
<1>5. ASSUME NEW i \in Instances, ExpireSnapshot(i)
      PROVE  IInv'
  BY <1>1, <1>5, DropStep DEF ExpireSnapshot, CatalogueTypeOK
<1>6. ASSUME NEW i \in Instances, Reconnect(i)
      PROVE  IInv'
  BY <1>6, DropStep DEF Reconnect, CatalogueTypeOK, cacheVars
<1> QED
  BY <1>2, <1>3, <1>4, <1>5, <1>6

-----------------------------------------------------------------------------
(* Writes.                                                                  *)

\* A mark leaves a copy of the program behind by itself alone.
LEMMA MarkFresh ==
    ASSUME CatalogueTypeOK, MarkInventoryPreheated, NEW copy \in Copies, NEW r \in Rows, Fresh(copy, r)
    PROVE  Fresh(copy, r)'
<1>1. /\ ver' = Written({"program"}) /\ silent' = silent \cup {ver'["program"]}
  BY DEF MarkInventoryPreheated
<1>2. /\ "program" \in Rows /\ ver["program"] \in Nat
      /\ ver'["program"] = ver["program"] + 1
      /\ \A q \in Rows : q # "program" => ver'[q] = ver[q]
  BY <1>1, CatalogueAssumption DEF Written, CatalogueTypeOK
<1>3. CASE r = "program"
  <2>1. copy \in Int /\ UpToMarks(copy, ver["program"])
    BY <1>3 DEF Fresh, Copies, NoCopy
  <2>2. copy # NoCopy => copy <= ver["program"] + 1
    BY <1>2, <2>1 DEF UpToMarks
  <2>3. ASSUME copy # NoCopy, NEW w \in (copy + 1)..(ver["program"] + 1)
        PROVE  w \in silent'
    BY <1>1, <1>2, <2>1, <2>3 DEF UpToMarks
  <2> QED
    BY <1>2, <1>3, <2>2, <2>3 DEF Fresh, UpToMarks
<1>4. CASE r # "program"
  BY <1>2, <1>4 DEF Fresh, Current
<1> QED
  BY <1>3, <1>4

LEMMA MarkStep ==
    ASSUME IInv, MarkInventoryPreheated
    PROVE  IInv'
<1> USE DEF IInv
<1>1. /\ UNCHANGED <<l2, view, snapshot, loader, writer, inbox, online, edits, faults, excused>>
      /\ ver' \in [Rows -> Nat] /\ silent' \subseteq Nat /\ IsFiniteSet(silent')
  <2>1. ver' \in [Rows -> Nat] /\ ver'["program"] \in Nat
    BY CatalogueAssumption DEF MarkInventoryPreheated, Written, CatalogueTypeOK
  <2>2. IsFiniteSet(silent \cup {ver'["program"]})
    BY FS_AddElement DEF CatalogueTypeOK
  <2> QED
    BY <2>1, <2>2 DEF MarkInventoryPreheated, cacheVars, CatalogueTypeOK
<1>2. CatalogueTypeOK'
  BY <1>1 DEF CatalogueTypeOK
<1>3. WriteSteps'
  BY <1>1 DEF WriteSteps, Loading, RowAt
<1>4. /\ KeysPending' = KeysPending /\ \A j \in Instances, t \in Topics : Pending(j, t)' = Pending(j, t)
      /\ \A j \in Instances : Loading(j)' = Loading(j) /\ RowAt(j)' = RowAt(j)
  BY <1>1 DEF KeysPending, Pending, Loading, RowAt
<1> DEFINE FreshThen(c, r) ==
       IF r = "program" THEN c = NoCopy \/ (c <= ver'[r] /\ \A w \in (c + 1)..ver'[r] : w \in silent')
       ELSE c \in {NoCopy, ver'[r]}
<1>5. \A c \in Copies, r \in Rows : Fresh(c, r) => FreshThen(c, r)
  BY MarkFresh DEF Fresh, UpToMarks, Current
<1>6. /\ \A r \in L2Rows : l2[r] \in Copies
      /\ \A i \in Instances : /\ snapshot[i] \in Copies /\ loader[i].fill \in Copies
                              /\ \A r \in Rows : loader[i].got[r] \in Copies /\ view[i][r] \in Copies
  BY ReadRows DEF CatalogueTypeOK
<1>7. \A c, r : FreshThen(c, r) = (IF r = "program" THEN UpToMarks(c, ver[r])' ELSE Current(c, r)')
  BY DEF UpToMarks, Current
<1> SUFFICES ASSUME ~excused
             PROVE  (KeysFollow /\ ViewsFollow /\ SnapshotsFollow)'
  BY <1>1, <1>2, <1>3
<1>8. KeysFollow'
  <2>1. \A r \in Rows \ {"category"} :
          \/ KeysPending
          \/ /\ r \in L2Rows => FreshThen(l2[r], r)
             /\ \A i \in Instances :
                  /\ FreshThen(loader[i].got[r], r)
                  /\ Loading(i) /\ RowAt(i) = r => FreshThen(loader[i].fill, r)
    BY <1>5, <1>6 DEF KeysFollow
  <2> QED
    BY <1>1, <1>4, <2>1 DEF KeysFollow, Fresh, UpToMarks, Current
<1>9. ViewsFollow'
  <2>1. \A i \in Instances : \A r \in Rows \ {"category"} :
          FreshThen(view[i][r], r) \/ Pending(i, "detail")
    BY <1>5, <1>6 DEF ViewsFollow
  <2> QED
    BY <1>1, <1>4, <2>1 DEF ViewsFollow, Fresh, UpToMarks, Current, Topics
<1>10. SnapshotsFollow'
  <2>1. \A i \in Instances :
          \/ Pending(i, "category")
          \/ /\ FreshThen(snapshot[i], "category")
             /\ Loading(i) /\ RowAt(i) = "category" => FreshThen(loader[i].fill, "category")
    BY <1>5, <1>6, CatalogueAssumption DEF SnapshotsFollow
  <2> QED
    BY <1>1, <1>4, <2>1 DEF SnapshotsFollow, Fresh, UpToMarks, Current, Topics
<1> QED
  BY <1>8, <1>9, <1>10

\* The transaction of a write: what it makes old is announced by the place of
\* its handler, before the DEL or before the message.
LEMMA CommitStep ==
    ASSUME IInv, NEW i \in Instances, NEW topic \in Topics, NEW changed, NEW found,
           Commit(i, topic, changed, found),
           topic = "detail" => "category" \notin changed,
           topic = "category" => changed \subseteq {"category"},
           l2' \in [L2Keys -> Copies],
           \A r \in L2Rows : l2'[r] \in {NoCopy, l2[r]}
    PROVE  IInv'
<1> USE DEF IInv, Commit
<1> DEFINE at == IF topic = "category" THEN "snapshot" ELSE "keys"
<1>1. /\ ver' \in [Rows -> Nat]
      /\ \A r \in Rows : r \notin changed => ver'[r] = ver[r]
  BY DEF Written, CatalogueTypeOK
<1>2. /\ writer' \in [Instances -> [at : {"idle", "keys", "view", "snapshot", "publish"},
                                    topic : Topics]]
      /\ writer'[i] = [at |-> at, topic |-> topic]
      /\ \A j \in Instances : j # i => writer'[j] = writer[j]
  BY DEF CatalogueTypeOK
<1>3. CatalogueTypeOK'
  BY <1>1, <1>2 DEF CatalogueTypeOK
<1>4. \A j \in Instances : Loading(j)' = Loading(j) /\ RowAt(j)' = RowAt(j)
  BY DEF Loading, RowAt
<1>5. WriteSteps'
  BY <1>2, <1>4 DEF WriteSteps, Topics
<1>6. /\ KeysPending => KeysPending'
      /\ \A j \in Instances, t \in Topics : Pending(j, t) => Pending(j, t)'
      /\ \A j \in Instances : Pending(j, topic)'
  BY <1>2 DEF KeysPending, Pending
<1> SUFFICES ASSUME ~excused
             PROVE  (KeysFollow /\ ViewsFollow /\ SnapshotsFollow)'
  BY <1>3, <1>5
<1>7. CASE topic = "detail"
  <2>1. KeysPending'
    BY <1>2, <1>7 DEF KeysPending
  <2>2. KeysFollow'
    BY <2>1 DEF KeysFollow
  <2>3. ViewsFollow'
    BY <1>6, <1>7 DEF ViewsFollow
  <2>4. SnapshotsFollow'
    BY <1>1, <1>4, <1>6, <1>7, CatalogueAssumption DEF SnapshotsFollow, Fresh, UpToMarks, Current, Topics
  <2> QED
    BY <2>2, <2>3, <2>4
<1>8. CASE topic = "category"
  <2>1. \A r \in Rows \ {"category"} : ver'[r] = ver[r]
    BY <1>1, <1>8
  <2>2. KeysFollow'
    BY <1>4, <1>6, <2>1 DEF KeysFollow, Fresh, UpToMarks, Current
  <2>3. ViewsFollow'
    BY <1>6, <2>1 DEF ViewsFollow, Fresh, UpToMarks, Current, Topics
  <2>4. SnapshotsFollow'
    BY <1>6, <1>8 DEF SnapshotsFollow
  <2> QED
    BY <2>2, <2>3, <2>4
<1> QED
  BY <1>7, <1>8 DEF Topics

LEMMA WriteStep ==
    ASSUME IInv, NEW i \in Instances, Write(i)
    PROVE  IInv'
<1>1. "detail" \in Topics /\ "category" \in Topics /\ NoCopy \in Copies
  BY DEF Topics, Copies
<1>2. /\ UNCHANGED l2 => l2' \in [L2Keys -> Copies] /\ \A r \in L2Rows : l2'[r] \in {NoCopy, l2[r]}
      /\ l2' = [k \in L2Keys |-> IF k = "program" THEN NoCopy ELSE l2[k]]
           => l2' \in [L2Keys -> Copies] /\ \A r \in L2Rows : l2'[r] \in {NoCopy, l2[r]}
  BY <1>1, ReadRows DEF IInv, CatalogueTypeOK
<1>3. CASE CreateProgram(i) \/ UpdateProgram(i)
  BY <1>1, <1>2, <1>3, CommitStep DEF CreateProgram, InsertWithSession, UpdateProgram
<1>4. CASE InvalidProgram(i)
  BY <1>1, <1>2, <1>4, CommitStep DEF InvalidProgram
<1>5. CASE CreateProgramShowTime(i) \/ UpdateProgramShowTime(i)
  BY <1>1, <1>2, <1>5, CommitStep DEF CreateProgramShowTime, UpdateProgramShowTime
<1>6. CASE CreateTicketCategory(i) \/ ResetProgram(i)
  BY <1>1, <1>2, <1>6, CommitStep DEF CreateTicketCategory, ResetProgram
<1>7. CASE BatchCreateProgramCategories(i)
  BY <1>1, <1>2, <1>7, CommitStep DEF BatchCreateProgramCategories
<1> QED
  BY <1>3, <1>4, <1>5, <1>6, <1>7 DEF Write

-----------------------------------------------------------------------------
(* Invalidation.                                                            *)

\* A handler of a write that takes its next step and is not done.
LEMMA HandlerMoves ==
    ASSUME CatalogueTypeOK, NEW i \in Instances, NEW at \in {"view", "publish"},
           writer' = [writer EXCEPT ![i].at = at]
    PROVE  /\ writer' \in [Instances -> [at : {"idle", "keys", "view", "snapshot", "publish"},
                                         topic : Topics]]
           /\ writer'[i].at = at
           /\ \A j \in Instances : writer'[j].topic = writer[j].topic
           /\ \A j \in Instances : j # i => writer'[j] = writer[j]
BY DEF CatalogueTypeOK

\* The DEL: no load is under way, so that no old row remains anywhere but in
\* the views.
LEMMA DeleteKeysStep ==
    ASSUME IInv, NEW i \in Instances, DeleteKeys(i)
    PROVE  IInv'
<1> USE DEF IInv, DeleteKeys
<1>1. /\ writer' \in [Instances -> [at : {"idle", "keys", "view", "snapshot", "publish"},
                                    topic : Topics]]
      /\ writer'[i].at = "view"
      /\ \A j \in Instances : writer'[j].topic = writer[j].topic
      /\ \A j \in Instances : j # i => writer'[j] = writer[j]
  BY HandlerMoves
<1>2. /\ l2' \in [L2Keys -> Copies]
      /\ \A r \in L2Rows : l2'[r] = NoCopy
  BY ReadRows DEF CatalogueTypeOK, Copies
<1>3. excused' \in BOOLEAN /\ (~excused' => ~excused /\ ~AnyLoad)
  BY DEF CatalogueTypeOK
<1>4. CatalogueTypeOK'
  BY <1>1, <1>2, <1>3 DEF CatalogueTypeOK
<1>5. \A j \in Instances : Loading(j)' = Loading(j) /\ RowAt(j)' = RowAt(j)
  BY DEF Loading, RowAt
<1>6. WriteSteps'
  BY <1>1, <1>5 DEF WriteSteps
<1>7. \A j \in Instances, t \in Topics : Pending(j, t) => Pending(j, t)'
  BY <1>1 DEF Pending
<1> SUFFICES ASSUME ~excused, ~AnyLoad
             PROVE  (KeysFollow /\ ViewsFollow /\ SnapshotsFollow)'
  BY <1>3, <1>4, <1>6
<1>8. \A j \in Instances : ~Loading(j)
  BY DEF AnyLoad
<1>9. \A j \in Instances : loader[j].fill = NoCopy /\ \A r \in Rows : loader[j].got[r] = NoCopy
  BY <1>8 DEF WriteSteps, NoView
<1>10. KeysFollow'
  BY <1>2, <1>9 DEF KeysFollow, Fresh, UpToMarks, Current
<1>11. ViewsFollow'
  BY <1>7 DEF ViewsFollow, Fresh, UpToMarks, Current, Topics
<1>12. SnapshotsFollow'
  BY <1>5, <1>7 DEF SnapshotsFollow, Fresh, UpToMarks, Current, Topics
<1> QED
  BY <1>10, <1>11, <1>12

\* A process drops its own view or snapshot and goes on to the message.
LEMMA InvalidateOwnStep ==
    ASSUME IInv, NEW i \in Instances, InvalidateView(i) \/ InvalidateCategorySnapshot(i)
    PROVE  IInv'
<1> USE DEF IInv, InvalidateView, InvalidateCategorySnapshot
<1>1. /\ writer' \in [Instances -> [at : {"idle", "keys", "view", "snapshot", "publish"},
                                    topic : Topics]]
      /\ writer[i].at # "keys"
      /\ writer'[i].at = "publish"
      /\ \A j \in Instances : writer'[j].topic = writer[j].topic
      /\ \A j \in Instances : j # i => writer'[j] = writer[j]
  BY HandlerMoves
<1>2. /\ view' \in [Instances -> [Rows -> Copies]]
      /\ \A j \in Instances : view'[j] \in {NoView, view[j]}
      /\ snapshot' \in [Instances -> Copies]
      /\ \A j \in Instances : snapshot'[j] \in {NoCopy, snapshot[j]}
  <2>1. NoCopy \in Copies /\ NoView \in [Rows -> Copies]
    BY DEF Copies, NoView
  <2>2. CASE InvalidateView(i)
    BY <2>1, <2>2 DEF CatalogueTypeOK
  <2>3. CASE InvalidateCategorySnapshot(i)
    BY <2>1, <2>3 DEF CatalogueTypeOK
  <2> QED
    BY <2>2, <2>3
<1>3. excused' \in BOOLEAN /\ (~excused' => ~excused)
  BY DEF CatalogueTypeOK
<1>4. CatalogueTypeOK'
  BY <1>1, <1>2, <1>3 DEF CatalogueTypeOK
<1>5. \A j \in Instances : Loading(j)' = Loading(j) /\ RowAt(j)' = RowAt(j)
  BY DEF Loading, RowAt
<1>6. WriteSteps'
  BY <1>1, <1>5 DEF WriteSteps
<1>7. /\ KeysPending => KeysPending'
      /\ \A j \in Instances, t \in Topics : Pending(j, t) => Pending(j, t)'
  BY <1>1 DEF KeysPending, Pending
<1>8. KeysFollow => KeysFollow'
  BY <1>5, <1>7 DEF KeysFollow, Fresh, UpToMarks, Current
<1>9. \A r \in Rows : NoView[r] = NoCopy
  BY DEF NoView
<1>10. ViewsFollow => ViewsFollow'
  BY <1>2, <1>7, <1>9 DEF ViewsFollow, Fresh, UpToMarks, Current, Topics
<1>11. SnapshotsFollow => SnapshotsFollow'
  BY <1>2, <1>5, <1>7 DEF SnapshotsFollow, Fresh, UpToMarks, Current, Topics
<1> QED
  BY <1>3, <1>4, <1>6, <1>8, <1>10, <1>11

\* The message takes the place of the handler, for every subscriber.
LEMMA PublishStep ==
    ASSUME IInv, NEW i \in Instances, Publish(i)
    PROVE  IInv'
<1> USE DEF IInv, Publish, cacheVars
<1> DEFINE topic == writer[i].topic
<1>1. /\ writer' \in [Instances -> [at : {"idle", "keys", "view", "snapshot", "publish"},
                                    topic : Topics]]
      /\ writer[i].at # "keys"
      /\ writer'[i].at = "idle"
      /\ \A j \in Instances : j # i => writer'[j] = writer[j]
  BY DEF CatalogueTypeOK, NoWrite, Topics
<1>2. topic \in Topics
  BY DEF CatalogueTypeOK
<1>3. /\ inbox' \in [Instances -> [Topics -> Nat]]
      /\ \A j \in Instances, t \in Topics : inbox[j][t] > 0 => inbox'[j][t] > 0
      /\ \A j \in Instances : online[j] => inbox'[j][topic] > 0
  <2> DEFINE more(j) == [inbox[j] EXCEPT ![topic] = @ + 1]
  <2>1. inbox' = [j \in Instances |-> IF online[j] THEN more(j) ELSE inbox[j]]
    OBVIOUS
  <2>2. \A j \in Instances :
          /\ inbox[j] \in [Topics -> Nat] /\ more(j) \in [Topics -> Nat]
          /\ \A t \in Topics : inbox[j][t] > 0 => more(j)[t] > 0
          /\ more(j)[topic] > 0
    BY <1>2 DEF CatalogueTypeOK
  <2> QED
    BY <2>1, <2>2
<1>4. excused' \in BOOLEAN /\ (~excused' => ~excused /\ \A j \in Instances : online[j])
  BY DEF CatalogueTypeOK
<1>5. CatalogueTypeOK'
  BY <1>1, <1>3, <1>4 DEF CatalogueTypeOK
<1>6. \A j \in Instances : Loading(j)' = Loading(j) /\ RowAt(j)' = RowAt(j)
  BY DEF Loading, RowAt
<1>7. WriteSteps'
  BY <1>1, <1>6 DEF WriteSteps
<1> SUFFICES ASSUME ~excused, \A j \in Instances : online[j]
             PROVE  (KeysFollow /\ ViewsFollow /\ SnapshotsFollow)'
  BY <1>4, <1>5, <1>7
<1>8. /\ KeysPending => KeysPending'
      /\ \A j \in Instances, t \in Topics : Pending(j, t) => Pending(j, t)'
  BY <1>1, <1>3 DEF KeysPending, Pending
<1>9. KeysFollow'
  BY <1>6, <1>8 DEF KeysFollow, Fresh, UpToMarks, Current
<1>10. ViewsFollow'
  BY <1>8 DEF ViewsFollow, Fresh, UpToMarks, Current, Topics
<1>11. SnapshotsFollow'
  BY <1>6, <1>8 DEF SnapshotsFollow, Fresh, UpToMarks, Current, Topics
<1> QED
  BY <1>9, <1>10, <1>11

\* A failed DEL or PUBLISH excuses.
LEMMA InvalidationFailsStep ==
    ASSUME IInv, NEW i \in Instances, InvalidationFails(i)
    PROVE  IInv'
<1> USE DEF IInv, InvalidationFails, cacheVars
<1>1. /\ writer' \in [Instances -> [at : {"idle", "keys", "view", "snapshot", "publish"},
                                    topic : Topics]]
      /\ writer'[i].at = "idle"
      /\ \A j \in Instances : j # i => writer'[j] = writer[j]
  BY DEF CatalogueTypeOK, NoWrite, Topics
<1>2. CatalogueTypeOK'
  BY <1>1 DEF CatalogueTypeOK
<1>3. WriteSteps'
  BY <1>1 DEF WriteSteps, Loading, RowAt
<1> QED
  BY <1>2, <1>3

\* A message that is handled while no load is under way leaves nothing old in
\* the cache it is for.
LEMMA DispatchStep ==
    ASSUME IInv, NEW i \in Instances, NEW topic \in Topics, Dispatch(i, topic)
    PROVE  IInv'
<1> USE DEF IInv, Dispatch
<1>1. NoCopy \in Copies /\ NoView \in [Rows -> Copies] /\ \A r \in Rows : NoView[r] = NoCopy
  BY DEF Copies, NoView
<1>2. /\ inbox' \in [Instances -> [Topics -> Nat]]
      /\ \A j \in Instances, t \in Topics : j # i \/ t # topic => inbox'[j][t] = inbox[j][t]
  BY DEF CatalogueTypeOK
<1>3. /\ view' \in [Instances -> [Rows -> Copies]]
      /\ \A j \in Instances : view'[j] \in {NoView, view[j]}
      /\ topic = "detail" => view'[i] = NoView
      /\ snapshot' \in [Instances -> Copies]
      /\ \A j \in Instances : snapshot'[j] \in {NoCopy, snapshot[j]}
      /\ topic = "category" => snapshot'[i] = NoCopy
  BY <1>1 DEF CatalogueTypeOK
<1>4. excused' \in BOOLEAN /\ (~excused' => ~excused /\ ~Loading(i))
  BY DEF CatalogueTypeOK
<1>5. CatalogueTypeOK'
  BY <1>2, <1>3, <1>4 DEF CatalogueTypeOK
<1>6. \A j \in Instances : Loading(j)' = Loading(j) /\ RowAt(j)' = RowAt(j)
  BY DEF Loading, RowAt
<1>7. WriteSteps'
  BY <1>6 DEF WriteSteps
<1> SUFFICES ASSUME ~excused, ~Loading(i)
             PROVE  (KeysFollow /\ ViewsFollow /\ SnapshotsFollow)'
  BY <1>4, <1>5, <1>7
<1>8. /\ KeysPending' = KeysPending
      /\ \A j \in Instances, t \in Topics : j # i \/ t # topic => Pending(j, t)' = Pending(j, t)
  BY <1>2 DEF KeysPending, Pending
<1>9. KeysFollow'
  BY <1>6, <1>8 DEF KeysFollow, Fresh, UpToMarks, Current
<1>10. ViewsFollow'
  BY <1>1, <1>3, <1>8 DEF ViewsFollow, Fresh, UpToMarks, Current, Topics
<1>11. SnapshotsFollow'
  BY <1>3, <1>6, <1>8 DEF SnapshotsFollow, Fresh, UpToMarks, Current, Topics
<1> QED
  BY <1>9, <1>10, <1>11

\* A subscription that breaks excuses unless nothing was under way to it.
LEMMA DisconnectStep ==
    ASSUME IInv, NEW i \in Instances, Disconnect(i)
    PROVE  IInv'
<1> USE DEF IInv, Disconnect, cacheVars
<1>1. NoMessages \in [Topics -> Nat]
  BY DEF NoMessages
<1>2. /\ inbox' \in [Instances -> [Topics -> Nat]]
      /\ inbox[i] = NoMessages => inbox' = inbox
  BY <1>1 DEF CatalogueTypeOK
<1>3. excused' \in BOOLEAN /\ (~excused' => ~excused /\ inbox[i] = NoMessages)
  BY DEF CatalogueTypeOK
<1>4. CatalogueTypeOK'
  BY <1>2, <1>3 DEF CatalogueTypeOK
<1>5. WriteSteps'
  BY DEF WriteSteps, Loading, RowAt
<1> SUFFICES ASSUME ~excused, inbox' = inbox
             PROVE  (KeysFollow /\ ViewsFollow /\ SnapshotsFollow)'
  BY <1>2, <1>3, <1>4, <1>5
<1> QED
  BY DEF KeysFollow, ViewsFollow, SnapshotsFollow, Fresh, UpToMarks, Current, KeysPending, Pending, Loading, RowAt

-----------------------------------------------------------------------------
(* The theorems.                                                            *)

LEMMA InitInv == CatalogueInit => IInv
<1> SUFFICES ASSUME CatalogueInit
             PROVE  IInv
  OBVIOUS
<1> USE DEF CatalogueInit
<1>1. NoCopy \in Copies /\ NoView \in [Rows -> Copies] /\ \A r \in Rows : NoView[r] = NoCopy
  BY DEF Copies, NoView
<1>2. CatalogueTypeOK
  <2>1. NoLoad \in [at : {0} \cup Reads, got : [Rows -> Copies], fill : Copies]
    BY <1>1 DEF NoLoad
  <2>2. NoMessages \in [Topics -> Nat]
    BY DEF NoMessages
  <2>3. ver \in [Rows -> Nat]
    OBVIOUS
  <2>4. silent \subseteq Nat /\ IsFiniteSet(silent)
    BY FS_EmptySet
  <2> QED
    BY <1>1, <2>1, <2>2, <2>3, <2>4 DEF CatalogueTypeOK, NoWrite, Topics
<1>3. \A i \in Instances : ~Loading(i) /\ loader[i].fill = NoCopy /\ loader[i].got = NoView
  BY DEF Loading, NoLoad
<1>4. WriteSteps
  BY <1>3 DEF WriteSteps, NoWrite
<1>5. KeysFollow /\ ViewsFollow /\ SnapshotsFollow
  BY <1>1, <1>3, ReadRows DEF KeysFollow, ViewsFollow, SnapshotsFollow, Fresh, UpToMarks, Current
<1> QED
  BY <1>2, <1>4, <1>5 DEF IInv

LEMMA NextInv == IInv /\ [CatalogueNext]_catalogueVars => IInv'
<1> SUFFICES ASSUME IInv, [CatalogueNext]_catalogueVars
             PROVE  IInv'
  OBVIOUS
<1>1. CASE UNCHANGED catalogueVars
  BY <1>1 DEF catalogueVars, cacheVars, IInv, CatalogueTypeOK, WriteSteps, KeysFollow, ViewsFollow, SnapshotsFollow,
              Fresh, UpToMarks, Current, KeysPending, Pending, Loading, RowAt
<1>2. CASE FindShowTime \/ \E k \in L2Keys : ExpireKey(k)
  BY <1>2, ExpiryStep
<1>3. ASSUME NEW i \in Instances, Read(i)
      PROVE  IInv'
  BY <1>3, GetStep, LookupStep, FillStep DEF Read
<1>4. ASSUME NEW i \in Instances, Expire(i) \/ Reconnect(i)
      PROVE  IInv'
  BY <1>4, ExpiryStep DEF Expire
<1>5. ASSUME NEW i \in Instances, Invalidate(i)
      PROVE  IInv'
  BY <1>5, DeleteKeysStep, InvalidateOwnStep, PublishStep DEF Invalidate
<1>6. ASSUME NEW i \in Instances, Write(i)
      PROVE  IInv'
  BY <1>6, WriteStep
<1> QED
  BY <1>1, <1>2, <1>3, <1>4, <1>5, <1>6, MarkStep, InvalidationFailsStep, DispatchStep, DisconnectStep
     DEF CatalogueNext

\* The rows, the caches and the calls under way keep their types.
THEOREM CatalogueTypeCorrect == CatalogueSpec => []CatalogueTypeOK
<1>1. IInv => CatalogueTypeOK
  BY DEF IInv
<1> QED
  BY <1>1, InitInv, NextInv, PTL DEF CatalogueSpec

\* Once the writes of the catalogue have been published and the messages handled,
\* no cached view, snapshot or key of Redis is older than the database, but for the
\* preheat status of the program, unless an invalidation was lost or met a load that
\* was under way.
THEOREM CachesFollow == CatalogueSpec => []ViewsCurrent
<1>1. IInv => ViewsCurrent
  <2> SUFFICES ASSUME IInv, Quiet, ~excused
               PROVE  /\ \A i \in Instances :
                           /\ snapshot[i] \in {NoCopy, ListProgramCategories}
                           /\ \A matches \in BOOLEAN :
                              \A info \in PagePrograms(matches) \cup ListHomePrograms(matches) :
                                 /\ UpToMarks(view[i]["program"], info["program"])
                                 /\ \A r \in Rows \cap {"show", "ticket"} :
                                       view[i][r] \in {NoCopy, info[r]}
                      /\ UpToMarks(l2["program"], ver["program"])
                      /\ \A k \in L2Rows \ {"program"} : Current(l2[k], k)
    BY DEF ViewsCurrent
  <2> USE DEF IInv
  <2>1. ~KeysPending /\ \A j \in Instances, t \in Topics : ~Pending(j, t)
    BY DEF Quiet, KeysPending, Pending, NoMessages
  <2>2. \A k \in L2Rows : Fresh(l2[k], k)
    BY <2>1, ReadRows DEF KeysFollow, L2Rows
  <2>3. \A i \in Instances : snapshot[i] \in {NoCopy, ListProgramCategories}
    BY <2>1, CatalogueAssumption
       DEF SnapshotsFollow, Fresh, Current, ListProgramCategories, FindAll, Row, Topics
  <2>4. \A i \in Instances : \A r \in Rows \ {"category"} : Fresh(view[i][r], r)
    BY <2>1 DEF ViewsFollow, Topics
  <2>5. \A matches \in BOOLEAN :
        \A info \in PagePrograms(matches) \cup ListHomePrograms(matches) :
        \A r \in Rows \cap {"program", "show", "ticket"} : info[r] = ver[r]
    BY DEF PagePrograms, ListHomePrograms, ToProgramListInfo, FindByProgramId, Row
  <2>6. "program" \in Rows \ {"category"} /\ "program" \in L2Rows
    BY CatalogueAssumption DEF L2Rows
  <2>7. ASSUME NEW i \in Instances, NEW matches \in BOOLEAN,
               NEW info \in PagePrograms(matches) \cup ListHomePrograms(matches)
        PROVE  /\ UpToMarks(view[i]["program"], info["program"])
               /\ \A r \in Rows \cap {"show", "ticket"} : view[i][r] \in {NoCopy, info[r]}
    <3>1. UpToMarks(view[i]["program"], info["program"])
      BY <2>4, <2>5, <2>6 DEF Fresh
    <3>2. \A r \in Rows \cap {"show", "ticket"} : view[i][r] \in {NoCopy, info[r]}
      BY <2>4, <2>5 DEF Fresh, Current
    <3> QED
      BY <3>1, <3>2
  <2>8. UpToMarks(l2["program"], ver["program"])
    BY <2>2, <2>6 DEF Fresh
  <2>9. \A k \in L2Rows \ {"program"} : Current(l2[k], k)
    BY <2>2 DEF Fresh
  <2> QED
    BY <2>3, <2>7, <2>8, <2>9
<1> QED
  BY <1>1, InitInv, NextInv, PTL DEF CatalogueSpec
=============================================================================
