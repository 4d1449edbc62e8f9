----------------------------- MODULE SeatLedger -----------------------------
(***************************************************************************)
(* The seats of one ticket category in program-rpc: the table d_seat, which *)
(* decides, and the ledger in Redis, which hands seats out.  A freeze takes *)
(* seats in the ledger and then in the table; confirm and release change    *)
(* the table and then the ledger; a loader rebuilds the ledger from the     *)
(* table when its stock key is missing.  Every Lua script and every         *)
(* transaction is atomic, nothing spans both stores.                        *)
(***************************************************************************)
EXTENDS Integers, FiniteSets

CONSTANTS
    Seats,
    Tokens,      \* freeze tokens, one per order number
    CountOf,     \* number of tickets of the order
    Clients,     \* RPC handlers that run at the same time
    InstanceOf,  \* the process of a handler: the keyed locks are local to it
    Loaders,     \* bound: loads that run at the same time
    MaxLosses,   \* bound: expired keys, failed loads, calls of PrimeSeatLedger
    None,
    Hazards      \* which of LedgerHazards can happen

(***************************************************************************)
(* overlap: two RPCs about the same token run at the same time               *)
(* reply:   a call to Redis or MySQL fails, with or without effect, or the   *)
(*          process dies                                                    *)
(* evict:   a key of the ledger expires                                      *)
(* prime:   PrimeSeatLedger is called during the sale                        *)
(***************************************************************************)
LedgerHazards == {"overlap", "reply", "evict", "prime"}

ASSUME LedgerAssumption ==
    /\ IsFiniteSet(Seats)
    /\ CountOf \in [Tokens -> Nat \ {0}]
    /\ None \notin Tokens
    /\ MaxLosses \in Nat
    /\ Hazards \subseteq LedgerHazards

VARIABLES
    status, holder,           \* d_seat.seat_status and freeze_token
    ready, stock,             \* does the stock key exist, its value
    available, sold, frozen,  \* the seat sets of the ledger; frozen per token
    loading,                  \* does the loading key exist
    pc, op, tok, seen,        \* per client: step, RPC, token, seats read
    losses,                   \* so many of MaxLosses have happened
    lpc, sync, rows, keys     \* per loader: step, run by PrimeSeatLedger?, rows to
                              \* add, frozen keys read

tableVars == <<status, holder>>
ledgerVars == <<ready, stock, available, sold, frozen>>
clientVars == <<pc, op, tok, seen>>
loaderVars == <<loading, lpc, sync, rows, keys, losses>>
vars == <<tableVars, ledgerVars, clientVars, loaderVars>>

\* FindByFreezeToken
HeldBy(t) == {s \in Seats : holder[s] = t}

AllIn(S, x) == \A s \in S : status[s] = x

Steps == {"idle", "check", "table", "script", "persist", "undo", "ledger", "tx"}

LoadSteps == {"idle", "readAvailable", "readFrozen", "readSold", "keys", "wipe", "stock", "fill"}

NoRows == [available |-> {}, sold |-> {}, frozen |-> [t \in Tokens |-> {}]]

TableTypeOK ==
    /\ status \in [Seats -> {"available", "frozen", "sold"}]
    /\ holder \in [Seats -> Tokens \cup {None}]

LedgerTypeOK ==
    /\ ready \in BOOLEAN
    /\ stock \in Nat
    /\ available \subseteq Seats
    /\ sold \subseteq Seats
    /\ frozen \in [Tokens -> SUBSET Seats]

\* A handler under way has a token, and its step fits its RPC.
ClientTypeOK ==
    /\ pc \in [Clients -> Steps]
    /\ op \in [Clients -> {"none", "freeze", "confirm", "release"}]
    /\ tok \in [Clients -> Tokens \cup {None}]
    /\ seen \in [Clients -> SUBSET Seats]
    /\ \A c \in Clients :
          /\ pc[c] = "idle" <=> tok[c] = None
          /\ pc[c] = "idle" <=> op[c] = "none"
          /\ pc[c] \in {"check", "table", "persist", "undo"} => op[c] = "freeze"
          /\ pc[c] \in {"ledger", "tx"} => op[c] # "freeze"

LoaderTypeOK ==
    /\ loading \in BOOLEAN
    /\ losses \in 0..MaxLosses
    /\ lpc \in [Loaders -> LoadSteps]
    /\ sync \in [Loaders -> BOOLEAN]
    /\ rows \in [Loaders -> [available : SUBSET Seats, sold : SUBSET Seats,
                             frozen : [Tokens -> SUBSET Seats]]]
    /\ keys \in [Loaders -> SUBSET Tokens]

\* Well-formed table, ledger, handlers and loaders; the stock key, which the
\* freeze script decrements, is never negative.
TypeOK == TableTypeOK /\ LedgerTypeOK /\ ClientTypeOK /\ LoaderTypeOK

\* PrimeSeatLedger has run before the sale.
Init ==
    /\ status = [s \in Seats |-> "available"]
    /\ holder = [s \in Seats |-> None]
    /\ ready = TRUE
    /\ stock = Cardinality(Seats)
    /\ available = Seats
    /\ sold = {}
    /\ frozen = [t \in Tokens |-> {}]
    /\ loading = FALSE
    /\ pc = [c \in Clients |-> "idle"]
    /\ op = [c \in Clients |-> "none"]
    /\ tok = [c \in Clients |-> None]
    /\ seen = [c \in Clients |-> {}]
    /\ losses = 0
    /\ lpc = [l \in Loaders |-> "idle"]
    /\ sync = [l \in Loaders |-> FALSE]
    /\ rows = [l \in Loaders |-> NoRows]
    /\ keys = [l \in Loaders |-> {}]

-----------------------------------------------------------------------------
Goto(c, step) ==
    /\ pc' = [pc EXCEPT ![c] = step]
    /\ UNCHANGED <<op, tok>>

\* The handler returns.
Leave(c) ==
    /\ pc' = [pc EXCEPT ![c] = "idle"]
    /\ op' = [op EXCEPT ![c] = "none"]
    /\ tok' = [tok EXCEPT ![c] = None]
    /\ seen' = [seen EXCEPT ![c] = {}]

\* The keyed locks: freezes exclude each other, confirm and release of a token
\* exclude each other, and the two kinds of key are different.
Locked(c, t, kind) ==
    \E d \in Clients :
        /\ pc[d] # "idle"
        /\ InstanceOf[d] = InstanceOf[c]
        /\ IF kind = "freeze" THEN op[d] = "freeze" ELSE op[d] # "freeze" /\ tok[d] = t

Begin(c, t, kind) ==
    /\ pc[c] = "idle"
    /\ ~Locked(c, t, kind)
    /\ "overlap" \in Hazards \/ \A d \in Clients : tok[d] # t
    /\ op' = [op EXCEPT ![c] = kind]
    /\ tok' = [tok EXCEPT ![c] = t]

\* Schedule: SETNX of the loading key, then a goroutine that loads.
Schedule ==
    \/ loading /\ UNCHANGED loaderVars
    \/ /\ ~loading
       /\ loading' = TRUE
       /\ \E l \in Loaders : lpc[l] = "idle" /\ lpc' = [lpc EXCEPT ![l] = "readAvailable"]
       /\ UNCHANGED <<sync, rows, keys, losses>>

-----------------------------------------------------------------------------
(***************************************************************************)
(* The scripts                                                              *)
(***************************************************************************)
\* Faulty: the frozen key is not deleted.
ReleaseScriptKeepsKey(t) ==
    /\ available' = available \cup frozen[t]
    /\ stock' = stock + Cardinality(frozen[t])
    /\ UNCHANGED <<ready, sold, frozen>>

\* freeze_auto_assigned_seats.lua answers 1 with the seats S.
FreezeScript(t, S) ==
    /\ stock >= CountOf[t]
    /\ \/ /\ frozen[t] # {}
          /\ S = frozen[t]
          /\ UNCHANGED ledgerVars
       \/ /\ frozen[t] = {}
          /\ S \subseteq available
          /\ Cardinality(S) = CountOf[t]
          /\ available' = available \ S
          /\ frozen' = [frozen EXCEPT ![t] = S]
          /\ stock' = stock - CountOf[t]
          /\ UNCHANGED <<ready, sold>>

\* release_frozen_seats.lua
ReleaseScript(t) ==
    /\ available' = available \cup frozen[t]
    /\ stock' = stock + Cardinality(frozen[t])
    /\ frozen' = [frozen EXCEPT ![t] = {}]
    /\ UNCHANGED <<ready, sold>>

\* confirm_frozen_seats.lua
ConfirmScript(t) ==
    /\ sold' = sold \cup frozen[t]
    /\ frozen' = [frozen EXCEPT ![t] = {}]
    /\ UNCHANGED <<ready, stock, available>>

-----------------------------------------------------------------------------
(***************************************************************************)
(* AutoAssignAndFreezeSeats                                                 *)
(***************************************************************************)
FreezeStart(c, t) ==
    /\ Begin(c, t, "freeze")
    /\ seen' = [seen EXCEPT ![c] = frozen[t]]
    /\ pc' = [pc EXCEPT ![c] = IF frozen[t] # {} THEN "check" ELSE "table"]
    /\ UNCHANGED <<tableVars, ledgerVars, loaderVars>>

\* buildExistingSeatFreezeResp: the answer is the freeze of an earlier call, or
\* an error; neither writes.
FreezeExisting(c) ==
    /\ pc[c] = "check"
    /\ Leave(c)
    /\ UNCHANGED <<tableVars, ledgerVars, loaderVars>>

\* Mutant: the table is not asked.
FreezeLookupSkipped(c) ==
    /\ pc[c] = "table"
    /\ Goto(c, "script")
    /\ UNCHANGED <<seen, tableVars, ledgerVars, loaderVars>>

\* Seats of this token in the table only are an error.
FreezeLookup(c) ==
    /\ pc[c] = "table"
    /\ \/ HeldBy(tok[c]) = {} /\ Goto(c, "script") /\ UNCHANGED seen
       \/ HeldBy(tok[c]) # {} /\ Leave(c)
    /\ UNCHANGED <<tableVars, ledgerVars, loaderVars>>

FreezeReserve(c) ==
    /\ pc[c] = "script"
    /\ op[c] = "freeze"
    /\ ready
    /\ \E S \in SUBSET Seats :
          /\ FreezeScript(tok[c], S)
          /\ \/ Goto(c, "persist") /\ seen' = [seen EXCEPT ![c] = S]
             \/ "reply" \in Hazards /\ Leave(c)
    /\ UNCHANGED <<tableVars, loaderVars>>

\* -1 (no stock key) or 0 (not enough seats)
FreezeRefused(c) ==
    /\ pc[c] = "script"
    /\ op[c] = "freeze"
    /\ \/ ~ready /\ Schedule
       \/ /\ ready
          /\ \/ stock < CountOf[tok[c]]
             \/ frozen[tok[c]] = {} /\ Cardinality(available) < CountOf[tok[c]]
          /\ UNCHANGED loaderVars
    /\ Leave(c)
    /\ UNCHANGED <<tableVars, ledgerVars>>

\* The rows of the seats S change together.
SetSeats(S, x, t) ==
    /\ status' = [s \in Seats |-> IF s \in S THEN x ELSE status[s]]
    /\ holder' = [s \in Seats |-> IF s \in S THEN t ELSE holder[s]]

\* Mutant: the status of the rows is not checked.
FreezePersistUnchecked(c) ==
    /\ pc[c] = "persist"
    /\ SetSeats(seen[c], "frozen", tok[c])
    /\ Leave(c)
    /\ UNCHANGED <<ledgerVars, loaderVars>>

\* persistFrozenSeatsToDB
FreezePersist(c) ==
    /\ pc[c] = "persist"
    /\ \/ /\ AllIn(seen[c], "available")
          /\ SetSeats(seen[c], "frozen", tok[c])
          /\ Leave(c)
       \/ /\ ~AllIn(seen[c], "available")
          /\ Goto(c, "undo")
          /\ UNCHANGED <<seen, tableVars>>
    /\ UNCHANGED <<ledgerVars, loaderVars>>

\* The transaction returns an error and has not, or has, committed.
FreezePersistError(c) ==
    /\ "reply" \in Hazards
    /\ pc[c] = "persist"
    /\ \/ UNCHANGED tableVars
       \/ AllIn(seen[c], "available") /\ SetSeats(seen[c], "frozen", tok[c])
    /\ Goto(c, "undo")
    /\ UNCHANGED <<seen, ledgerVars, loaderVars>>

\* ReleaseFrozenSeats, its error is ignored.
FreezeUndo(c) ==
    /\ pc[c] = "undo"
    /\ \/ ready /\ ReleaseScript(tok[c]) /\ UNCHANGED loaderVars
       \/ ~ready /\ Schedule /\ UNCHANGED ledgerVars
       \/ "reply" \in Hazards /\ UNCHANGED <<ledgerVars, loaderVars>>
    /\ Leave(c)
    /\ UNCHANGED tableVars

-----------------------------------------------------------------------------
(***************************************************************************)
(* ConfirmSeatFreeze and ReleaseSeatFreeze                                  *)
(***************************************************************************)
\* loadSeatFreezeDBState finds frozen seats; with sold or mixed ones the
\* handler returns.
SettleStart(c, t, kind) ==
    /\ Begin(c, t, kind)
    /\ HeldBy(t) # {}
    /\ AllIn(HeldBy(t), "frozen")
    /\ seen' = [seen EXCEPT ![c] = HeldBy(t)]
    /\ pc' = [pc EXCEPT ![c] = "ledger"]
    /\ UNCHANGED <<tableVars, ledgerVars, loaderVars>>

\* No seats in the table: release goes on with the ledger alone.
ReleaseUnheld(c, t) ==
    /\ Begin(c, t, "release")
    /\ HeldBy(t) = {}
    /\ pc' = [pc EXCEPT ![c] = "script"]
    /\ UNCHANGED <<seen, tableVars, ledgerVars, loaderVars>>

\* FrozenSeats: as many as in the table, or an error.
SettleLedger(c) ==
    /\ pc[c] = "ledger"
    /\ \/ /\ Cardinality(frozen[tok[c]]) = Cardinality(seen[c])
          /\ seen' = [seen EXCEPT ![c] = frozen[tok[c]]]
          /\ Goto(c, "tx")
       \/ /\ Cardinality(frozen[tok[c]]) # Cardinality(seen[c])
          /\ Leave(c)
    /\ UNCHANGED <<tableVars, ledgerVars, loaderVars>>

\* The seats read from the ledger are still frozen under the token.
SettleTx(c) ==
    LET mine == \A s \in seen[c] : status[s] = "frozen" /\ holder[s] = tok[c]
    IN  /\ pc[c] = "tx"
        /\ \/ /\ mine
              /\ IF op[c] = "confirm"
                 THEN SetSeats(seen[c], "sold", tok[c])
                 ELSE SetSeats(seen[c], "available", None)
              /\ \/ Goto(c, "script") /\ UNCHANGED seen
                 \/ "reply" \in Hazards /\ Leave(c)
           \/ (~mine \/ "reply" \in Hazards) /\ Leave(c) /\ UNCHANGED tableVars
        /\ UNCHANGED <<ledgerVars, loaderVars>>

\* ConfirmFrozenSeats or ReleaseFrozenSeats
SettleScript(c) ==
    /\ pc[c] = "script"
    /\ op[c] # "freeze"
    /\ \/ /\ ready
          /\ IF op[c] = "confirm" THEN ConfirmScript(tok[c]) ELSE ReleaseScript(tok[c])
          /\ UNCHANGED loaderVars
       \/ ~ready /\ Schedule /\ UNCHANGED ledgerVars
       \/ "reply" \in Hazards /\ UNCHANGED <<ledgerVars, loaderVars>>
    /\ Leave(c)
    /\ UNCHANGED tableVars

\* The process dies between two steps.
ClientCrash(c) ==
    /\ "reply" \in Hazards
    /\ pc[c] # "idle"
    /\ Leave(c)
    /\ UNCHANGED <<tableVars, ledgerVars, loaderVars>>

-----------------------------------------------------------------------------
(***************************************************************************)
(* The loader: three queries, a scan of the frozen keys, one DEL and then   *)
(* one command per key or seat.                                             *)
(***************************************************************************)
Lose(hazard) ==
    /\ hazard \in Hazards
    /\ losses < MaxLosses
    /\ losses' = losses + 1

LoadGoto(l, step) == lpc' = [lpc EXCEPT ![l] = step]

SeatRows(x) == {s \in Seats : status[s] = x}

LoadAvailable(l) ==
    /\ lpc[l] = "readAvailable"
    /\ rows' = [rows EXCEPT ![l].available = SeatRows("available")]
    /\ LoadGoto(l, "readFrozen")
    /\ UNCHANGED <<loading, sync, keys, losses, tableVars, ledgerVars, clientVars>>

LoadFrozen(l) ==
    /\ lpc[l] = "readFrozen"
    /\ rows' = [rows EXCEPT ![l].frozen = [t \in Tokens |-> HeldBy(t) \cap SeatRows("frozen")]]
    /\ LoadGoto(l, "readSold")
    /\ UNCHANGED <<loading, sync, keys, losses, tableVars, ledgerVars, clientVars>>

LoadSold(l) ==
    /\ lpc[l] = "readSold"
    /\ rows' = [rows EXCEPT ![l].sold = SeatRows("sold")]
    /\ LoadGoto(l, "keys")
    /\ UNCHANGED <<loading, sync, keys, losses, tableVars, ledgerVars, clientVars>>

LoadKeys(l) ==
    /\ lpc[l] = "keys"
    /\ keys' = [keys EXCEPT ![l] = {t \in Tokens : frozen[t] # {}}]
    /\ LoadGoto(l, "wipe")
    /\ UNCHANGED <<loading, sync, rows, losses, tableVars, ledgerVars, clientVars>>

\* The DEL takes the loading key along.
LoadWipe(l) ==
    /\ lpc[l] = "wipe"
    /\ ready' = FALSE
    /\ stock' = 0
    /\ available' = {}
    /\ sold' = {}
    /\ frozen' = [t \in Tokens |-> IF t \in keys[l] THEN {} ELSE frozen[t]]
    /\ loading' = FALSE
    /\ LoadGoto(l, "stock")
    /\ keys' = [keys EXCEPT ![l] = {}]
    /\ UNCHANGED <<sync, rows, losses, tableVars, clientVars>>

LoadStock(l) ==
    /\ lpc[l] = "stock"
    /\ ready' = TRUE
    /\ stock' = Cardinality(rows[l].available)
    /\ LoadGoto(l, "fill")
    /\ UNCHANGED <<available, sold, frozen, loading, sync, rows, keys, losses, tableVars, clientVars>>

\* One ZADD: the available seats, then the sold ones, then the frozen ones.
LoadSeat(l) ==
    /\ lpc[l] = "fill"
    /\ \/ \E s \in rows[l].available :
             /\ available' = available \cup {s}
             /\ rows' = [rows EXCEPT ![l].available = @ \ {s}]
             /\ UNCHANGED <<sold, frozen>>
       \/ /\ rows[l].available = {}
          /\ \E s \in rows[l].sold :
                /\ sold' = sold \cup {s}
                /\ rows' = [rows EXCEPT ![l].sold = @ \ {s}]
                /\ UNCHANGED <<available, frozen>>
       \/ /\ rows[l].available = {} /\ rows[l].sold = {}
          /\ \E t \in Tokens : \E s \in rows[l].frozen[t] :
                /\ frozen' = [frozen EXCEPT ![t] = @ \cup {s}]
                /\ rows' = [rows EXCEPT ![l].frozen[t] = @ \ {s}]
                /\ UNCHANGED <<available, sold>>
    /\ UNCHANGED <<ready, stock, loading, lpc, sync, keys, losses, tableVars, clientVars>>

LoadReset(l) ==
    /\ LoadGoto(l, "idle")
    /\ rows' = [rows EXCEPT ![l] = NoRows]
    /\ keys' = [keys EXCEPT ![l] = {}]
    /\ sync' = [sync EXCEPT ![l] = FALSE]
    /\ UNCHANGED <<tableVars, ledgerVars, clientVars>>

\* load deletes the loading key in the end, LoadSync does not.
LoadDone(l) ==
    /\ lpc[l] = "fill"
    /\ rows[l] = NoRows
    /\ LoadReset(l)
    /\ loading' = (loading /\ sync[l])
    /\ UNCHANGED losses

\* A call fails, or the process dies.
LoadError(l) ==
    /\ lpc[l] # "idle"
    /\ Lose("reply")
    /\ LoadReset(l)
    /\ loading' = (loading /\ sync[l]) \/ UNCHANGED loading

\* LoadSync does not look at the loading key.
PrimeSeatLedger(l) ==
    /\ Lose("prime")
    /\ lpc[l] = "idle"
    /\ LoadGoto(l, "readAvailable")
    /\ sync' = [sync EXCEPT ![l] = TRUE]
    /\ UNCHANGED <<loading, rows, keys, tableVars, ledgerVars, clientVars>>

StockExpires ==
    /\ Lose("evict")
    /\ ready
    /\ ready' = FALSE
    /\ stock' = 0
    /\ UNCHANGED <<available, sold, frozen, loading, lpc, sync, rows, keys>>
    /\ UNCHANGED <<tableVars, clientVars>>

\* The cooldown is shorter than a load may take.
LoadingExpires ==
    /\ Lose("evict")
    /\ loading
    /\ loading' = FALSE
    /\ UNCHANGED <<lpc, sync, rows, keys, tableVars, ledgerVars, clientVars>>

\* The seat sets are not renewed by every script that renews the stock key.
SeatsExpire ==
    /\ Lose("evict")
    /\ \/ available # {} /\ available' = {} /\ UNCHANGED <<sold, frozen>>
       \/ sold # {} /\ sold' = {} /\ UNCHANGED <<available, frozen>>
       \/ /\ \E t \in Tokens : frozen[t] # {} /\ frozen' = [frozen EXCEPT ![t] = {}]
          /\ UNCHANGED <<available, sold>>
    /\ UNCHANGED <<ready, stock, loading, lpc, sync, rows, keys, tableVars, clientVars>>

-----------------------------------------------------------------------------
HandlerStep(c) ==
    \/ FreezeExisting(c) \/ FreezeLookup(c) \/ FreezeReserve(c) \/ FreezeRefused(c)
    \/ FreezePersist(c) \/ FreezePersistError(c) \/ FreezeUndo(c)
    \/ SettleLedger(c) \/ SettleTx(c) \/ SettleScript(c) \/ ClientCrash(c)

Call(c, t) ==
    \/ FreezeStart(c, t) \/ ReleaseUnheld(c, t)
    \/ \E kind \in {"confirm", "release"} : SettleStart(c, t, kind)

LoadStep(l) ==
    \/ LoadAvailable(l) \/ LoadFrozen(l) \/ LoadSold(l) \/ LoadKeys(l)
    \/ LoadWipe(l) \/ LoadStock(l) \/ LoadSeat(l) \/ LoadDone(l) \/ LoadError(l)

Next ==
    \/ \E c \in Clients : HandlerStep(c) \/ \E t \in Tokens : Call(c, t)
    \/ \E l \in Loaders : LoadStep(l) \/ PrimeSeatLedger(l)
    \/ StockExpires \/ LoadingExpires \/ SeatsExpire

Spec == Init /\ [][Next]_vars

-----------------------------------------------------------------------------
(***************************************************************************)
(* Properties                                                               *)
(***************************************************************************)
\* Handlers of one process, whatever fails or overlaps in them, grant, sell and
\* release the seats of a token as a whole, and never a seat of another token:
\* the transactions of the table keep the promise, not the ledger.
Hold == INSTANCE SeatHold WITH
            held <- [t \in Tokens |-> HeldBy(t)],
            paid <- [t \in Tokens |-> \E s \in HeldBy(t) : status[s] = "sold"]

ImplementsHold == Hold!HoldSpec

\* However stale the ledger is after lost keys, reloads that overlap and handlers
\* in several processes, the row of a held seat changes only by a confirm or a
\* release of its own token, and that of a sold seat never does: the checks in
\* the transactions of persistFrozenSeatsToDB, ConfirmSeatFreeze and
\* ReleaseSeatFreeze suffice.
SeatNotStolen ==
    [][\A s \in Seats :
          holder[s] # None /\ <<holder'[s], status'[s]>> # <<holder[s], status[s]>> =>
             /\ status[s] = "frozen"
             /\ \E c \in Clients :
                   /\ tok[c] = holder[s]
                   /\ \/ op[c] = "confirm" /\ holder'[s] = holder[s] /\ status'[s] = "sold"
                      \/ op[c] = "release" /\ holder'[s] = None /\ status'[s] = "available"]_vars

\* While the ledger is not reloaded, no script, in whatever order with failed and
\* abandoned handlers, loses a seat or puts it in two sets, and the stock key
\* counts the available ones.
LedgerConserved ==
    /\ available \cap sold = {}
    /\ \A t \in Tokens : frozen[t] \cap (available \cup sold) = {}
    /\ \A t, u \in Tokens : t # u => frozen[t] \cap frozen[u] = {}
    /\ available \cup sold \cup UNION {frozen[t] : t \in Tokens} = Seats
    /\ stock = Cardinality(available)

=============================================================================
