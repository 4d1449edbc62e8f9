---------------------------- MODULE AttemptStore ----------------------------
(***************************************************************************)
(* The Redis attempt store of order-rpc for one show time and one ticket    *)
(* category: the attempt records, the user/viewer "inflight" and "active"   *)
(* projections and the admission quota.  Every Lua script of                *)
(* services/order-rpc/internal/rush runs atomically in Redis, so every      *)
(* script is one action here, enabled when the script answers "accepted",   *)
(* "shouldProcess" or "transitioned"; with any other answer it writes       *)
(* nothing.                                                                 *)
(***************************************************************************)
EXTENDS Integers, FiniteSets

CONSTANTS
    Orders,        \* order numbers, one per issued purchase token
    Users,
    Viewers,
    UserOf,        \* the claims of a token: its user ...
    ViewersOf,     \* ... and the viewers a ticket is bought for
    InitialQuota,  \* the admission quota PrimeRushRuntime has set
    None

ASSUME StoreAssumption ==
    /\ UserOf \in [Orders -> Users]
    /\ ViewersOf \in [Orders -> SUBSET Viewers]
    /\ IsFiniteSet(Orders)
    /\ IsFiniteSet(Viewers)
    /\ InitialQuota \in Nat
    /\ None \notin Orders

VARIABLES
    attempt,         \* state field of the attempt record, "missing" if no key
    userActive, userInflight,
    viewerActive, viewerInflight,
    quota

storeVars == <<attempt, userActive, userInflight, viewerActive,
               viewerInflight, quota>>

AttemptStates == {"missing", "PENDING", "PROCESSING", "SUCCESS", "FAILED"}

Live == {"PENDING", "PROCESSING", "SUCCESS"}

StoreTypeOK ==
    /\ attempt \in [Orders -> AttemptStates]
    /\ userActive \in [Users -> Orders \cup {None}]
    /\ userInflight \in [Users -> Orders \cup {None}]
    /\ viewerActive \in [Viewers -> Orders \cup {None}]
    /\ viewerInflight \in [Viewers -> Orders \cup {None}]
    /\ quota \in Int

StoreInit ==
    /\ attempt = [o \in Orders |-> "missing"]
    /\ userActive = [u \in Users |-> None]
    /\ userInflight = [u \in Users |-> None]
    /\ viewerActive = [v \in Viewers |-> None]
    /\ viewerInflight = [v \in Viewers |-> None]
    /\ quota = InitialQuota

\* Get and GetByShowTimeAndOrderNumber find a record.
Found(o) == attempt[o] # "missing"

\* TicketCount == len(TicketUserIDs): normalizeClaims refuses any other value.
TicketCount(o) == Cardinality(ViewersOf[o])

\* HSET (x an order) or HDEL (x = None) of the fields S of a projection hash.
SetFields(hash, S, x) == [k \in DOMAIN hash |-> IF k \in S THEN x ELSE hash[k]]

(***************************************************************************)
(* admit_attempt.lua                                                        *)
(***************************************************************************)
AdmitConflict(o) ==
    \/ userActive[UserOf[o]] # None
    \/ \E v \in ViewersOf[o] : viewerActive[v] # None
    \/ userInflight[UserOf[o]] # None
    \/ \E v \in ViewersOf[o] : viewerInflight[v] # None

\* "accepted"; the other verdicts (reused, rejected) change nothing.
Admissible(o) ==
    /\ ~Found(o)
    /\ ~AdmitConflict(o)
    /\ quota >= TicketCount(o)

Admit(o) ==
    /\ Admissible(o)
    /\ quota' = quota - TicketCount(o)
    /\ attempt' = [attempt EXCEPT ![o] = "PENDING"]
    /\ userInflight' = SetFields(userInflight, {UserOf[o]}, o)
    /\ viewerInflight' = SetFields(viewerInflight, ViewersOf[o], o)
    /\ UNCHANGED <<userActive, viewerActive>>

(***************************************************************************)
(* prepare_attempt_for_consume.lua: only a PENDING record is taken.         *)
(***************************************************************************)
\* Faulty: a record that another worker processes is taken again.
ShouldProcessAgain(o) == attempt[o] \in {"PENDING", "PROCESSING"}

ShouldProcess(o) == attempt[o] = "PENDING"

PrepareAttemptForConsume(o) ==
    /\ ShouldProcess(o)
    /\ attempt' = [attempt EXCEPT ![o] = "PROCESSING"]
    /\ UNCHANGED <<userActive, userInflight, viewerActive, viewerInflight, quota>>

\* refresh_processing_lease.lua returns 1: the TTL is renewed.
LeaseRefreshed(o) == attempt[o] = "PROCESSING"

(***************************************************************************)
(* The four scripts that end an attempt.  The fields are deleted whatever   *)
(* order number they hold.                                                  *)
(***************************************************************************)
\* What fail_before_processing.lua writes on success.
FailInflight(o) ==
    /\ attempt' = [attempt EXCEPT ![o] = "FAILED"]
    /\ quota' = quota + TicketCount(o)
    /\ userInflight' = SetFields(userInflight, {UserOf[o]}, None)
    /\ viewerInflight' = SetFields(viewerInflight, ViewersOf[o], None)
    /\ UNCHANGED <<userActive, viewerActive>>

\* Faulty: the state is not checked before the compensation.
FailBeforeProcessingUnchecked(o) ==
    /\ Found(o)
    /\ FailInflight(o)

FailBeforeProcessing(o) ==
    /\ attempt[o] = "PENDING"
    /\ FailInflight(o)

\* What finalize_success.lua writes on success.
Activate(o) ==
    /\ attempt' = [attempt EXCEPT ![o] = "SUCCESS"]
    /\ userActive' = SetFields(userActive, {UserOf[o]}, o)
    /\ viewerActive' = SetFields(viewerActive, ViewersOf[o], o)
    /\ userInflight' = SetFields(userInflight, {UserOf[o]}, None)
    /\ viewerInflight' = SetFields(viewerInflight, ViewersOf[o], None)
    /\ UNCHANGED quota

FinalizeSuccess(o) ==
    /\ attempt[o] = "PROCESSING"
    /\ Activate(o)

\* What finalize_failure.lua and finalize_closed_order.lua write on success.
FailAndRelease(o) ==
    /\ attempt' = [attempt EXCEPT ![o] = "FAILED"]
    /\ quota' = quota + TicketCount(o)
    /\ userActive' = SetFields(userActive, {UserOf[o]}, None)
    /\ userInflight' = SetFields(userInflight, {UserOf[o]}, None)
    /\ viewerActive' = SetFields(viewerActive, ViewersOf[o], None)
    /\ viewerInflight' = SetFields(viewerInflight, ViewersOf[o], None)

FinalizeFailure(o) ==
    /\ attempt[o] = "PROCESSING"
    /\ FailAndRelease(o)

FinalizeClosedOrder(o) ==
    /\ attempt[o] = "SUCCESS"
    /\ FailAndRelease(o)

\* What a poll tells of a record that is found.
MapAttemptRecordToPoll(o) ==
    CASE attempt[o] \in {"PENDING", "PROCESSING"} -> "processing"
      [] attempt[o] = "SUCCESS" -> "success"
      [] OTHER -> "failed"

(***************************************************************************)
(* Redis key expiry.                                                        *)
(***************************************************************************)
ExpireAttempt(o) ==
    /\ Found(o)
    /\ attempt' = [attempt EXCEPT ![o] = "missing"]
    /\ UNCHANGED <<userActive, userInflight, viewerActive, viewerInflight, quota>>

\* The inflight hashes carry one TTL for all users, set with every admission
\* and every failure, and expire as a whole.
ExpireInflight ==
    /\ \/ \E u \in Users : userInflight[u] # None
       \/ \E v \in Viewers : viewerInflight[v] # None
    /\ userInflight' = [u \in Users |-> None]
    /\ viewerInflight' = [v \in Viewers |-> None]
    /\ UNCHANGED <<attempt, userActive, viewerActive, quota>>

=============================================================================
