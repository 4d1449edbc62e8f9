------------------------------ MODULE SeatHold ------------------------------
(***************************************************************************)
(* What program-rpc promises about the seats of a ticket category: a freeze *)
(* token is granted all its seats in one step, seats that nobody holds; it  *)
(* keeps exactly these until they are released, or sold, together.          *)
(***************************************************************************)
EXTENDS Integers, FiniteSets

CONSTANTS Seats, Tokens, CountOf

VARIABLES held, paid

holdVars == <<held, paid>>

HoldInit ==
    /\ held = [t \in Tokens |-> {}]
    /\ paid = [t \in Tokens |-> FALSE]

Grant(t, S) ==
    /\ held[t] = {}
    /\ Cardinality(S) = CountOf[t]
    /\ \A u \in Tokens : S \cap held[u] = {}
    /\ held' = [held EXCEPT ![t] = S]
    /\ UNCHANGED paid

Release(t) ==
    /\ ~paid[t]
    /\ held' = [held EXCEPT ![t] = {}]
    /\ UNCHANGED paid

Sell(t) ==
    /\ held[t] # {}
    /\ paid' = [paid EXCEPT ![t] = TRUE]
    /\ UNCHANGED held

HoldNext ==
    \E t \in Tokens : Release(t) \/ Sell(t) \/ \E S \in SUBSET Seats : Grant(t, S)

HoldSpec == HoldInit /\ [][HoldNext]_holdVars

=============================================================================
