--------------------------- MODULE MCUserAccounts ---------------------------
(* Instance of UserAccounts for TLC: one account exists. *)
EXTENDS UserAccounts

CONSTANTS m1, e1, p1

FirstRow == [mobile |-> m1, email |-> e1, password |-> p1, authenticated |-> FALSE]
=============================================================================
