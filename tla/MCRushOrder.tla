---------------------------- MODULE MCRushOrder -----------------------------
(***************************************************************************)
(* Small instances of RushOrder.  o1 and o2 are two tokens of one user for  *)
(* different viewers, o4 is a token of another user for the second viewer:  *)
(* o1/o2 conflict in the user, o1/o4 in nothing but seats.                  *)
(***************************************************************************)
EXTENDS RushOrder, TLC

CONSTANTS o1, o2, o4, u1, u2, v1, v2

MCUserOf == [o \in Orders |-> IF o = o4 THEN u2 ELSE u1]
MCViewersOf == [o \in Orders |-> IF o = o1 THEN {v1} ELSE {v2}]

\* The two tokens of one user are interchangeable together with their viewers.
Swapped == [x \in {o1, o2, v1, v2} |-> CASE x = o1 -> o2 [] x = o2 -> o1
                                          [] x = v1 -> v2 [] OTHER -> v1]

Symmetry == Permutations(Workers) \cup {Swapped}
=============================================================================
