---------------------------- MODULE MCOrderShards ----------------------------
(* Small instance of OrderShards: two users of different slots that share a *)
(* table, and a third slot in a table of its own.                           *)
EXTENDS OrderShards, TLC

CONSTANTS u1, u2, c1, c2

MCGenes == [u \in Users |-> IF u = u1 THEN [db |-> 0, table |-> 1] ELSE [db |-> 1, table |-> 0]]

MCRouteOf == [s \in Slots |-> IF s = 3 THEN "d_order_01" ELSE "d_order_00"]

Symmetry == Permutations(Callers)
=============================================================================
