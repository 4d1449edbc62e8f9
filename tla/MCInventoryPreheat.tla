------------------------- MODULE MCInventoryPreheat -------------------------
(* Small instance of InventoryPreheat: one show time at the start, a second *)
(* one that may be created, and two open times.                             *)
EXTENDS InventoryPreheat

Starts == [s \in ShowTimes |-> IF s = 1 THEN 2 ELSE 1]
=============================================================================
