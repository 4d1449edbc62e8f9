-------------------------- MODULE MCDelayTaskOutbox --------------------------
(***************************************************************************)
(* The instance of DelayTaskOutbox: one row, two dispatchers, a retry limit *)
(* that the failures can exhaust.                                           *)
(***************************************************************************)
EXTENDS DelayTaskOutbox
=============================================================================
