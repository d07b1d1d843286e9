------------------------------- MODULE MCDown -------------------------------
(* An instance of Down on its own. *)
EXTENDS Down, TLC

CONSTANTS d1, t1, nothing
=============================================================================
