------------------------------- MODULE MCTimer -------------------------------
(* Instances of Timer for TLC. *)
EXTENDS Timer

CONSTANTS t1, t2, w, c1
==============================================================================
