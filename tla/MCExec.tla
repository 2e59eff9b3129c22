-------------------------------- MODULE MCExec --------------------------------
(***************************************************************************)
(* Instances of ThreadsExec for TLC.                                       *)
(***************************************************************************)
EXTENDS ThreadsExec, TLC

CONSTANTS w1, w2, t1, t2

===============================================================================
