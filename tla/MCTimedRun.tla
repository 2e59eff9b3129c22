------------------------------ MODULE MCTimedRun ------------------------------
(* TimedRun for TLC; its state is finite as it stands. *)
EXTENDS TimedRun
===============================================================================
