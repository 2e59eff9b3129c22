---------------------------- MODULE MCCommunication ----------------------------
(* Communication for TLC: both platforms, and Run called twice. *)
EXTENDS Communication
===============================================================================
