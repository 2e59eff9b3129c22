------------------------------- MODULE MCServer -------------------------------
(***************************************************************************)
(* Instances of TcpServer for TLC.                                         *)
(***************************************************************************)
EXTENDS TcpServer

CONSTANTS c1, c2, k1, k2, a1, a2, e
===============================================================================
