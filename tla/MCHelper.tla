------------------------------- MODULE MCHelper -------------------------------
(***************************************************************************)
(* Instances of ChannelReadWriteHelper for TLC.                            *)
(***************************************************************************)
EXTENDS ChannelReadWriteHelper, TLC

CONSTANTS o1, o2, e, k, s

MCSymmetry == Permutations(Ops)
===============================================================================
