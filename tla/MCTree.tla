------------------------------- MODULE MCTree -------------------------------
(***************************************************************************)
(* An instance of RedBlackTree for TLC: every tree over 8 nodes, two of    *)
(* them with equal keys, and what becomes of two trees of 14 nodes, filled *)
(* upwards and downwards, as nodes are erased: the loop of a removal meets *)
(* a red brother or a red parent in trees of this size only.               *)
(***************************************************************************)
EXTENDS RedBlackTree

CONSTANT LoadSize

MCNodes == 1..LoadSize
MCKey == [n \in MCNodes |-> IF n = 6 THEN 5 ELSE n]
MCLoads == {<< >>, [i \in MCNodes |-> i], [i \in MCNodes |-> LoadSize + 1 - i]}
=============================================================================
