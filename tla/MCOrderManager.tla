--------------------------- MODULE MCOrderManager ---------------------------
(***************************************************************************)
(* Instances of OrderManager for TLC.  The nodes are model values and may  *)
(* be exchanged for one another: no action tells them apart.               *)
(***************************************************************************)
EXTENDS OrderManager, TLC

NodeSymmetry == Permutations(Node)
=============================================================================
