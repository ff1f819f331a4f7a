---------------------------- MODULE MCLocalCaches ----------------------------
(***************************************************************************)
(* LocalCaches for TLC: nodes are model values that the configurations     *)
(* declare.                                                                *)
(***************************************************************************)
EXTENDS LocalCaches, TLC
=============================================================================
