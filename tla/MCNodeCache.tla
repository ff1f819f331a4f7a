----------------------------- MODULE MCNodeCache -----------------------------
(***************************************************************************)
(* NodeCache for TLC: Pods and files are interchangeable.                  *)
(***************************************************************************)
EXTENDS NodeCache, TLC

Symmetry == Permutations(Pods) \cup Permutations(Files)
=============================================================================
