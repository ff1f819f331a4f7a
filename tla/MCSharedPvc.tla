----------------------------- MODULE MCSharedPvc -----------------------------
(***************************************************************************)
(* SharedPvc on small instances.                                           *)
(***************************************************************************)
EXTENDS SharedPvc, TLC

\* Pods are interchangeable; only used by runs without liveness properties.
Symmetry == Permutations(Pods)
=============================================================================
