------------------------------- MODULE MCAssets -------------------------------
(* A small instance of Assets for TLC. *)
EXTENDS Assets, TLC

Symmetry == Permutations(Request)
===============================================================================
