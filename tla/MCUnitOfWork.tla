----------------------------- MODULE MCUnitOfWork -----------------------------
(* A small instance of UnitOfWork for TLC. *)
EXTENDS UnitOfWork, TLC

Symmetry == Permutations(Thread) \cup Permutations(Flow)
===============================================================================
