--------------------------- MODULE MCDbContextScope ---------------------------
(* Small instances of DbContextScope for TLC. *)
EXTENDS DbContextScopeRefinement, TLC

Symmetry == Permutations(Scope) \cup Permutations(CtxType)
===============================================================================
