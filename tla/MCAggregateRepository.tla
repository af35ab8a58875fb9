------------------------- MODULE MCAggregateRepository -------------------------
(* Small instances of AggregateRepository for TLC. *)
EXTENDS AggregateRepositoryRefinement, TLC

Symmetry == Permutations(Client)
================================================================================
