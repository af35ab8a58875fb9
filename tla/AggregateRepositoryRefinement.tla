--------------------- MODULE AggregateRepositoryRefinement ---------------------
(***************************************************************************)
(* AggregateRepository implements OptimisticLog, for clients that pass the *)
(* version they loaded and a store without a bus of its own, until a       *)
(* refused Save has left a snapshot of changes that were never stored.     *)
(***************************************************************************)
EXTENDS AggregateRepository

Log == INSTANCE OptimisticLog WITH
  Writer <- Client,
  Entry <- Change,
  log <- ChangesOf(stream),
  read <- [c \in Client |-> client[c].aggregate.version],
  view <- [c \in Client |-> client[c].aggregate.state],
  void <- misled

(* A Load, from the snapshot or without it, sees the whole history; a Save *)
(* appends all its changes at once, to the history as they were decided    *)
(* on, or none; handlers, snapshots and refused Saves change nothing that  *)
(* a client could see (AggregateRepository.cs:37, SnapshotRepository.cs:39 *)
(* and 46).                                                                *)
ImplementsLog == Log!LogSpec
===============================================================================
