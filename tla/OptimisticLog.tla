----------------------------- MODULE OptimisticLog -----------------------------
(***************************************************************************)
(* What an event-sourced repository promises writers that save with the   *)
(* version they loaded (IAggregateRepository; AggregateRepository.cs:37):  *)
(* there is one log; a writer reads all of it, or starts from nothing,     *)
(* decides on what it has read and decided so far, and what it decided is  *)
(* appended in one piece and only if nothing was appended since it read.   *)
(* Snapshots do not show: they only make reading faster.                   *)
(*                                                                         *)
(* The promise lapses for good once void is set.                           *)
(***************************************************************************)
EXTENDS Naturals, Sequences

CONSTANTS Writer, Entry

VARIABLES
  log,
  read,     \* how much of the log each writer has read
  view,     \* what it read, and what it decided since
  void      \* the promise has lapsed

logVars == <<log, read, view, void>>

LogInit ==
  /\ log = <<>>
  /\ read = [w \in Writer |-> 0]
  /\ view = [w \in Writer |-> <<>>]
  /\ void = FALSE

Sees(w, n, entries) ==
  /\ read' = [read EXCEPT ![w] = n]
  /\ view' = [view EXCEPT ![w] = entries]
  /\ UNCHANGED void

StartAfresh(w) == Sees(w, 0, <<>>) /\ UNCHANGED log

ReadAll(w) == Sees(w, Len(log), log) /\ UNCHANGED log

Decide(w, e) == Sees(w, read[w], Append(view[w], e)) /\ UNCHANGED log

(* The log continues as the writer has it; then it goes on, or lets go. *)
Commit(w) ==
  /\ read[w] = Len(log) /\ read[w] < Len(view[w])
  /\ log' = view[w]
  /\ Sees(w, Len(view[w]), view[w]) \/ Sees(w, 0, <<>>)

Lapse == void'

LogNext ==
  \/ \E w \in Writer :
       \/ StartAfresh(w) \/ ReadAll(w) \/ Commit(w)
       \/ \E e \in Entry : Decide(w, e)
  \/ Lapse

LogSpec == LogInit /\ [][LogNext]_logVars
================================================================================
