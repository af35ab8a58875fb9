----------------------- MODULE DbContextScopeRefinement -----------------------
(***************************************************************************)
(* DbContextScope implements BusinessTransaction, for callers that use     *)
(* using blocks and suppress the ambient scope before they fork.  A        *)
(* transaction is a top-level scope; the nested ones stay "none".          *)
(***************************************************************************)
EXTENDS DbContextScope

TopLevel(s) == Opened(s) /\ ~Nested(s)

Saving(s) == \E f \in Flow : flow[f].pc = "commit" /\ flow[f].at = s

PhaseOf(s) ==
  IF ~TopLevel(s) THEN "none"
  ELSE IF collection[s].completed THEN "closed"
  ELSE IF Saving(s) THEN "saving"
  ELSE "open"

Promise == INSTANCE BusinessTransaction WITH
  Txn <- Scope,
  Part <- CtxType,
  phase <- [s \in Scope |-> PhaseOf(s)],
  writable <- {s \in Scope : TopLevel(s) /\ ~collection[s].readOnly},
  pending <- [s \in Scope |-> collection[s].dirty],
  durable <- [s \in Scope |-> collection[s].saved],
  failing <- {s \in Scope : \E f \in Flow : flow[f].at = s /\ flow[f].failed}

(* Every step a flow takes is a step of the transactions as promised, or   *)
(* none: a change becomes durable only inside the one SaveChanges of its   *)
(* top-level scope, and a SaveChanges that succeeds leaves nothing.        *)
ImplementsTransaction == Promise!TxnSpec
===============================================================================
