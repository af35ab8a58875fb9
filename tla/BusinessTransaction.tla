-------------------------- MODULE BusinessTransaction --------------------------
(***************************************************************************)
(* What IDbContextScope promises its callers (IDbContextScope.cs:9-16 and  *)
(* 36-39): a transaction collects changes in several contexts; they become *)
(* durable during its one SaveChanges or never; a SaveChanges that         *)
(* succeeds leaves nothing behind; whatever happens afterwards is lost     *)
(* with the contexts.  A save that failed may have made some of them       *)
(* durable: that is what the code provides, and CommittedAtomically in     *)
(* DbContextScope shows that the word "atomically" asks for more.          *)
(***************************************************************************)
CONSTANTS Txn, Part      \* transactions, and the contexts they change

VARIABLES
  phase,      \* "none", "open", "saving" (inside SaveChanges) or "closed"
  writable,   \* read/write transactions
  pending,    \* changed and not durable
  durable,    \* written to the database
  failing     \* the save under way has met an error

txnVars == <<phase, writable, pending, durable, failing>>

TxnTypeOK ==
  /\ phase \in [Txn -> {"none", "open", "saving", "closed"}]
  /\ writable \in SUBSET Txn
  /\ pending \in [Txn -> SUBSET Part]
  /\ durable \in [Txn -> SUBSET Part]
  /\ failing \in SUBSET Txn

TxnInit ==
  /\ phase = [x \in Txn |-> "none"]
  /\ writable = {}
  /\ pending = [x \in Txn |-> {}]
  /\ durable = [x \in Txn |-> {}]
  /\ failing = {}

Begin(x) ==
  /\ phase[x] = "none"
  /\ phase' = [phase EXCEPT ![x] = "open"]
  /\ writable' \in {writable, writable \cup {x}}
  /\ UNCHANGED <<pending, durable, failing>>

(* Also after the end: such a change stays pending until it is dropped.    *)
Change(x, p) ==
  /\ phase[x] \in {"open", "closed"}
  /\ pending' = [pending EXCEPT ![x] = @ \cup {p}]
  /\ UNCHANGED <<phase, writable, durable, failing>>

StartSave(x) ==
  /\ phase[x] = "open"
  /\ phase' = [phase EXCEPT ![x] = "saving"]
  /\ UNCHANGED <<writable, pending, durable, failing>>

SavePart(x, p) ==
  /\ phase[x] = "saving" /\ x \in writable /\ p \in pending[x]
  /\ pending' = [pending EXCEPT ![x] = @ \ {p}]
  /\ durable' = [durable EXCEPT ![x] = @ \cup {p}]
  /\ UNCHANGED <<phase, writable, failing>>

FailPart(x) ==
  /\ phase[x] = "saving" /\ x \in writable
  /\ failing' = failing \cup {x}
  /\ UNCHANGED <<phase, writable, pending, durable>>

EndSave(x) ==
  /\ phase[x] = "saving"
  /\ x \in writable \ failing => pending[x] = {}
  /\ phase' = [phase EXCEPT ![x] = "closed"]
  /\ failing' = failing \ {x}
  /\ UNCHANGED <<writable, pending, durable>>

(* Dispose: whatever is pending is lost. *)
Drop(x) ==
  /\ phase[x] \in {"open", "closed"}
  /\ phase' = [phase EXCEPT ![x] = "closed"]
  /\ pending' = [pending EXCEPT ![x] = {}]
  /\ UNCHANGED <<writable, durable, failing>>

TxnNext ==
  \E x \in Txn :
    \/ Begin(x) \/ StartSave(x) \/ FailPart(x) \/ EndSave(x) \/ Drop(x)
    \/ \E p \in Part : Change(x, p) \/ SavePart(x, p)

TxnSpec == TxnInit /\ [][TxnNext]_txnVars
================================================================================
