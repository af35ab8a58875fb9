------------------------- MODULE DbContextCollection -------------------------
(***************************************************************************)
(* The set of Entity Framework contexts one business transaction shares:   *)
(* src/Infra.EFCore/Scope/DbContextCollection.cs.                          *)
(*                                                                         *)
(* A collection is a value; the scopes that share it hold it by reference, *)
(* so module DbContextScope keeps one per top-level scope.  A context is   *)
(* its type: Get creates at most one per type.  What a context holds is    *)
(* reduced to whether it has changes that SaveChanges would write (dirty)  *)
(* and whether it has ever written some to the database (saved).           *)
(* No transaction is ever begun (the BeginTransaction call is commented    *)
(* out), so _transactions stays empty and is left out.                     *)
(***************************************************************************)

CONSTANT CtxType   \* the DbContext classes of the application

Collection == [readOnly  : BOOLEAN,
               completed : BOOLEAN,
               disposed  : BOOLEAN,
               contexts  : SUBSET CtxType,   \* keys of _initializedDbContexts
               dirty     : SUBSET CtxType,
               saved     : SUBSET CtxType]

NewCollection(ro) ==
  [readOnly |-> ro, completed |-> FALSE, disposed |-> FALSE,
   contexts |-> {}, dirty |-> {}, saved |-> {}]

(* Get<T>() throws once the collection is disposed. *)
CanGet(c) == ~c.disposed

Get(c, t) == [c EXCEPT !.contexts = @ \cup {t}]

(* Get, then a change to an entity of that context. *)
GetAndChange(c, t) == [Get(c, t) EXCEPT !.dirty = @ \cup {t}]

(* Commit, CommitAsync and Rollback throw once either happened. *)
CanFinish(c) == ~c.disposed /\ ~c.completed

(* The contexts whose SaveChanges the commit loop calls. *)
ContextsToSave_IgnoringReadOnly(c) == c.contexts
ContextsToSave(c) == IF c.readOnly THEN {} ELSE c.contexts

(* One turn of the commit loop: SaveChanges of t succeeded, or threw.  The *)
(* exception is remembered and the loop goes on.                           *)
SaveContext(c, t) ==
  [c EXCEPT !.saved = @ \cup (c.dirty \cap {t}), !.dirty = @ \ {t}]

Completed(c) == [c EXCEPT !.completed = TRUE]

(* Dispose: commit a read-only collection, roll back any other, unless it  *)
(* was finished before; then dispose of the contexts, with what they hold. *)
DisposeSavingChanges(c) ==
  [Completed(c) EXCEPT !.disposed = TRUE, !.contexts = {}, !.dirty = {},
                       !.saved = @ \cup c.dirty]
DisposeCollection(c) ==
  [Completed(c) EXCEPT !.disposed = TRUE, !.contexts = {}, !.dirty = {}]
==============================================================================
