---------------------------- MODULE DbContextScope ----------------------------
(***************************************************************************)
(* The ambient unit of work of TheBorg: src/Infra.EFCore/Scope.            *)
(*                                                                         *)
(* A flow is a logical thread of control: an ExecutionContext, with the    *)
(* value of the AsyncLocal _storeLocal.  A forked flow starts with a copy  *)
(* of its parent's value.  A scope is an instance of DbContextScope and    *)
(* stands for its InstanceIdentifier too (they are created together).      *)
(* `instances' is the static DbContextScopeInstances table.                *)
(*                                                                         *)
(* Two constants choose the callers: SuppressBeforeFork is the rule        *)
(* IDbContextScope.cs:21 states, UsingBlocks says every scope and every    *)
(* suppressor is a C# using block, closed innermost first.                 *)
(***************************************************************************)
EXTENDS Naturals, Sequences, DbContextCollection

CONSTANTS
  Flow,                \* flows of execution
  MainFlow,            \* the one that runs from the start
  Scope,               \* DbContextScope instances the run may create
  NoFlow, NoScope,     \* "not created yet", null
  MaxHeld,             \* bound: scopes and suppressors a flow holds at once
  SuppressBeforeFork,  \* do flows obey "suppress the ambient before forking"?
  UsingBlocks          \* do flows dispose in reverse order of creation?

ASSUME ScopeAssumption ==
  /\ MainFlow \in Flow /\ NoFlow \notin Flow
  /\ NoScope \notin Scope
  /\ MaxHeld \in Nat
  /\ SuppressBeforeFork \in BOOLEAN /\ UsingBlocks \in BOOLEAN

VARIABLES
  scope,       \* fields of each DbContextScope
  collection,  \* the DbContextCollection a top-level scope created
  instances,   \* DbContextScopeInstances: the scopes GetAmbientScope finds
  flow         \* each flow's AsyncLocal, what it holds and where it stands

vars == <<scope, collection, instances, flow>>

MaybeScope == Scope \cup {NoScope}

(* owner is the flow that ran the constructor; collection is the scope     *)
(* whose constructor allocated the shared _dbContexts.                     *)
ScopeFields == [owner : Flow \cup {NoFlow}, readOnly : BOOLEAN,
                parent : MaybeScope, collection : Scope,
                completed : BOOLEAN, disposed : BOOLEAN]

(* A handle is a scope, or a suppressor with the scope it saved. *)
Handle == [kind : {"scope", "suppressor"}, scope : MaybeScope]

(* pc "commit": inside DbContextCollection.CommitAsync of scope `at'; todo *)
(* are the contexts not saved yet, seen the ones the enumerator started    *)
(* with.  "pop" and "mark": inside Dispose, before RemoveAmbientScope and  *)
(* before _disposed = true.                                                *)
FlowState == [pc : {"unborn", "run", "commit", "pop", "mark"},
              ambient : MaybeScope, held : Seq(Handle), at : MaybeScope,
              todo : SUBSET CtxType, seen : SUBSET CtxType, failed : BOOLEAN]

TypeOK ==
  /\ scope \in [Scope -> ScopeFields]
  /\ collection \in [Scope -> Collection]
  /\ instances \in SUBSET Scope
  /\ flow \in [Flow -> FlowState]

Init ==
  /\ scope = [s \in Scope |->
       [owner |-> NoFlow, readOnly |-> FALSE, parent |-> NoScope,
        collection |-> s, completed |-> FALSE, disposed |-> FALSE]]
  /\ collection = [s \in Scope |-> NewCollection(FALSE)]
  /\ instances = {}
  /\ flow = [f \in Flow |->
       [pc |-> IF f = MainFlow THEN "run" ELSE "unborn", ambient |-> NoScope,
        held |-> <<>>, at |-> NoScope, todo |-> {}, seen |-> {}, failed |-> FALSE]]

-------------------------------------------------------------------------------
(* Helpers. *)

Running(f) == flow[f].pc = "run"
Opened(s) == scope[s].owner # NoFlow
Nested_Never(s) == FALSE
Nested(s) == scope[s].parent # NoScope
CollectionOf(s) == collection[scope[s].collection]

(* GetAmbientScope: the identifier of this flow, looked up in the table.   *)
GetAmbientScope(f) ==
  IF flow[f].ambient \in instances THEN flow[f].ambient ELSE NoScope

(* The flow state after the operation it was in. *)
Returned(fs) == [fs EXCEPT !.pc = "run", !.at = NoScope, !.todo = {}, !.seen = {},
                           !.failed = FALSE]

ScopeHandle(s) == [kind |-> "scope", scope |-> s]
Holds(f, s) == \E i \in DOMAIN flow[f].held : flow[f].held[i] = ScopeHandle(s)

WithoutIndex(held, i) ==
  SubSeq(held, 1, i - 1) \o SubSeq(held, i + 1, Len(held))

(* The handles whose Dispose the caller may run next. *)
Disposable(f) ==
  {i \in DOMAIN flow[f].held : UsingBlocks => i = Len(flow[f].held)}

-------------------------------------------------------------------------------
(* new DbContextScope(readOnly).  A read/write scope inside a read-only    *)
(* ambient scope throws and leaves everything as it was.                   *)

MayNest_Always(p, ro) == TRUE
MayNest(p, ro) == p # NoScope => (scope[p].readOnly => ro)

Open(f, s, ro) ==
  LET p == GetAmbientScope(f)
      root == IF p = NoScope THEN s ELSE scope[p].collection
  IN /\ Running(f) /\ ~Opened(s) /\ Len(flow[f].held) < MaxHeld
     /\ MayNest(p, ro)
     /\ scope' = [scope EXCEPT ![s] =
          [owner |-> f, readOnly |-> ro, parent |-> p, collection |-> root,
           completed |-> FALSE, disposed |-> FALSE]]
     /\ collection' =
          IF p = NoScope THEN [collection EXCEPT ![s] = NewCollection(ro)]
                         ELSE collection
     /\ instances' = instances \cup {s}
     /\ flow' = [flow EXCEPT
          ![f].ambient = s,
          ![f].held = Append(@, ScopeHandle(s))]

(* AmbientDbContextLocator.Get<T>(), or DbContexts.Get<T>() of a scope the *)
(* flow holds, with or without a change to an entity of that context.      *)
UseContext(f, s, t, change) ==
  LET c == scope[s].collection
  IN /\ Running(f)
     /\ s = GetAmbientScope(f) \/ Holds(f, s)
     /\ CanGet(collection[c])
     /\ collection' = [collection EXCEPT
          ![c] = IF change THEN GetAndChange(@, t) ELSE Get(@, t)]
     /\ UNCHANGED <<scope, instances, flow>>

-------------------------------------------------------------------------------
(* SaveChanges / SaveChangesAsync, by the flow that holds the scope.       *)

(* A nested scope leaves the saving to the top-level one. *)
SaveNested(f, s) ==
  /\ Running(f) /\ Holds(f, s) /\ ~scope[s].completed /\ Nested(s)
  /\ scope' = [scope EXCEPT ![s].completed = TRUE]
  /\ UNCHANGED <<collection, instances, flow>>

(* A top-level scope starts CommitAsync, whose loop awaits each context.   *)
BeginCommit_Twice(f, s) ==
  LET c == CollectionOf(s)
  IN /\ Running(f) /\ Holds(f, s) /\ ~scope[s].completed /\ ~Nested(s)
     /\ ~c.disposed
     /\ flow' = [flow EXCEPT
          ![f].pc = "commit", ![f].at = s, ![f].todo = ContextsToSave(c),
          ![f].seen = c.contexts, ![f].failed = FALSE]
     /\ UNCHANGED <<scope, collection, instances>>
BeginCommit(f, s) ==
  LET c == CollectionOf(s)
  IN /\ Running(f) /\ Holds(f, s) /\ ~scope[s].completed /\ ~Nested(s)
     /\ CanFinish(c)
     /\ flow' = [flow EXCEPT
          ![f].pc = "commit", ![f].at = s, ![f].todo = ContextsToSave(c),
          ![f].seen = c.contexts, ![f].failed = FALSE]
     /\ UNCHANGED <<scope, collection, instances>>

(* MoveNext succeeds only while nobody has added a context meanwhile. *)
EnumeratorValid(f) == CollectionOf(flow[f].at).contexts = flow[f].seen

(* One await of the loop: the context's SaveChanges succeeds, or throws    *)
(* and is only remembered.                                                 *)
CommitContext(f, t, ok) ==
  /\ flow[f].pc = "commit" /\ t \in flow[f].todo /\ EnumeratorValid(f)
  /\ collection' =
       IF ok THEN [collection EXCEPT ![scope[flow[f].at].collection] = SaveContext(@, t)]
             ELSE collection
  /\ flow' = [flow EXCEPT ![f].todo = @ \ {t}, ![f].failed = @ \/ ~ok]
  /\ UNCHANGED <<scope, instances>>

(* "Collection was modified": CommitAsync throws with nothing completed.   *)
CommitInvalidated(f) ==
  /\ flow[f].pc = "commit" /\ ~EnumeratorValid(f)
  /\ flow' = [flow EXCEPT ![f] = Returned(@)]
  /\ UNCHANGED <<scope, collection, instances>>

(* The loop is over.  The collection is completed either way; the scope    *)
(* only if no exception is rethrown.                                       *)
EndCommit(f) ==
  /\ flow[f].pc = "commit" /\ flow[f].todo = {} /\ EnumeratorValid(f)
  /\ collection' = [collection EXCEPT ![scope[flow[f].at].collection] = Completed(@)]
  /\ scope' = [scope EXCEPT ![flow[f].at].completed = ~flow[f].failed]
  /\ flow' = [flow EXCEPT ![f] = Returned(@)]
  /\ UNCHANGED instances

-------------------------------------------------------------------------------
(* Dispose, in the three steps other flows can see.  A top-level scope     *)
(* first finishes and disposes of its contexts.                            *)
BeginDispose(f, i) ==
  LET s == flow[f].held[i].scope
      c == scope[s].collection
  IN /\ Running(f) /\ i \in Disposable(f) /\ flow[f].held[i].kind = "scope"
     /\ IF Nested(s)
          THEN UNCHANGED <<scope, collection>>
          ELSE /\ scope' = [scope EXCEPT ![s].completed = TRUE]
               /\ collection' = IF collection[c].disposed THEN collection
                                ELSE [collection EXCEPT ![c] = DisposeCollection(@)]
     /\ flow' = [flow EXCEPT ![f].pc = "pop", ![f].at = s]
     /\ UNCHANGED instances

(* Then it must be the ambient scope, or Dispose throws before marking the *)
(* scope disposed ("must be disposed of in the order...").                 *)
PopThrows(f) ==
  /\ flow[f].pc = "pop" /\ GetAmbientScope(f) # flow[f].at
  /\ flow' = [flow EXCEPT ![f] = Returned(@)]
  /\ UNCHANGED <<scope, collection, instances>>

(* The ambient scope after RemoveAmbientScope: the parent, unless disposed. *)
ParentToRestore_None(s) == NoScope
ParentToRestore(s) ==
  LET p == scope[s].parent
  IN IF p # NoScope /\ ~scope[p].disposed THEN p ELSE NoScope

(* RemoveAmbientScope: the scope leaves the table. *)
InstancesAfterRemove_Leak(s) == instances
InstancesAfterRemove(s) == instances \ {s}

(* SetAmbientScope tracks the scope it is given, if any. *)
Tracked_NoNullCheck(s) == {s}
Tracked(s) == {s} \ {NoScope}

Pop(f) ==
  LET p == ParentToRestore(flow[f].at)
  IN /\ flow[f].pc = "pop" /\ GetAmbientScope(f) = flow[f].at
     /\ instances' = InstancesAfterRemove(flow[f].at) \cup Tracked(p)
     /\ flow' = [flow EXCEPT ![f].pc = "mark", ![f].ambient = p]
     /\ UNCHANGED <<scope, collection>>

(* _disposed = true; the caller's using block is over. *)
EndDispose(f) ==
  /\ flow[f].pc = "mark"
  /\ scope' = [scope EXCEPT ![flow[f].at].disposed = TRUE]
  /\ \E i \in DOMAIN flow[f].held :
       /\ flow[f].held[i] = ScopeHandle(flow[f].at)
       /\ flow' = [flow EXCEPT ![f] =
            [Returned(@) EXCEPT !.held = WithoutIndex(flow[f].held, i)]]
  /\ UNCHANGED <<collection, instances>>

-------------------------------------------------------------------------------
(* SuppressAmbientContext() and the suppressor's Dispose. *)

(* HideAmbientScope clears the identifier of this flow and leaves the      *)
(* hidden scope in the table.                                              *)
AmbientAfterHide_Kept(f) == flow[f].ambient
AmbientAfterHide(f) == NoScope
InstancesAfterHide_Removed(f) == instances \ {flow[f].ambient}
InstancesAfterHide(f) == instances

Suppress(f) ==
  /\ Running(f) /\ Len(flow[f].held) < MaxHeld
  /\ flow' = [flow EXCEPT
       ![f].ambient = AmbientAfterHide(f),
       ![f].held = Append(@, [kind |-> "suppressor", scope |-> GetAmbientScope(f)])]
  /\ instances' = InstancesAfterHide(f)
  /\ UNCHANGED <<scope, collection>>

(* SetAmbientScope: nothing if the flow has that identifier already, else  *)
(* it becomes ambient and, if it was not, tracked.                         *)
Unsuppress(f, i) ==
  LET s == flow[f].held[i].scope
  IN /\ Running(f) /\ i \in Disposable(f) /\ flow[f].held[i].kind = "suppressor"
     /\ instances' = IF s = flow[f].ambient THEN instances
                     ELSE instances \cup Tracked(s)
     /\ flow' = [flow EXCEPT
          ![f].ambient = IF s = NoScope THEN @ ELSE s,
          ![f].held = WithoutIndex(@, i)]
     /\ UNCHANGED <<scope, collection>>

(* Starting a parallel flow: the runtime copies the ExecutionContext.      *)
(* IDbContextScope.cs:21 asks for the ambient scope to be suppressed       *)
(* first, in a using block around the start; no code enforces it.          *)
SuppressesNow(f) ==
  LET n == Len(flow[f].held)
  IN IF n = 0 THEN TRUE ELSE flow[f].held[n].kind = "suppressor"

Fork(f, g) ==
  /\ Running(f) /\ flow[g].pc = "unborn"
  /\ SuppressBeforeFork => SuppressesNow(f)
  /\ flow' = [flow EXCEPT ![g].pc = "run", ![g].ambient = flow[f].ambient]
  /\ UNCHANGED <<scope, collection, instances>>

-------------------------------------------------------------------------------
(* What the body of a using block does. *)
Call(f) ==
  \/ \E s \in Scope, ro \in BOOLEAN : Open(f, s, ro)
  \/ \E s \in Scope, t \in CtxType, change \in BOOLEAN : UseContext(f, s, t, change)
  \/ \E s \in Scope : SaveNested(f, s)
  \/ \E s \in Scope : BeginCommit(f, s)
  \/ Suppress(f)
  \/ \E g \in Flow : Fork(f, g)

(* The next step of a commit or Dispose that is under way. *)
Proceed(f) ==
  \/ \E t \in CtxType, ok \in BOOLEAN : CommitContext(f, t, ok)
  \/ CommitInvalidated(f)
  \/ EndCommit(f)
  \/ PopThrows(f)
  \/ Pop(f)
  \/ EndDispose(f)

(* The end of the i-th using block a flow is in. *)
Close(f, i) == BeginDispose(f, i) \/ Unsuppress(f, i)

Next == \E f \in Flow : Call(f) \/ Proceed(f) \/ \E i \in 1 .. MaxHeld : Close(f, i)

Spec == Init /\ [][Next]_vars

(* A started commit or Dispose runs on to its end, and the body of every   *)
(* using block ends: the handle it opened at depth i is disposed of, even  *)
(* if the body goes in and out of inner blocks any number of times.        *)
Fairness == \A f \in Flow : /\ WF_vars(Proceed(f))
                           /\ \A i \in 1 .. MaxHeld : SF_vars(Close(f, i))
FairSpec == Spec /\ Fairness

-------------------------------------------------------------------------------
(* The inductive invariant behind the theorems of DbContextScopeProofs.    *)

(* A scope not created yet has no contexts.  A top-level scope works on    *)
(* its own, a nested one on those of a scope that was created before.      *)
ScopesAreRooted ==
  \A s \in Scope :
    /\ ~Opened(s) => collection[s] = NewCollection(FALSE)
    /\ Opened(s) => /\ Opened(scope[s].collection)
                    /\ Nested(s) => Opened(scope[s].parent)
                    /\ ~Nested(s) => scope[s].collection = s

(* Only created scopes are reachable, and a flow disposes of its own.      *)
OwnsHandle(f, h) ==
  /\ h.kind = "scope" => h.scope # NoScope /\ scope[h.scope].owner = f
  /\ h.scope # NoScope => Opened(h.scope)

HandlesAreOwned ==
  /\ \A s \in instances : Opened(s)
  /\ \A f \in Flow : \A i \in DOMAIN flow[f].held : OwnsHandle(f, flow[f].held[i])

(* An operation under way works on a scope of its flow; a commit on an     *)
(* unfinished top-level one, with nothing to save if it is read-only.      *)
BusyOnOwn(f) ==
  /\ flow[f].pc \in {"commit", "pop", "mark"}
       => flow[f].at # NoScope /\ scope[flow[f].at].owner = f
  /\ flow[f].pc = "commit"
       => /\ ~Nested(flow[f].at)
          /\ ~collection[flow[f].at].completed
          /\ collection[flow[f].at].readOnly => flow[f].todo = {}

BusyOnOwnScope == \A f \in Flow : BusyOnOwn(f)

-------------------------------------------------------------------------------
(* Properties that hold however the callers behave. *)

(* A read/write scope never works on the contexts of a read-only           *)
(* transaction, whatever it was nested in (DbContextScope.cs:46).          *)
NoWriterOnReadOnlyContexts ==
  \A s \in Scope : Opened(s) /\ CollectionOf(s).readOnly => scope[s].readOnly

(* A read-only transaction never writes to the database, on SaveChanges or *)
(* on the automatic commit of its Dispose (DbContextCollection.cs:114).    *)
ReadOnlyNeverSaves ==
  \A s \in Scope : collection[s].readOnly => collection[s].saved = {}

(* The strengthening that makes the two inductive. *)
IInv == /\ TypeOK /\ ScopesAreRooted /\ HandlesAreOwned /\ BusyOnOwnScope
        /\ NoWriterOnReadOnlyContexts /\ ReadOnlyNeverSaves

(* Once a transaction is committed, even partly, or rolled back, no later  *)
(* call of any flow writes anything more of it (DbContextCollection.cs:87).*)
FinishedIsFinal ==
  [][\A s \in Scope :
       collection[s].completed /\ collection'[s].completed
         => collection'[s].saved = collection[s].saved]_vars

-------------------------------------------------------------------------------
(* Properties of callers that use using blocks. *)

(* Dispose never throws "must be disposed of in the order...", not even    *)
(* when a parallel flow inherited, suppressed or nested under the scope.   *)
InOrderDisposeNeverThrows ==
  \A f \in Flow : flow[f].pc = "pop" => GetAmbientScope(f) = flow[f].at

(* Every scope that is opened ends up disposed, its contexts with it.      *)
EveryScopeCloses ==
  \A s \in Scope : Opened(s) ~> scope[s].disposed /\ (~Nested(s) => collection[s].disposed)

-------------------------------------------------------------------------------
(* Properties of callers that also suppress the ambient scope before they  *)
(* fork, as IDbContextScope.cs:21 asks.                                    *)

(* The ambient scope of a flow is the innermost scope it has open, or none *)
(* inside a suppressor: nothing leaks in or out of a nested block.         *)
AmbientIsInnermost ==
  \A f \in Flow : Running(f) =>
    LET n == Len(flow[f].held)
    IN GetAmbientScope(f) =
         IF n = 0 \/ SuppressesNow(f) THEN NoScope ELSE flow[f].held[n].scope

(* No DbContext is reachable from two flows: scopes that share contexts    *)
(* belong to one flow.                                                     *)
ContextsStayInTheirFlow ==
  \A s1, s2 \in Scope :
    Opened(s1) /\ Opened(s2) /\ scope[s1].collection = scope[s2].collection
      => scope[s1].owner = scope[s2].owner

(* While a scope is open nobody disposes of the contexts it works on.      *)
OpenScopeHasContexts ==
  \A s \in Scope :
    Opened(s) /\ ~scope[s].disposed /\ flow[scope[s].owner].at # s
      => ~CollectionOf(s).disposed

(* The table holds no disposed scope: none is leaked, none comes back.     *)
TrackedIsNotDisposed == \A s \in instances : ~scope[s].disposed

-------------------------------------------------------------------------------
(* What the comments say and the code does not do. *)

(* IDbContextScope.cs:14: the contexts of a transaction "are committed or  *)
(* rolled back atomically".                                                *)
CommittedAtomically ==
  [][\A f \in Flow :
       LET c == scope[flow[f].at].collection
       IN flow[f].pc = "commit" /\ flow'[f].pc = "run"
            => collection[c].saved = {} \/ collection[c].dirty = {}]_vars
===============================================================================
