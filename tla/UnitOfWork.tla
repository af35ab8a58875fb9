------------------------------- MODULE UnitOfWork -------------------------------
(***************************************************************************)
(* UnitOfWork, UnitOfWorkScopeManagerBase and UoWScopeStack                *)
(* (src/src/Infra.Core/Relational/UOW, with Infra.EFCore/UOW): the units   *)
(* of work a thread has open share a context, which a stack in a           *)
(* [ThreadStatic] field keeps for them.                                    *)
(*                                                                         *)
(* A flow is a request: nested using blocks of units of work, each closed  *)
(* on leaving its block.  It may await anything in between, and is then    *)
(* resumed on whichever thread is free.  The service locator hands out a   *)
(* new context every time, or fails.                                       *)
(***************************************************************************)
EXTENDS Naturals, Sequences, SequencesExt

CONSTANTS
  Thread, Flow,
  Away,      \* where a flow is that awaits, and no thread
  NoStack,   \* a [ThreadStatic] field that is null
  MaxUnits   \* bound: units of work, and contexts, of a run

ASSUME UnitOfWorkAssumption ==
  /\ MaxUnits \in Nat
  /\ Away \notin Thread

VARIABLES
  stack,      \* _scopeStack of each thread: its context, and its units, last on top
  at,         \* the thread that runs each flow
  nest,       \* the units each flow is in the using blocks of, last the innermost
  context,    \* Context of each unit there ever was, in order of creation
  contexts,   \* contexts handed out
  finished,   \* units with IsFinished
  disposed,   \* contexts disposed of
  strayed,    \* contexts of units that were open while their flow awaited
  refused     \* contexts of units that Complete or Remove threw for

vars == <<stack, at, nest, context, contexts, finished, disposed, strayed, refused>>

Unit == 1 .. MaxUnits
Context == 1 .. MaxUnits
Stack == [context : Context, units : Seq(Unit)]

ASSUME NoStackAssumption == NoStack \notin Stack

TypeOK ==
  /\ stack \in [Thread -> Stack \cup {NoStack}]
  /\ at \in [Flow -> Thread \cup {Away}]
  /\ nest \in [Flow -> Seq(Unit)]
  /\ context \in Seq(Context) /\ Len(context) <= MaxUnits
  /\ contexts \in 0 .. MaxUnits
  /\ finished \in SUBSET Unit
  /\ disposed \in SUBSET Context /\ strayed \in SUBSET Context /\ refused \in SUBSET Context

Init ==
  /\ stack = [t \in Thread |-> NoStack]
  /\ at = [f \in Flow |-> Away] /\ nest = [f \in Flow |-> <<>>]
  /\ context = <<>> /\ contexts = 0
  /\ finished = {} /\ disposed = {} /\ strayed = {} /\ refused = {}

-------------------------------------------------------------------------------
(* The scheduler: external. *)

Resume(f, t) ==
  /\ at[f] = Away /\ \A g \in Flow : at[g] # t
  /\ at' = [at EXCEPT ![f] = t]
  /\ UNCHANGED <<stack, nest, context, contexts, finished, disposed, strayed, refused>>

ContextsOf(units) == {context[units[i]] : i \in 1 .. Len(units)}

Await(f) ==
  /\ at[f] # Away
  /\ at' = [at EXCEPT ![f] = Away]
  /\ strayed' = strayed \cup ContextsOf(nest[f])
  /\ UNCHANGED <<stack, nest, context, contexts, finished, disposed, refused>>

-------------------------------------------------------------------------------
(* UnitOfWorkScopeManagerBase *)

(* The field that a thread sees as _scopeStack. *)
Slot_Shared(t) == CHOOSE s \in Thread : TRUE
Slot(t) == t

Here(f) == stack[Slot(at[f])]
Put(f, s) == stack' = [stack EXCEPT ![Slot(at[f])] = s]

(* CreateNewStackIfNoneExist *)
StackFor_New(f) == [context |-> contexts + 1, units |-> <<>>]
StackFor(f) ==
  IF Here(f) = NoStack THEN [context |-> contexts + 1, units |-> <<>>] ELSE Here(f)

Handed(s) == IF s.context > contexts THEN s.context ELSE contexts

(* CreateNew *)
CreateNew(f) ==
  LET s == StackFor(f)
      u == Len(context) + 1
  IN /\ at[f] # Away /\ u \in Unit /\ s.context \in Context
     /\ Put(f, [s EXCEPT !.units = Append(@, u)])
     /\ context' = Append(context, s.context)
     /\ contexts' = Handed(s)
     /\ nest' = [nest EXCEPT ![f] = Append(@, u)]
     /\ UNCHANGED <<at, finished, disposed, strayed, refused>>

(* The constructor of UnitOfWork throws: there is a stack by then. *)
CreateNewThrows(f) ==
  /\ at[f] # Away /\ StackFor(f).context \in Context
  /\ Put(f, StackFor(f))
  /\ contexts' = Handed(StackFor(f))
  /\ UNCHANGED <<at, nest, context, finished, disposed, strayed, refused>>

(* ThrowIfNotLastScoped: Peek throws, too, on an empty stack. *)
IsLast(f, u) ==
  /\ Here(f) # NoStack /\ Here(f).units # <<>> /\ Last(Here(f).units) = u

(* Commit: saves the changes that all units of the context have made. *)
Commit(f) ==
  LET u == Last(nest[f])
  IN /\ at[f] # Away /\ nest[f] # <<>> /\ u \notin finished
     /\ IF IsLast(f, u)
        THEN finished' = finished \cup {u} /\ UNCHANGED refused
        ELSE refused' = refused \cup {context[u]} /\ UNCHANGED finished
     /\ UNCHANGED <<stack, at, nest, context, contexts, disposed, strayed>>

(* Remove: what it does of a stack whose last unit it is, once popped. *)
Left_Disposed(s) == NoStack
Left(s) == IF s.units = <<>> THEN NoStack ELSE s

Popped_Kept(s) == s
Popped(s) == [s EXCEPT !.units = Front(@)]

(* Dispose, at the end of a using block: a unit that is not on this        *)
(* thread's stack is ignored; Remove throws for one that is not on top.    *)
Dispose(f) ==
  LET u == Last(nest[f])
      s == Here(f)
      left == Left(Popped(s))
      known == s # NoStack /\ Contains(s.units, u)
  IN /\ at[f] # Away /\ nest[f] # <<>>
     /\ nest' = [nest EXCEPT ![f] = Front(@)]
     /\ \/ /\ ~known
           /\ finished' = finished \cup {u}
           /\ UNCHANGED <<stack, disposed, refused>>
        \/ /\ known /\ ~IsLast(f, u)
           /\ refused' = refused \cup {s.context}
           /\ UNCHANGED <<stack, finished, disposed>>
        \/ /\ known /\ IsLast(f, u)
           /\ Put(f, left)
           /\ disposed' = IF left = NoStack THEN disposed \cup {s.context} ELSE disposed
           /\ finished' = finished \cup {u}
           /\ UNCHANGED refused
     /\ UNCHANGED <<at, context, contexts, strayed>>

-------------------------------------------------------------------------------
Step(f) ==
  \/ Await(f) \/ \E t \in Thread : Resume(f, t)
  \/ CreateNew(f) \/ CreateNewThrows(f) \/ Commit(f) \/ Dispose(f)

Next == \E f \in Flow : Step(f)
Spec == Init /\ [][Next]_vars

-------------------------------------------------------------------------------
(* What should hold. *)

Open == UNION {ToSet(nest[f]) : f \in Flow}

(* No unit of work that is still in its using block ever finds its context *)
(* disposed of, not even one that changed threads: others that share its   *)
(* stack meanwhile leave the context alone.                                *)
OpenUnitHasLiveContext == \A u \in Open : context[u] \notin disposed

(* "Contexts ... will never be shared": units of two flows have different  *)
(* contexts, but for contexts a flow had open while it awaited.            *)
ContextsAreNotShared ==
  \A f, g \in Flow : f # g =>
    ContextsOf(nest[f]) \cap ContextsOf(nest[g]) \subseteq strayed

(* A unit committed or disposed of by its using block is on top of the     *)
(* stack its thread sees, but for those whose contexts have strayed.       *)
InOrderUseIsNeverRefused == refused \subseteq strayed

(* Contexts do not pile up: one that is not disposed of is in use, or      *)
(* waits on a thread's stack that has no unit yet, or has strayed.         *)
NoContextIsLeftBehind ==
  \A c \in (1 .. contexts) \ (disposed \cup strayed) :
    \E t \in Thread :
      /\ stack[t] # NoStack /\ stack[t].context = c
      /\ stack[t].units # <<>> => \E f \in Flow : at[f] = t /\ c \in ContextsOf(nest[f])

(* Why: a unit in its using block is on the stack it was put on, and the   *)
(* stack of a context that has not strayed holds the innermost units of    *)
(* the flow on its thread.                                                 *)
Distinct(s) == \A i, j \in 1 .. Len(s) : s[i] = s[j] => i = j

StacksAreSound ==
  /\ disposed \subseteq 1 .. contexts
  /\ \A t \in Thread : stack[t] # NoStack =>
       /\ stack[t].context <= contexts /\ stack[t].context \notin disposed
       /\ Distinct(stack[t].units)
       /\ \A i \in 1 .. Len(stack[t].units) :
            /\ stack[t].units[i] <= Len(context)
            /\ context[stack[t].units[i]] = stack[t].context
  /\ \A t, w \in Thread : t # w /\ stack[t] # NoStack /\ stack[w] # NoStack =>
       stack[t].context # stack[w].context

NestsAreSound ==
  /\ \A f \in Flow :
       /\ Distinct(nest[f])
       /\ \A i \in 1 .. Len(nest[f]) : nest[f][i] <= Len(context)
  /\ \A f, g \in Flow : f # g => ToSet(nest[f]) \cap ToSet(nest[g]) = {}
  /\ \A f, g \in Flow : f # g /\ at[f] # Away => at[f] # at[g]

OpenIsStacked ==
  \A u \in Open : \E t \in Thread : stack[t] # NoStack /\ u \in ToSet(stack[t].units)

Innermost(units, s) ==
  \E n \in 0 .. Len(s) :
    /\ Len(s) = n + Len(units)
    /\ \A i \in 1 .. Len(units) : units[i] = s[n + i]

StackIsTheFlowsOwn ==
  \A t \in Thread :
    /\ stack[t] # NoStack /\ stack[t].units # <<>> /\ stack[t].context \notin strayed
    => \E f \in Flow : at[f] = t /\ Innermost(stack[t].units, nest[f])

ContextIsStacked ==
  \A c \in (1 .. contexts) \ disposed :
    \E t \in Thread : stack[t] # NoStack /\ stack[t].context = c

(* The inductive invariant. *)
IInv ==
  /\ TypeOK /\ StacksAreSound /\ NestsAreSound /\ OpenIsStacked
  /\ StackIsTheFlowsOwn /\ ContextIsStacked /\ InOrderUseIsNeverRefused
===============================================================================
