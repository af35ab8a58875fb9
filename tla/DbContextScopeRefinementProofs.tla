--------------------- MODULE DbContextScopeRefinementProofs ---------------------
(***************************************************************************)
(* DbContextScope implements BusinessTransaction, for any number of flows, *)
(* scopes and context types, when flows use using blocks and suppress the  *)
(* ambient scope before they fork.                                         *)
(***************************************************************************)
EXTENDS DbContextScopeRefinement, DbContextScopeNestingProofs

Writable(s) == TopLevel(s) /\ ~collection[s].readOnly
Failing(s) == \E f \in Flow : flow[f].at = s /\ flow[f].failed

(* Contexts are shared through the top-level scope that created them.      *)
RootsAreTop == \A s \in Scope : Opened(s) => TopLevel(scope[s].collection)

(* An error is remembered during a save and no longer.                     *)
ErrorsArePassing == \A f \in Flow : flow[f].pc # "commit" => ~flow[f].failed

(* Nobody adds a context or a change during a save, so that what it has    *)
(* not saved is what it has still to do.                                   *)
Exclusive(f) ==
  LET c == collection[flow[f].at]
  IN flow[f].pc = "commit" =>
       /\ c.contexts = flow[f].seen
       /\ ~flow[f].failed /\ ~c.readOnly => c.dirty \subseteq flow[f].todo

SavesAreExclusive == \A f \in Flow : Exclusive(f)

ChangesAreKnown == \A s \in Scope : collection[s].dirty \subseteq collection[s].contexts

Faithful == RootsAreTop /\ ErrorsArePassing /\ SavesAreExclusive /\ ChangesAreKnown

(* The transaction x looks as before. *)
Same(x) ==
  /\ PhaseOf(x)' = PhaseOf(x)
  /\ Writable(x)' <=> Writable(x)
  /\ collection'[x].dirty = collection[x].dirty
  /\ collection'[x].saved = collection[x].saved
  /\ Failing(x)' <=> Failing(x)

-------------------------------------------------------------------------------
(* The steps of a transaction, in terms of the scopes. *)

LEMMA Kept ==
  /\ (\A y \in Scope : PhaseOf(y)' = PhaseOf(y))
       => [s \in Scope |-> PhaseOf(s)]' = [s \in Scope |-> PhaseOf(s)]
  /\ (\A y \in Scope : Writable(y)' <=> Writable(y))
       => {s \in Scope : TopLevel(s) /\ ~collection[s].readOnly}'
            = {s \in Scope : TopLevel(s) /\ ~collection[s].readOnly}
  /\ (\A y \in Scope : collection'[y].dirty = collection[y].dirty)
       => [s \in Scope |-> collection[s].dirty]' = [s \in Scope |-> collection[s].dirty]
  /\ (\A y \in Scope : collection'[y].saved = collection[y].saved)
       => [s \in Scope |-> collection[s].saved]' = [s \in Scope |-> collection[s].saved]
  /\ (\A y \in Scope : Failing(y)' <=> Failing(y))
       => {s \in Scope : \E f \in Flow : flow[f].at = s /\ flow[f].failed}'
            = {s \in Scope : \E f \in Flow : flow[f].at = s /\ flow[f].failed}
  BY DEF Writable, Failing

(* How one transaction moves while the others stay. *)
LEMMA MovesTo ==
  ASSUME NEW x \in Scope, NEW ph, PhaseOf(x)' = ph,
         \A y \in Scope \ {x} : PhaseOf(y)' = PhaseOf(y)
  PROVE  [s \in Scope |-> PhaseOf(s)]' = [[s \in Scope |-> PhaseOf(s)] EXCEPT ![x] = ph]
  OBVIOUS

LEMMA PendingBecomes ==
  ASSUME NEW x \in Scope, NEW d, collection'[x].dirty = d,
         \A y \in Scope \ {x} : collection'[y].dirty = collection[y].dirty
  PROVE  [s \in Scope |-> collection[s].dirty]'
           = [[s \in Scope |-> collection[s].dirty] EXCEPT ![x] = d]
  OBVIOUS

LEMMA IsStutter ==
  ASSUME \A y \in Scope : Same(y)
  PROVE  UNCHANGED Promise!txnVars
  BY Kept DEF Same, Promise!txnVars

LEMMA IsBegin ==
  ASSUME NEW x \in Scope, \A y \in Scope \ {x} : Same(y),
         PhaseOf(x) = "none", PhaseOf(x)' = "open",
         ~Writable(x), Failing(x)' <=> Failing(x),
         collection'[x].dirty = collection[x].dirty, collection'[x].saved = collection[x].saved
  PROVE  Promise!TxnNext
<1> DEFINE w == {s \in Scope : TopLevel(s) /\ ~collection[s].readOnly}
<1>1. w' \in {w, w \cup {x}}
  <2>1. \A y \in Scope \ {x} : y \in w' <=> y \in w
    BY DEF Same, Writable
  <2>2. w \subseteq Scope /\ w' \subseteq Scope /\ x \notin w
    BY DEF Writable
  <2> HIDE DEF w
  <2> QED
    BY <2>1, <2>2
<1>2. Promise!Begin(x)
  BY <1>1, Kept, MovesTo DEF Promise!Begin, Same
<1> QED
  BY <1>2 DEF Promise!TxnNext

LEMMA IsChange ==
  ASSUME NEW x \in Scope, NEW p \in CtxType, \A y \in Scope \ {x} : Same(y),
         PhaseOf(x) \in {"open", "closed"}, PhaseOf(x)' = PhaseOf(x),
         Writable(x)' <=> Writable(x), Failing(x)' <=> Failing(x),
         collection'[x].dirty = collection[x].dirty \cup {p},
         collection'[x].saved = collection[x].saved
  PROVE  Promise!TxnNext
<1>1. Promise!Change(x, p)
  BY Kept, PendingBecomes DEF Promise!Change, Same
<1> QED
  BY <1>1 DEF Promise!TxnNext

LEMMA IsStartSave ==
  ASSUME NEW x \in Scope, \A y \in Scope \ {x} : Same(y),
         PhaseOf(x) = "open", PhaseOf(x)' = "saving",
         Writable(x)' <=> Writable(x), Failing(x)' <=> Failing(x),
         collection'[x].dirty = collection[x].dirty, collection'[x].saved = collection[x].saved
  PROVE  Promise!TxnNext
<1>1. Promise!StartSave(x)
  BY Kept, MovesTo DEF Promise!StartSave, Same
<1> QED
  BY <1>1 DEF Promise!TxnNext

LEMMA IsSavePart ==
  ASSUME NEW x \in Scope, NEW p \in CtxType, \A y \in Scope \ {x} : Same(y),
         PhaseOf(x) = "saving", PhaseOf(x)' = PhaseOf(x), Writable(x),
         Writable(x)' <=> Writable(x), Failing(x)' <=> Failing(x),
         p \in collection[x].dirty,
         collection'[x].dirty = collection[x].dirty \ {p},
         collection'[x].saved = collection[x].saved \cup {p}
  PROVE  Promise!TxnNext
<1>1. [s \in Scope |-> collection[s].saved]'
        = [[s \in Scope |-> collection[s].saved] EXCEPT ![x] = @ \cup {p}]
  BY DEF Same
<1>2. Promise!SavePart(x, p)
  BY <1>1, Kept, PendingBecomes DEF Promise!SavePart, Same, Writable
<1> QED
  BY <1>2 DEF Promise!TxnNext

LEMMA IsFailPart ==
  ASSUME NEW x \in Scope, \A y \in Scope \ {x} : Same(y),
         PhaseOf(x) = "saving", PhaseOf(x)' = PhaseOf(x), Writable(x),
         Writable(x)' <=> Writable(x), Failing(x)',
         collection'[x].dirty = collection[x].dirty, collection'[x].saved = collection[x].saved
  PROVE  Promise!TxnNext
<1>1. {s \in Scope : \E f \in Flow : flow[f].at = s /\ flow[f].failed}'
        = {s \in Scope : \E f \in Flow : flow[f].at = s /\ flow[f].failed} \cup {x}
  BY DEF Same, Failing
<1>2. Promise!FailPart(x)
  BY <1>1, Kept DEF Promise!FailPart, Same, Writable
<1> QED
  BY <1>2 DEF Promise!TxnNext

LEMMA IsEndSave ==
  ASSUME NEW x \in Scope, \A y \in Scope \ {x} : Same(y),
         PhaseOf(x) = "saving", PhaseOf(x)' = "closed",
         Writable(x)' <=> Writable(x), ~Failing(x)',
         Writable(x) /\ ~Failing(x) => collection[x].dirty = {},
         collection'[x].dirty = collection[x].dirty, collection'[x].saved = collection[x].saved
  PROVE  Promise!TxnNext
<1>1. {s \in Scope : \E f \in Flow : flow[f].at = s /\ flow[f].failed}'
        = {s \in Scope : \E f \in Flow : flow[f].at = s /\ flow[f].failed} \ {x}
  BY DEF Same, Failing
<1>2. x \in {s \in Scope : TopLevel(s) /\ ~collection[s].readOnly}
            \ {s \in Scope : \E f \in Flow : flow[f].at = s /\ flow[f].failed}
        => [s \in Scope |-> collection[s].dirty][x] = {}
  BY DEF Writable, Failing
<1>3. Promise!EndSave(x)
  BY <1>1, <1>2, Kept, MovesTo DEF Promise!EndSave, Same
<1> QED
  BY <1>3 DEF Promise!TxnNext

LEMMA IsDrop ==
  ASSUME NEW x \in Scope, \A y \in Scope \ {x} : Same(y),
         PhaseOf(x) \in {"open", "closed"}, PhaseOf(x)' = "closed",
         Writable(x)' <=> Writable(x), Failing(x)' <=> Failing(x),
         collection'[x].dirty = {}, collection'[x].saved = collection[x].saved
  PROVE  Promise!TxnNext
<1>1. Promise!Drop(x)
  BY Kept, MovesTo, PendingBecomes DEF Promise!Drop, Same
<1> QED
  BY <1>1 DEF Promise!TxnNext

-------------------------------------------------------------------------------
(* What a step of a flow means for the transactions. *)

Implements == Promise!TxnNext \/ UNCHANGED Promise!txnVars

(* A flow that is not saving tells the transactions nothing by itself.     *)
LEMMA QuietFlows ==
  ASSUME Faithful, NEW f \in Flow, \A g \in Flow \ {f} : flow'[g] = flow[g],
         flow[f].pc # "commit", flow'[f].pc # "commit", ~flow'[f].failed
  PROVE  /\ \A s \in Scope : (Saving(s)' <=> Saving(s)) /\ (Failing(s)' <=> Failing(s))
         /\ ErrorsArePassing'
<1>1. ~flow[f].failed
  BY DEF Faithful, ErrorsArePassing
<1>2. ASSUME NEW s \in Scope PROVE Saving(s)' <=> Saving(s)
  BY DEF Saving
<1>3. ASSUME NEW s \in Scope PROVE Failing(s)' <=> Failing(s)
  BY <1>1 DEF Failing
<1>4. ErrorsArePassing'
  BY DEF Faithful, ErrorsArePassing
<1> QED
  BY <1>2, <1>3, <1>4

LEMMA ShapeIsKept ==
  ASSUME SameShape
  PROVE  \A s \in Scope : (Opened(s)' <=> Opened(s)) /\ (Nested(s)' <=> Nested(s))
                          /\ (TopLevel(s)' <=> TopLevel(s))
  BY DEF SameShape, Opened, Nested, TopLevel

LEMMA RootsStayTop ==
  ASSUME IInv, Faithful, SameShape
  PROVE  RootsAreTop'
<1>1. \A s \in Scope : scope[s].collection \in Scope /\ scope'[s].collection = scope[s].collection
  BY DEF IInv, TypeOK, ScopeFields, SameShape
<1> QED
  BY <1>1, ShapeIsKept DEF Faithful, RootsAreTop

(* A transaction whose contexts and whose saving stay looks as before.     *)
LEMMA SameIf ==
  ASSUME NEW y \in Scope, TopLevel(y)' <=> TopLevel(y), Saving(y)' <=> Saving(y),
         Failing(y)' <=> Failing(y), collection'[y] = collection[y]
  PROVE  Same(y)
  BY DEF Same, PhaseOf, Writable

LEMMA QuietStep ==
  ASSUME IInv, Faithful, NEW f \in Flow, \A g \in Flow \ {f} : flow'[g] = flow[g],
         flow[f].pc # "commit", flow'[f].pc # "commit", ~flow'[f].failed,
         SameShape, collection' = collection
  PROVE  Faithful' /\ Implements
<1>1. \A y \in Scope : Same(y)
  BY QuietFlows, ShapeIsKept, SameIf
<1>2. UNCHANGED Promise!txnVars
  BY <1>1, IsStutter
<1>3. SavesAreExclusive'
  BY DEF Faithful, SavesAreExclusive, Exclusive
<1>4. ChangesAreKnown'
  BY DEF Faithful, ChangesAreKnown
<1> QED
  BY <1>2, <1>3, <1>4, QuietFlows, RootsStayTop DEF Faithful, Implements

(* What the steps that save nothing and change nothing do to a flow.       *)
LEMMA QuietCalls ==
  ASSUME IInv, Faithful, NEW f \in Flow,
         \/ \E s \in Scope : SaveNested(f, s)
         \/ Suppress(f) \/ (\E i \in 1 .. MaxHeld : Unsuppress(f, i))
         \/ PopThrows(f) \/ Pop(f) \/ EndDispose(f)
  PROVE  Faithful' /\ Implements
<1>1. /\ TypeOK /\ flow[f] \in FlowState /\ ~flow[f].failed /\ flow[f].pc # "commit"
  <2>1. TypeOK /\ flow[f] \in FlowState
    BY DEF IInv, TypeOK
  <2>2. flow[f].pc # "commit"
    BY DEF SaveNested, Suppress, Unsuppress, PopThrows, Pop, EndDispose, Running
  <2> QED
    BY <2>1, <2>2 DEF Faithful, ErrorsArePassing
<1>2. collection' = collection
  BY DEF SaveNested, Suppress, Unsuppress, PopThrows, Pop, EndDispose
<1>3. SameShape
  <2>1. \/ scope' = scope
        \/ \E s \in Scope : scope' = [scope EXCEPT ![s].completed = TRUE]
        \/ scope' = [scope EXCEPT ![flow[f].at].disposed = TRUE]
    BY DEF SaveNested, Suppress, Unsuppress, PopThrows, Pop, EndDispose
  <2> QED
    BY <1>1, <2>1 DEF SameShape, TypeOK, ScopeFields
<1>4. /\ \A g \in Flow \ {f} : flow'[g] = flow[g]
      /\ flow'[f].pc # "commit" /\ ~flow'[f].failed
  <2>1. CASE \E s \in Scope : SaveNested(f, s)
    BY <1>1, <2>1 DEF SaveNested
  <2>2. ASSUME NEW a, NEW q, flow' = [flow EXCEPT ![f].ambient = a, ![f].held = q]
        PROVE  /\ \A g \in Flow \ {f} : flow'[g] = flow[g]
               /\ flow'[f].pc # "commit" /\ ~flow'[f].failed
    <3>1. flow'[f] = [flow[f] EXCEPT !.ambient = a, !.held = q]
      BY <1>1, <2>2 DEF TypeOK
    <3> QED
      BY <1>1, <2>2, <3>1 DEF TypeOK, FlowState
  <2>3. Suppress(f) \/ (\E i \in 1 .. MaxHeld : Unsuppress(f, i))
          => \E a, q : flow' = [flow EXCEPT ![f].ambient = a, ![f].held = q]
    BY DEF Suppress, Unsuppress
  <2>4. CASE PopThrows(f)
    BY <1>1, <2>4 DEF PopThrows, Returned, TypeOK, FlowState
  <2>5. CASE Pop(f)
    BY <1>1, <2>5 DEF Pop, TypeOK, FlowState
  <2>6. CASE EndDispose(f)
    <3>1. PICK q : flow' = [flow EXCEPT ![f] = [Returned(flow[f]) EXCEPT !.held = q]]
      BY <2>6 DEF EndDispose
    <3>2. [Returned(flow[f]) EXCEPT !.held = q].pc = "run"
          /\ [Returned(flow[f]) EXCEPT !.held = q].failed = FALSE
      BY <1>1 DEF Returned, FlowState
    <3> QED
      BY <1>1, <3>1, <3>2 DEF TypeOK
  <2>7. CASE Suppress(f) \/ (\E i \in 1 .. MaxHeld : Unsuppress(f, i))
    <3>1. PICK a, q : flow' = [flow EXCEPT ![f].ambient = a, ![f].held = q]
      BY <2>3, <2>7
    <3> QED
      BY <2>2, <3>1
  <2> QED
    BY <2>1, <2>4, <2>5, <2>6, <2>7
<1> QED
  BY <1>1, <1>2, <1>3, <1>4, QuietStep

LEMMA ForkImplements ==
  ASSUME IInv, Faithful, NEW f \in Flow, NEW g \in Flow, Fork(f, g)
  PROVE  Faithful' /\ Implements
<1>1. TypeOK /\ flow[g] \in FlowState /\ flow[g].pc = "unborn"
  BY DEF IInv, TypeOK, Fork
<1>2. ~flow[g].failed
  BY <1>1 DEF Faithful, ErrorsArePassing
<1>3. /\ \A h \in Flow \ {g} : flow'[h] = flow[h]
      /\ flow'[g].pc = "run" /\ flow'[g].failed = flow[g].failed
  BY <1>1 DEF Fork, TypeOK, FlowState
<1>4. SameShape /\ collection' = collection
  BY DEF Fork, SameShape
<1> QED
  BY <1>1, <1>2, <1>3, <1>4, QuietStep

(* Nobody else saves what a running flow has opened. *)
LEMMA RunningSavesNothing ==
  ASSUME IInv, Faithful, NEW f \in Flow, flow[f].pc # "commit",
         NEW s \in Scope, scope[s].owner = f
  PROVE  ~Saving(s) /\ ~Failing(s)
<1>1. ASSUME NEW g \in Flow, flow[g].pc = "commit", flow[g].at = s PROVE FALSE
  BY <1>1 DEF IInv, BusyOnOwnScope, BusyOnOwn
<1> QED
  BY <1>1 DEF Saving, Failing, Faithful, ErrorsArePassing

(* A flow that saves does so on a transaction of its own.                  *)
LEMMA SaverIsAlone ==
  ASSUME IInv, Faithful, NEW f \in Flow, flow[f].pc = "commit"
  PROVE  /\ flow[f].at \in Scope /\ TopLevel(flow[f].at) /\ Saving(flow[f].at)
         /\ scope[flow[f].at].collection = flow[f].at
         /\ ~collection[flow[f].at].completed
         /\ collection[flow[f].at].readOnly => flow[f].todo = {}
         /\ \A g \in Flow \ {f} : flow[g].at = flow[f].at
                                    => flow[g].pc # "commit" /\ ~flow[g].failed
<1>1. BusyOnOwn(f) /\ flow[f].at \in MaybeScope
  BY HeldIs DEF IInv, BusyOnOwnScope
<1>2. flow[f].at \in Scope /\ scope[flow[f].at].owner = f
  BY <1>1 DEF BusyOnOwn, MaybeScope
<1>3. ~Nested(flow[f].at) /\ ~collection[flow[f].at].completed
      /\ (collection[flow[f].at].readOnly => flow[f].todo = {})
  BY <1>1 DEF BusyOnOwn
<1>4. Opened(flow[f].at) /\ scope[flow[f].at].collection = flow[f].at
  BY <1>2, <1>3, OwnedIsOpened
<1>5. ASSUME NEW g \in Flow \ {f}, flow[g].at = flow[f].at
      PROVE  flow[g].pc # "commit" /\ ~flow[g].failed
  <2>1. flow[g].pc # "commit"
    BY <1>2, <1>5 DEF IInv, BusyOnOwnScope, BusyOnOwn
  <2> QED
    BY <2>1 DEF Faithful, ErrorsArePassing
<1> QED
  BY <1>2, <1>3, <1>4, <1>5 DEF TopLevel, Saving

(* The context a flow asks for is one of its own, opened at the top.       *)
LEMMA UsedIsOwn ==
  ASSUME IInv, BlocksNest, AllSecluded, Tidy, Faithful, NEW f \in Flow, Running(f),
         NEW s \in Scope, s = GetAmbientScope(f) \/ Holds(f, s)
  PROVE  /\ scope[s].collection \in Scope /\ TopLevel(scope[s].collection)
         /\ scope[scope[s].collection].owner = f
<1>1. scope[s].owner = f
  <2>1. CASE Holds(f, s)
    BY <2>1, HeldIsOwned
  <2>2. CASE s = GetAmbientScope(f)
    <3> DEFINE n == Len(flow[f].held)
    <3>1. /\ Nests(flow[f], scope, instances) /\ Secluded(flow[f], scope)
          /\ flow[f].pc \in {"run", "commit", "pop"}
      BY DEF BlocksNest, AllSecluded, Running
    <3>2. s = Expected(flow[f].held, n) /\ s # NoScope /\ n \in Nat
      BY <2>2, <3>1, AmbientIsExpected, HeldIs, ScopeAssumption
    <3>3. n \in 1 .. n /\ flow[f].held[n].kind = "scope" /\ flow[f].held[n].scope = s
      BY <3>2 DEF Expected
    <3> HIDE DEF n
    <3> QED
      BY <3>3, HeldScopes DEF n
  <2> QED
    BY <2>1, <2>2
<1>2. Opened(s) /\ scope[s].collection \in Scope
  BY <1>1, OwnedIsOpened
<1> QED
  BY <1>1, <1>2 DEF Tidy, RootsAreOwn, Faithful, RootsAreTop

LEMMA UseContextImplements ==
  ASSUME IInv, BlocksNest, AllSecluded, Tidy, Faithful, NEW f \in Flow, NEW s \in Scope,
         NEW t \in CtxType, NEW change \in BOOLEAN, UseContext(f, s, t, change)
  PROVE  Faithful' /\ Implements
<1>1. PICK c \in Scope : c = scope[s].collection /\ TopLevel(c) /\ scope[c].owner = f
  BY UsedIsOwn DEF UseContext
<1> DEFINE new == IF change THEN GetAndChange(collection[c], t) ELSE Get(collection[c], t)
<1>2. /\ collection' = [collection EXCEPT ![c] = new]
      /\ scope' = scope /\ instances' = instances /\ flow' = flow /\ flow[f].pc = "run"
  BY <1>1 DEF UseContext, Running
<1>3. ~Saving(c) /\ ~Failing(c) /\ TypeOK
  BY <1>1, <1>2, RunningSavesNothing DEF IInv
<1>4. collection[c] \in Collection
  BY <1>1, <1>3 DEF TypeOK
<1>5. /\ new.readOnly = collection[c].readOnly /\ new.completed = collection[c].completed
      /\ new.saved = collection[c].saved /\ new.contexts = collection[c].contexts \cup {t}
      /\ new.dirty = IF change THEN collection[c].dirty \cup {t} ELSE collection[c].dirty
  <2>1. CASE change
    BY <1>4, <2>1 DEF Collection, GetAndChange, Get
  <2>2. CASE ~change
    BY <1>4, <2>2 DEF Collection, Get
  <2> QED
    BY <2>1, <2>2
<1> HIDE DEF new
<1>6. /\ collection'[c] = new
      /\ \A y \in Scope \ {c} : collection'[y] = collection[y]
  BY <1>1, <1>2, <1>3 DEF TypeOK
<1>7. \A y \in Scope : (TopLevel(y)' <=> TopLevel(y)) /\ (Saving(y)' <=> Saving(y))
                       /\ (Failing(y)' <=> Failing(y))
  BY <1>2 DEF TopLevel, Opened, Nested, Saving, Failing
<1>8. \A y \in Scope \ {c} : Same(y)
  BY <1>6, <1>7, SameIf
<1>9. /\ PhaseOf(c)' = PhaseOf(c) /\ PhaseOf(c) \in {"open", "closed"}
      /\ Writable(c)' <=> Writable(c)
  BY <1>1, <1>3, <1>5, <1>6, <1>7 DEF PhaseOf, Writable
<1>10. Implements
  <2>1. CASE change
    <3>1. Promise!TxnNext
      BY <1>1, <1>5, <1>6, <1>7, <1>8, <1>9, <2>1, IsChange
    <3> QED
      BY <3>1 DEF Implements
  <2>2. CASE ~change
    <3>1. \A y \in Scope : Same(y)
      BY <1>1, <1>5, <1>6, <1>7, <1>8, <1>9, <2>2 DEF Same
    <3> QED
      BY <3>1, IsStutter DEF Implements
  <2> QED
    BY <2>1, <2>2
<1>11. Faithful'
  <2>1. RootsAreTop' /\ ErrorsArePassing'
    BY <1>2, <1>7 DEF Faithful, RootsAreTop, ErrorsArePassing, TopLevel, Opened, Nested
  <2>2. ASSUME NEW g \in Flow PROVE Exclusive(g)'
    <3>1. CASE flow[g].pc = "commit"
      <4>1. flow[g].at \in Scope \ {c}
        BY <1>3, <3>1, SaverIsAlone
      <4> QED
        BY <1>2, <1>6, <4>1 DEF Faithful, SavesAreExclusive, Exclusive
    <3> QED
      BY <1>2, <3>1 DEF Exclusive
  <2>3. ChangesAreKnown'
    BY <1>1, <1>5, <1>6 DEF Faithful, ChangesAreKnown
  <2> QED
    BY <2>1, <2>2, <2>3 DEF Faithful, SavesAreExclusive
<1> QED
  BY <1>10, <1>11

LEMMA OpenImplements ==
  ASSUME IInv, Faithful, NEW f \in Flow, NEW s \in Scope, NEW ro \in BOOLEAN, Open(f, s, ro)
  PROVE  Faithful' /\ Implements
<1> DEFINE p == GetAmbientScope(f)
           root == IF p = NoScope THEN s ELSE scope[p].collection
<1>1. TypeOK /\ ~Opened(s) /\ flow[f].pc = "run" /\ f # NoFlow
  BY ScopeAssumption DEF IInv, Open, Running
<1>2. p # NoScope => p \in Scope /\ Opened(p) /\ TopLevel(scope[p].collection)
                     /\ scope[p].collection \in Scope
  BY <1>1 DEF IInv, TypeOK, ScopeFields, HandlesAreOwned, GetAmbientScope, Faithful, RootsAreTop
<1>3. root \in Scope
  BY <1>2
<1> HIDE DEF p, root
<1>4. /\ scope' = [scope EXCEPT ![s] =
           [owner |-> f, readOnly |-> ro, parent |-> p, collection |-> root,
            completed |-> FALSE, disposed |-> FALSE]]
      /\ collection' = IF p = NoScope THEN [collection EXCEPT ![s] = NewCollection(ro)]
                                      ELSE collection
  BY DEF Open, p, root
<1>5. /\ \A y \in Scope \ {s} : scope'[y] = scope[y] /\ collection'[y] = collection[y]
      /\ scope'[s].owner = f /\ scope'[s].parent = p /\ scope'[s].collection = root
      /\ collection[s] = NewCollection(FALSE)
      /\ collection'[s] = IF p = NoScope THEN NewCollection(ro) ELSE collection[s]
  BY <1>1, <1>4 DEF IInv, TypeOK, ScopesAreRooted
<1>6. \A g \in Flow : flow'[g].pc = flow[g].pc /\ flow'[g].at = flow[g].at
                      /\ flow'[g].failed = flow[g].failed /\ flow'[g].seen = flow[g].seen
                      /\ flow'[g].todo = flow[g].todo
  <2>1. PICK q : flow' = [flow EXCEPT ![f].ambient = s, ![f].held = q]
    BY DEF Open
  <2>2. flow[f] \in FlowState
    BY <1>1 DEF TypeOK
  <2>3. flow'[f] = [flow[f] EXCEPT !.ambient = s, !.held = q]
    BY <1>1, <2>1 DEF TypeOK
  <2> QED
    BY <1>1, <2>1, <2>2, <2>3 DEF TypeOK, FlowState
<1>7. \A y \in Scope : (Saving(y)' <=> Saving(y)) /\ (Failing(y)' <=> Failing(y))
  BY <1>6 DEF Saving, Failing
<1>8. \A y \in Scope \ {s} : (Opened(y)' <=> Opened(y)) /\ (TopLevel(y)' <=> TopLevel(y))
  BY <1>5 DEF TopLevel, Opened, Nested
<1>9. \A y \in Scope \ {s} : Same(y)
  BY <1>5, <1>7, <1>8, SameIf
<1>10. ~TopLevel(s) /\ (TopLevel(s)' <=> p = NoScope)
  BY <1>1, <1>5 DEF TopLevel, Opened, Nested
<1>11. ~Saving(s)
  <2> SUFFICES ASSUME NEW g \in Flow, flow[g].pc = "commit", flow[g].at = s PROVE FALSE
    BY DEF Saving
  <2> QED
    BY <1>10, SaverIsAlone
<1>12. collection'[s].dirty = collection[s].dirty /\ collection'[s].saved = collection[s].saved
       /\ (p = NoScope => ~collection'[s].completed)
  BY <1>5 DEF NewCollection
<1>13. Implements
  <2>1. CASE p = NoScope
    <3>1. PhaseOf(s) = "none" /\ PhaseOf(s)' = "open" /\ ~Writable(s)
      BY <1>7, <1>10, <1>11, <1>12, <2>1 DEF PhaseOf, Writable
    <3>2. Promise!TxnNext
      BY <1>7, <1>9, <1>12, <3>1, IsBegin
    <3> QED
      BY <3>2 DEF Implements
  <2>2. CASE p # NoScope
    <3>1. Same(s)
      BY <1>5, <1>7, <1>10, <2>2, SameIf
    <3> QED
      BY <1>9, <3>1, IsStutter DEF Implements
  <2> QED
    BY <2>1, <2>2
<1>14. RootsAreTop'
  <2>1. PICK r \in Scope : r = root
    BY <1>3
  <2>2. TopLevel(r)'
    <3>1. CASE p = NoScope
      BY <1>10, <2>1, <3>1 DEF root
    <3>2. CASE p # NoScope
      <4>1. TopLevel(r) /\ r # s
        BY <1>2, <1>10, <2>1, <3>2 DEF root
      <4> QED
        BY <1>8, <4>1
    <3> QED
      BY <3>1, <3>2
  <2>3. ASSUME NEW y \in Scope \ {s}, Opened(y) PROVE TopLevel(scope[y].collection)'
    <3>1. PICK c \in Scope : c = scope[y].collection /\ TopLevel(c) /\ c # s
      BY <1>1, <1>10, <2>3 DEF TypeOK, ScopeFields, Faithful, RootsAreTop
    <3>2. TopLevel(c)' /\ scope'[y].collection = c
      BY <1>5, <1>8, <3>1
    <3> QED
      BY <3>2 DEF TopLevel, Opened, Nested
  <2>4. TopLevel(scope[s].collection)'
    BY <1>5, <2>1, <2>2 DEF TopLevel, Opened, Nested
  <2> QED
    BY <1>8, <2>3, <2>4 DEF RootsAreTop
<1>15. ErrorsArePassing'
  BY <1>6 DEF Faithful, ErrorsArePassing
<1>16. SavesAreExclusive'
  <2> SUFFICES ASSUME NEW g \in Flow, flow[g].pc = "commit" PROVE Exclusive(g)'
    BY <1>6 DEF SavesAreExclusive, Exclusive
  <2>1. flow[g].at \in Scope \ {s}
    BY <1>10, SaverIsAlone
  <2> QED
    BY <1>5, <1>6, <2>1 DEF Faithful, SavesAreExclusive, Exclusive
<1>17. ChangesAreKnown'
  BY <1>5 DEF Faithful, ChangesAreKnown, NewCollection
<1> QED
  BY <1>13, <1>14, <1>15, <1>16, <1>17 DEF Faithful

LEMMA BeginCommitImplements ==
  ASSUME IInv, Faithful, NEW f \in Flow, NEW s \in Scope, BeginCommit(f, s)
  PROVE  Faithful' /\ Implements
<1>1. /\ TypeOK /\ flow[f] \in FlowState /\ flow[f].pc = "run" /\ scope[s].owner = f
      /\ collection' = collection /\ scope' = scope
  BY HeldIs, HeldIsOwned DEF IInv, BeginCommit, Running
<1>2. Opened(s) /\ TopLevel(s) /\ scope[s].collection = s
  BY <1>1, OwnedIsOpened DEF BeginCommit, TopLevel
<1>3. /\ ~collection[s].completed
      /\ flow' = [flow EXCEPT ![f].pc = "commit", ![f].at = s,
           ![f].todo = ContextsToSave(collection[s]), ![f].seen = collection[s].contexts,
           ![f].failed = FALSE]
  BY <1>2 DEF BeginCommit, CollectionOf, CanFinish
<1>4. /\ \A g \in Flow \ {f} : flow'[g] = flow[g]
      /\ flow'[f].pc = "commit" /\ flow'[f].at = s /\ ~flow'[f].failed
      /\ flow'[f].todo = ContextsToSave(collection[s])
      /\ flow'[f].seen = collection[s].contexts
  BY <1>1, <1>3 DEF TypeOK, FlowState
<1>5. ~Saving(s) /\ ~Failing(s) /\ ~flow[f].failed
  BY <1>1, RunningSavesNothing DEF Faithful, ErrorsArePassing
<1>6. /\ \A y \in Scope \ {s} : Saving(y)' <=> Saving(y)
      /\ \A y \in Scope : Failing(y)' <=> Failing(y)
      /\ Saving(s)'
  BY <1>1, <1>4, <1>5 DEF Saving, Failing
<1>7. \A y \in Scope : TopLevel(y)' <=> TopLevel(y)
  BY <1>1 DEF TopLevel, Opened, Nested
<1>8. \A y \in Scope \ {s} : Same(y)
  BY <1>1, <1>6, <1>7, SameIf
<1>9. PhaseOf(s) = "open" /\ PhaseOf(s)' = "saving" /\ (Writable(s)' <=> Writable(s))
  BY <1>1, <1>2, <1>3, <1>5, <1>6, <1>7 DEF PhaseOf, Writable
<1>10. Promise!TxnNext
  BY <1>1, <1>6, <1>8, <1>9, IsStartSave
<1>11. ErrorsArePassing' /\ ChangesAreKnown'
  BY <1>1, <1>4 DEF Faithful, ErrorsArePassing, ChangesAreKnown
<1>12. RootsAreTop'
  BY <1>1, RootsStayTop DEF SameShape
<1>13. SavesAreExclusive'
  <2>1. Exclusive(f)'
    BY <1>1, <1>4 DEF Exclusive, ContextsToSave, Faithful, ChangesAreKnown
  <2>2. \A g \in Flow \ {f} : Exclusive(g)'
    BY <1>1, <1>4 DEF Exclusive, Faithful, SavesAreExclusive
  <2> QED
    BY <2>1, <2>2 DEF SavesAreExclusive
<1> QED
  BY <1>10, <1>11, <1>12, <1>13 DEF Faithful, Implements

LEMMA CommitContextImplements ==
  ASSUME IInv, Faithful, NEW f \in Flow, NEW t \in CtxType, NEW ok \in BOOLEAN,
         CommitContext(f, t, ok)
  PROVE  Faithful' /\ Implements
<1>1. PICK x \in Scope : x = flow[f].at
  BY SaverIsAlone DEF CommitContext
<1>2. /\ TypeOK /\ flow[f] \in FlowState /\ flow[f].pc = "commit" /\ t \in flow[f].todo
      /\ TopLevel(x) /\ Saving(x) /\ scope[x].collection = x /\ ~collection[x].completed
      /\ ~collection[x].readOnly
      /\ \A g \in Flow \ {f} : flow[g].at = x => flow[g].pc # "commit" /\ ~flow[g].failed
  BY <1>1, HeldIs, SaverIsAlone DEF IInv, CommitContext
<1>3. /\ scope' = scope
      /\ collection' = IF ok THEN [collection EXCEPT ![x] = SaveContext(@, t)] ELSE collection
      /\ flow' = [flow EXCEPT ![f].todo = @ \ {t}, ![f].failed = @ \/ ~ok]
  BY <1>1, <1>2 DEF CommitContext
<1>4. /\ \A g \in Flow \ {f} : flow'[g] = flow[g]
      /\ flow'[f].pc = "commit" /\ flow'[f].at = x
      /\ flow'[f].failed <=> flow[f].failed \/ ~ok
      /\ flow'[f].todo = flow[f].todo \ {t} /\ flow'[f].seen = flow[f].seen
  BY <1>1, <1>2, <1>3 DEF TypeOK, FlowState
<1>5. /\ \A y \in Scope \ {x} : collection'[y] = collection[y]
      /\ collection'[x] = IF ok THEN SaveContext(collection[x], t) ELSE collection[x]
      /\ collection[x] \in Collection
  BY <1>2, <1>3 DEF TypeOK
<1>6. /\ collection'[x].completed = collection[x].completed
      /\ collection'[x].readOnly = collection[x].readOnly
      /\ collection'[x].contexts = collection[x].contexts
      /\ collection'[x].dirty = IF ok THEN collection[x].dirty \ {t} ELSE collection[x].dirty
      /\ collection'[x].saved = IF ok THEN collection[x].saved \cup (collection[x].dirty \cap {t})
                                      ELSE collection[x].saved
  BY <1>5 DEF SaveContext, Collection
<1>7. /\ \A y \in Scope : Saving(y)' <=> Saving(y)
      /\ \A y \in Scope \ {x} : Failing(y)' <=> Failing(y)
      /\ ok => (Failing(x)' <=> Failing(x))
      /\ ~ok => Failing(x)'
  <2>1. \A y \in Scope : Saving(y)' <=> Saving(y)
    BY <1>1, <1>2, <1>4 DEF Saving
  <2>2. \A y \in Scope \ {x} : Failing(y)' <=> Failing(y)
    BY <1>1, <1>4 DEF Failing
  <2>3. ok => (flow'[f].failed <=> flow[f].failed)
    BY <1>4
  <2>4. ok => (Failing(x)' <=> Failing(x))
    BY <1>1, <1>4, <2>3 DEF Failing
  <2>5. ~ok => Failing(x)'
    BY <1>4 DEF Failing
  <2> QED
    BY <2>1, <2>2, <2>4, <2>5
<1>8. \A y \in Scope : TopLevel(y)' <=> TopLevel(y)
  BY <1>3 DEF TopLevel, Opened, Nested
<1>9. \A y \in Scope \ {x} : Same(y)
  BY <1>5, <1>7, <1>8, SameIf
<1>10. /\ PhaseOf(x) = "saving" /\ PhaseOf(x)' = PhaseOf(x)
       /\ Writable(x) /\ (Writable(x)' <=> Writable(x))
  BY <1>2, <1>6, <1>7, <1>8 DEF PhaseOf, Writable
<1>11. Implements
  <2>1. CASE ok /\ t \in collection[x].dirty
    <3>1. Promise!TxnNext
      BY <1>6, <1>7, <1>9, <1>10, <2>1, IsSavePart
    <3> QED
      BY <3>1 DEF Implements
  <2>2. CASE ok /\ t \notin collection[x].dirty
    <3>1. Same(x)
      BY <1>6, <1>7, <1>10, <2>2 DEF Same
    <3> QED
      BY <1>9, <3>1, IsStutter DEF Implements
  <2>3. CASE ~ok
    <3>1. Promise!TxnNext
      BY <1>6, <1>7, <1>9, <1>10, <2>3, IsFailPart
    <3> QED
      BY <3>1 DEF Implements
  <2> QED
    BY <2>1, <2>2, <2>3
<1>12. ErrorsArePassing' /\ ChangesAreKnown'
  BY <1>4, <1>5, <1>6 DEF Faithful, ErrorsArePassing, ChangesAreKnown
<1>13. RootsAreTop'
  BY <1>3, RootsStayTop DEF SameShape
<1>14. SavesAreExclusive'
  <2>1. Exclusive(f)'
    BY <1>1, <1>2, <1>4, <1>6 DEF Exclusive, Faithful, SavesAreExclusive
  <2>2. ASSUME NEW g \in Flow \ {f} PROVE Exclusive(g)'
    <3>1. CASE flow[g].pc = "commit"
      <4>1. flow[g].at \in Scope \ {x}
        BY <1>2, <3>1, SaverIsAlone
      <4> QED
        BY <1>4, <1>5, <4>1 DEF Exclusive, Faithful, SavesAreExclusive
    <3> QED
      BY <1>4, <3>1 DEF Exclusive
  <2> QED
    BY <2>1, <2>2 DEF SavesAreExclusive
<1> QED
  BY <1>11, <1>12, <1>13, <1>14 DEF Faithful

(* While contexts stay as they were, "Collection was modified" never comes. *)
LEMMA NeverInvalidated ==
  ASSUME IInv, Faithful, NEW f \in Flow, CommitInvalidated(f)
  PROVE  FALSE
<1>1. flow[f].pc = "commit" /\ CollectionOf(flow[f].at).contexts # flow[f].seen
  BY DEF CommitInvalidated, EnumeratorValid
<1> QED
  BY <1>1, SaverIsAlone DEF CollectionOf, Faithful, SavesAreExclusive, Exclusive

LEMMA EndCommitImplements ==
  ASSUME IInv, Faithful, NEW f \in Flow, EndCommit(f)
  PROVE  Faithful' /\ Implements
<1>1. PICK x \in Scope : x = flow[f].at
  BY SaverIsAlone DEF EndCommit
<1>2. /\ TypeOK /\ flow[f] \in FlowState /\ flow[f].pc = "commit" /\ flow[f].todo = {}
      /\ TopLevel(x) /\ Saving(x) /\ scope[x].collection = x /\ ~collection[x].completed
      /\ \A g \in Flow \ {f} : flow[g].at = x => flow[g].pc # "commit" /\ ~flow[g].failed
  BY <1>1, HeldIs, SaverIsAlone DEF IInv, EndCommit
<1>3. /\ scope' = [scope EXCEPT ![x].completed = ~flow[f].failed]
      /\ collection' = [collection EXCEPT ![x] = Completed(@)]
      /\ flow' = [flow EXCEPT ![f] = Returned(@)]
  BY <1>1, <1>2 DEF EndCommit
<1>4. /\ \A g \in Flow \ {f} : flow'[g] = flow[g]
      /\ flow'[f].pc = "run" /\ ~flow'[f].failed
  BY <1>1, <1>2, <1>3 DEF TypeOK, FlowState, Returned
<1>5. /\ \A y \in Scope \ {x} : collection'[y] = collection[y]
      /\ collection'[x] = Completed(collection[x])
      /\ collection[x] \in Collection
  BY <1>2, <1>3 DEF TypeOK
<1>6. /\ collection'[x].completed
      /\ collection'[x].readOnly = collection[x].readOnly
      /\ collection'[x].contexts = collection[x].contexts
      /\ collection'[x].dirty = collection[x].dirty
      /\ collection'[x].saved = collection[x].saved
  BY <1>5 DEF Completed, Collection
<1>7. /\ \A y \in Scope \ {x} : (Saving(y)' <=> Saving(y)) /\ (Failing(y)' <=> Failing(y))
      /\ ~Failing(x)'
  BY <1>1, <1>2, <1>4 DEF Saving, Failing
<1>8. SameShape
  BY <1>2, <1>3 DEF SameShape, TypeOK, ScopeFields
<1>9. \A y \in Scope \ {x} : Same(y)
  BY <1>5, <1>7, <1>8, ShapeIsKept, SameIf
<1>10. /\ PhaseOf(x) = "saving" /\ PhaseOf(x)' = "closed"
       /\ (Writable(x)' <=> Writable(x))
  BY <1>2, <1>6, <1>8, ShapeIsKept DEF PhaseOf, Writable
<1>11. Writable(x) /\ ~Failing(x) => collection[x].dirty = {}
  BY <1>1, <1>2 DEF Writable, Failing, Faithful, SavesAreExclusive, Exclusive
<1>12. Promise!TxnNext
  BY <1>6, <1>7, <1>9, <1>10, <1>11, IsEndSave
<1>13. ErrorsArePassing' /\ ChangesAreKnown'
  BY <1>4, <1>5, <1>6 DEF Faithful, ErrorsArePassing, ChangesAreKnown
<1>14. SavesAreExclusive'
  <2>1. Exclusive(f)'
    BY <1>4 DEF Exclusive
  <2>2. ASSUME NEW g \in Flow \ {f} PROVE Exclusive(g)'
    <3>1. CASE flow[g].pc = "commit"
      <4>1. flow[g].at \in Scope \ {x}
        BY <1>2, <3>1, SaverIsAlone
      <4> QED
        BY <1>4, <1>5, <4>1 DEF Exclusive, Faithful, SavesAreExclusive
    <3> QED
      BY <1>4, <3>1 DEF Exclusive
  <2> QED
    BY <2>1, <2>2 DEF SavesAreExclusive
<1> QED
  BY <1>8, <1>12, <1>13, <1>14, RootsStayTop DEF Faithful, Implements

LEMMA BeginDisposeImplements ==
  ASSUME IInv, Faithful, NEW f \in Flow, NEW i, BeginDispose(f, i)
  PROVE  Faithful' /\ Implements
<1>1. /\ TypeOK /\ flow[f] \in FlowState /\ flow[f].pc = "run"
      /\ i \in 1 .. Len(flow[f].held) /\ flow[f].held[i].kind = "scope"
  BY HeldIs, HeldLength DEF IInv, BeginDispose, Disposable, Running
<1>2. PICK x \in Scope : x = flow[f].held[i].scope
  BY <1>1, HeldScopes
<1>3. /\ Opened(x) /\ scope[x].owner = f /\ ~flow[f].failed
      /\ ~Nested(x) => scope[x].collection = x
  BY <1>1, <1>2, HeldScopes, OwnedIsOpened DEF Faithful, ErrorsArePassing
<1>4. /\ flow' = [flow EXCEPT ![f].pc = "pop", ![f].at = x]
      /\ scope' = scope \/ scope' = [scope EXCEPT ![x].completed = TRUE]
      /\ \/ collection' = collection
         \/ ~Nested(x) /\ collection' = [collection EXCEPT ![x] = DisposeCollection(@)]
  BY <1>2, <1>3 DEF BeginDispose
<1>5. /\ \A g \in Flow \ {f} : flow'[g] = flow[g]
      /\ flow'[f].pc = "pop" /\ ~flow'[f].failed
  BY <1>1, <1>3, <1>4 DEF TypeOK, FlowState
<1>6. SameShape
  BY <1>1, <1>4 DEF SameShape, TypeOK, ScopeFields
<1>7. CASE collection' = collection
  BY <1>1, <1>5, <1>6, <1>7, QuietStep
<1>8. CASE ~Nested(x) /\ collection' = [collection EXCEPT ![x] = DisposeCollection(@)]
  <2>1. TopLevel(x) /\ ~Saving(x)
    BY <1>1, <1>3, <1>8, RunningSavesNothing DEF TopLevel
  <2>2. /\ \A y \in Scope \ {x} : collection'[y] = collection[y]
        /\ collection'[x] = DisposeCollection(collection[x])
        /\ collection[x] \in Collection
    BY <1>1, <1>8 DEF TypeOK
  <2>3. /\ collection'[x].completed
        /\ collection'[x].readOnly = collection[x].readOnly
        /\ collection'[x].dirty = {}
        /\ collection'[x].saved = collection[x].saved
    BY <2>2 DEF DisposeCollection, Completed, Collection
  <2>4. \A y \in Scope : (Saving(y)' <=> Saving(y)) /\ (Failing(y)' <=> Failing(y))
    BY <1>1, <1>5, QuietFlows
  <2>5. \A y \in Scope \ {x} : Same(y)
    BY <1>6, <2>2, <2>4, ShapeIsKept, SameIf
  <2>6. /\ PhaseOf(x) \in {"open", "closed"} /\ PhaseOf(x)' = "closed"
        /\ Writable(x)' <=> Writable(x)
    BY <1>6, <2>1, <2>3, ShapeIsKept DEF PhaseOf, Writable
  <2>7. Promise!TxnNext
    BY <2>3, <2>4, <2>5, <2>6, IsDrop
  <2>8. ErrorsArePassing' /\ RootsAreTop'
    BY <1>1, <1>5, <1>6, QuietFlows, RootsStayTop
  <2>9. ChangesAreKnown'
    BY <2>2, <2>3 DEF Faithful, ChangesAreKnown
  <2>10. ASSUME NEW g \in Flow PROVE Exclusive(g)'
    <3>1. CASE g # f /\ flow[g].pc = "commit"
      <4>1. flow[g].at \in Scope \ {x}
        BY <2>1, <3>1, SaverIsAlone
      <4> QED
        BY <1>5, <2>2, <3>1, <4>1 DEF Exclusive, Faithful, SavesAreExclusive
    <3> QED
      BY <1>5, <3>1 DEF Exclusive
  <2> QED
    BY <2>7, <2>8, <2>9, <2>10 DEF Faithful, SavesAreExclusive, Implements
<1> QED
  BY <1>4, <1>7, <1>8

-------------------------------------------------------------------------------
(* The refinement. *)

LEMMA InitImplements == Init => Faithful /\ Promise!TxnInit
<1> SUFFICES ASSUME Init PROVE Faithful /\ Promise!TxnInit
  OBVIOUS
<1>1. /\ \A s \in Scope : ~Opened(s) /\ collection[s].dirty = {} /\ collection[s].saved = {}
      /\ \A f \in Flow : flow[f].pc # "commit" /\ ~flow[f].failed
  BY DEF Init, Opened, NewCollection
<1>2. Faithful
  BY <1>1 DEF Faithful, RootsAreTop, ErrorsArePassing, SavesAreExclusive, Exclusive,
              ChangesAreKnown
<1>3. \A s \in Scope : PhaseOf(s) = "none" /\ ~TopLevel(s)
  BY <1>1 DEF PhaseOf, TopLevel
<1>4. Promise!TxnInit
  BY <1>1, <1>3 DEF Promise!TxnInit
<1> QED
  BY <1>2, <1>4

LEMMA NextImplements ==
  ASSUME UsingBlocks, SuppressBeforeFork, IInv, BlocksNest, AllSecluded, Tidy, Faithful,
         [Next]_vars
  PROVE  Faithful' /\ Implements
<1>1. ASSUME NEW f \in Flow, Call(f) PROVE Faithful' /\ Implements
  BY <1>1, OpenImplements, UseContextImplements, BeginCommitImplements, QuietCalls,
     ForkImplements DEF Call
<1>2. ASSUME NEW f \in Flow, Proceed(f) PROVE Faithful' /\ Implements
  BY <1>2, CommitContextImplements, NeverInvalidated, EndCommitImplements, QuietCalls
  DEF Proceed
<1>3. ASSUME NEW f \in Flow, NEW i \in 1 .. MaxHeld, Close(f, i) PROVE Faithful' /\ Implements
  BY <1>3, BeginDisposeImplements, QuietCalls DEF Close
<1>4. CASE UNCHANGED vars
  <2>1. \A y \in Scope : Same(y)
    BY <1>4 DEF vars, Same, PhaseOf, Writable, TopLevel, Opened, Nested, Saving, Failing
  <2>2. RootsAreTop'
    BY <1>4, RootsStayTop DEF vars, SameShape
  <2>3. ErrorsArePassing' /\ SavesAreExclusive' /\ ChangesAreKnown'
    BY <1>4 DEF vars, Faithful, ErrorsArePassing, SavesAreExclusive, Exclusive, ChangesAreKnown
  <2> QED
    BY <2>1, <2>2, <2>3, IsStutter DEF Faithful, Implements
<1> QED
  BY <1>1, <1>2, <1>3, <1>4 DEF Next

(* A top-level scope keeps the promise of IDbContextScope: its changes     *)
(* become durable inside its one SaveChanges or never, one that succeeds   *)
(* leaves nothing pending, and what comes later is lost with the contexts. *)
THEOREM KeepsItsPromise ==
  UsingBlocks /\ SuppressBeforeFork => (Spec => ImplementsTransaction)
<1> DEFINE Safe == UsingBlocks /\ SuppressBeforeFork /\ IInv /\ BlocksNest /\ AllSecluded
                   /\ Tidy /\ Faithful
<1>1. UsingBlocks /\ SuppressBeforeFork /\ Init => Safe /\ Promise!TxnInit
  BY InitKeeps, InitNests, InitSecluded, InitImplements
<1>2. Safe /\ [Next]_vars => Safe' /\ [Promise!TxnNext]_(Promise!txnVars)
  <2> SUFFICES ASSUME Safe, [Next]_vars
               PROVE  Safe' /\ [Promise!TxnNext]_(Promise!txnVars)
    OBVIOUS
  <2>1. IInv' /\ BlocksNest' /\ AllSecluded' /\ Tidy'
    BY NextKeeps, NextNests, NextSecluded
  <2>2. Faithful' /\ Implements
    BY NextImplements
  <2> QED
    BY <2>1, <2>2 DEF Implements
<1> HIDE DEF Safe
<1> QED
  BY <1>1, <1>2, PTL DEF Spec, ImplementsTransaction, Promise!TxnSpec
================================================================================
