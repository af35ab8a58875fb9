-------------------------- MODULE DbContextScopeProofs --------------------------
(***************************************************************************)
(* Proofs about DbContextScope for any number of flows, scopes and         *)
(* context types, and for any behaviour of the callers.                    *)
(***************************************************************************)
EXTENDS DbContextScope, SequenceTheorems, TLAPS

(* Removing one handle leaves a sequence of handles, all of them old.      *)
LEMMA WithoutIndexIsSeq ==
  ASSUME NEW S, NEW q \in Seq(S), NEW i \in DOMAIN q
  PROVE  /\ WithoutIndex(q, i) \in Seq(S)
         /\ \A k \in DOMAIN WithoutIndex(q, i) : \E j \in DOMAIN q : WithoutIndex(q, i)[k] = q[j]
  <1>1. i \in 1 .. Len(q) /\ DOMAIN q = 1 .. Len(q) /\ Len(q) \in Nat
    OBVIOUS
  <1> DEFINE a == SubSeq(q, 1, i - 1)
             b == SubSeq(q, i + 1, Len(q))
  <1>2. a \in Seq(S) /\ Len(a) = i - 1 /\ \A k \in 1 .. i - 1 : a[k] = q[k]
    BY <1>1
  <1>3. b \in Seq(S) /\ Len(b) = Len(q) - i /\ \A k \in 1 .. Len(q) - i : b[k] = q[i + k]
    BY <1>1
  <1> HIDE DEF a, b
  <1>4. a \o b \in Seq(S) /\ Len(a \o b) = Len(a) + Len(b)
    BY <1>2, <1>3, ConcatProperties
  <1>5. ASSUME NEW k \in DOMAIN (a \o b)
        PROVE  \E j \in DOMAIN q : (a \o b)[k] = q[j]
    <2>1. k \in 1 .. Len(q) - 1
      BY <1>1, <1>2, <1>3, <1>4, <1>5
    <2>2. CASE k <= i - 1
      BY <2>1, <2>2, <1>1, <1>2, <1>3
    <2>3. CASE ~(k <= i - 1)
      <3>1. (a \o b)[k] = b[k - (i - 1)]
        BY <2>1, <2>3, <1>1, <1>2, <1>3
      <3>2. b[k - (i - 1)] = q[i + (k - (i - 1))] /\ i + (k - (i - 1)) \in DOMAIN q
        BY <2>1, <2>3, <1>1, <1>3
      <3> QED BY <3>1, <3>2
    <2> QED BY <2>2, <2>3
  <1> QED
    BY <1>4, <1>5 DEF WithoutIndex, a, b

--------------------------------------------------------------------------------
(* The inductive invariant: one lemma per action. *)

LEMMA InitKeeps == Init => IInv
  BY ScopeAssumption
  DEF Init, IInv, TypeOK, ScopesAreRooted, HandlesAreOwned, BusyOnOwnScope,
      BusyOnOwn, NoWriterOnReadOnlyContexts, ReadOnlyNeverSaves, ScopeFields, Collection,
      FlowState, MaybeScope, NewCollection, Opened, Nested, CollectionOf

LEMMA OpenKeeps ==
  ASSUME IInv, NEW f \in Flow, NEW s \in Scope, NEW ro \in BOOLEAN, Open(f, s, ro)
  PROVE  IInv'
  <1> DEFINE p == GetAmbientScope(f)
             root == IF p = NoScope THEN s ELSE scope[p].collection
  <1>1. TypeOK
    BY DEF IInv
  <1>2. p \in MaybeScope /\ (p # NoScope => p \in Scope /\ Opened(p) /\ Opened(scope[p].collection))
    BY <1>1 DEF IInv, TypeOK, HandlesAreOwned, ScopesAreRooted, GetAmbientScope, MaybeScope
  <1>3. root \in Scope
    BY <1>1, <1>2 DEF TypeOK, ScopeFields
  <1> HIDE DEF p, root
  <1>4. TypeOK'
    <2>1. (scope \in [Scope -> ScopeFields])'
      BY <1>1, <1>2, <1>3 DEF Open, TypeOK, ScopeFields, p, root
    <2>2. (collection \in [Scope -> Collection])'
      BY <1>1 DEF Open, TypeOK, Collection, NewCollection
    <2>3. (flow \in [Flow -> FlowState])'
      <3>1. ScopeHandle(s) \in Handle
        BY DEF ScopeHandle, Handle, MaybeScope
      <3>2. Append(flow[f].held, ScopeHandle(s)) \in Seq(Handle)
        BY <1>1, <3>1 DEF TypeOK, FlowState
      <3> DEFINE q == Append(flow[f].held, ScopeHandle(s))
      <3>3. flow' = [flow EXCEPT ![f].ambient = s, ![f].held = q]
        BY DEF Open
      <3> HIDE DEF q
      <3>4. \A g \in Flow : flow[g] \in FlowState
        BY <1>1 DEF TypeOK
      <3>5. [flow[f] EXCEPT !.ambient = s, !.held = q] \in FlowState
        BY <3>2, <3>4 DEF FlowState, MaybeScope, q
      <3> QED BY <1>1, <3>3, <3>4, <3>5 DEF TypeOK
    <2> QED BY <2>1, <2>2, <2>3, <1>1 DEF Open, TypeOK
  <1>5. /\ ~Opened(s) /\ f # NoFlow /\ s # NoScope
        /\ scope' = [scope EXCEPT ![s] =
             [owner |-> f, readOnly |-> ro, parent |-> p, collection |-> root,
              completed |-> FALSE, disposed |-> FALSE]]
        /\ collection' = IF p = NoScope THEN [collection EXCEPT ![s] = NewCollection(ro)]
                                        ELSE collection
        /\ p # NoScope => (scope[p].readOnly => ro)
    BY ScopeAssumption DEF Open, MayNest, p, root
  <1>6. /\ \A x \in Scope \ {s} : scope'[x] = scope[x] /\ collection'[x] = collection[x]
        /\ scope'[s].owner = f /\ scope'[s].parent = p /\ scope'[s].collection = root
        /\ scope'[s].readOnly = ro
        /\ p = NoScope => collection'[s] = NewCollection(ro)
        /\ p # NoScope => collection'[s] = collection[s]
    BY <1>1, <1>5 DEF TypeOK
  <1>7. \A x \in Scope : Opened(x) => Opened(x)' /\ x # s
    BY <1>5, <1>6 DEF Opened
  <1>8. Opened(s)'
    BY <1>5, <1>6 DEF Opened
  <1>9. ScopesAreRooted'
    <2> SUFFICES ASSUME NEW x \in Scope
                 PROVE  /\ ~Opened(x)' => collection'[x] = NewCollection(FALSE)
                        /\ Opened(x)' => /\ (Opened(scope[x].collection))'
                                         /\ Nested(x)' => (Opened(scope[x].parent))'
                                         /\ ~Nested(x)' => scope'[x].collection = x
      BY DEF ScopesAreRooted
    <2>1. CASE x = s
      BY <2>1, <1>2, <1>3, <1>5, <1>6, <1>7, <1>8 DEF Opened, Nested, root
    <2>2. CASE x # s
      <3>1. /\ scope'[x] = scope[x] /\ collection'[x] = collection[x]
            /\ scope[x].collection \in Scope
            /\ scope[x].parent # NoScope => scope[x].parent \in Scope
        BY <2>2, <1>1, <1>6 DEF TypeOK, ScopeFields, MaybeScope
      <3>2. ScopesAreRooted
        BY DEF IInv
      <3> QED BY <3>1, <3>2, <1>7 DEF ScopesAreRooted, Opened, Nested
    <2> QED BY <2>1, <2>2
  <1>10. HandlesAreOwned'
    <2>1. \A x \in instances' : Opened(x)'
      BY <1>1, <1>7, <1>8 DEF IInv, TypeOK, HandlesAreOwned, Open
    <2>2. ASSUME NEW g \in Flow, NEW i \in DOMAIN flow'[g].held
          PROVE  OwnsHandle(g, flow[g].held[i])'
      <3>1. CASE g = f /\ i = Len(flow[f].held) + 1
        <4>1. flow'[g].held[i] = ScopeHandle(s)
          BY <1>1, <3>1 DEF Open, TypeOK, FlowState
        <4> QED BY <4>1, <3>1, <1>5, <1>6, <1>8 DEF ScopeHandle, OwnsHandle
      <3>2. CASE ~(g = f /\ i = Len(flow[f].held) + 1)
        <4>1. i \in DOMAIN flow[g].held /\ flow'[g].held[i] = flow[g].held[i]
          BY <1>1, <2>2, <3>2 DEF Open, TypeOK, FlowState
        <4>2. flow[g].held[i] \in Handle
          BY <4>1, <1>1 DEF TypeOK, FlowState
        <4>3. \A x \in Scope : scope[x].owner = g => scope'[x].owner = g
          BY <1>1, <1>5, <1>6, ScopeAssumption DEF Opened
        <4>4. OwnsHandle(g, flow[g].held[i])
          BY <4>1 DEF IInv, HandlesAreOwned
        <4> QED BY <4>1, <4>2, <4>3, <4>4, <1>7 DEF OwnsHandle, Handle, MaybeScope
      <3> QED BY <3>1, <3>2
    <2> QED BY <2>1, <2>2, Zenon DEF HandlesAreOwned
  <1>11. BusyOnOwnScope'
    <2> SUFFICES ASSUME NEW g \in Flow
                 PROVE  BusyOnOwn(g)'
      BY DEF BusyOnOwnScope
    <2>1. /\ flow'[g].pc = flow[g].pc /\ flow'[g].at = flow[g].at /\ flow'[g].todo = flow[g].todo
          /\ flow[g].at \in MaybeScope
      BY <1>1 DEF Open, TypeOK, FlowState
    <2>2. CASE flow[g].pc \in {"commit", "pop", "mark"}
      <3>1. flow[g].at \in Scope \ {s}
        BY <2>1, <2>2, <1>5, ScopeAssumption
        DEF IInv, BusyOnOwnScope, BusyOnOwn, Opened, MaybeScope
      <3> QED BY <3>1, <2>1, <2>2, <1>6 DEF IInv, BusyOnOwnScope, BusyOnOwn, Nested
    <2>3. CASE flow[g].pc \notin {"commit", "pop", "mark"}
      BY <2>1, <2>3 DEF BusyOnOwn
    <2> QED BY <2>2, <2>3
  <1>12. NoWriterOnReadOnlyContexts'
    <2> SUFFICES ASSUME NEW x \in Scope, Opened(x)', CollectionOf(x)'.readOnly
                 PROVE  scope'[x].readOnly
      BY DEF NoWriterOnReadOnlyContexts
    <2>1. CASE x = s /\ p = NoScope
      BY <2>1, <1>6 DEF CollectionOf, NewCollection, root
    <2>2. CASE x = s /\ p # NoScope
      BY <2>2, <1>2, <1>5, <1>6 DEF CollectionOf, IInv, NoWriterOnReadOnlyContexts, root, Opened
    <2>3. CASE x # s
      <3>1. Opened(x) /\ Opened(scope[x].collection) /\ scope[x].collection \in Scope
        BY <2>3, <1>1, <1>6 DEF IInv, ScopesAreRooted, Opened, TypeOK, ScopeFields
      <3> QED BY <2>3, <3>1, <1>5, <1>6 DEF CollectionOf, IInv, NoWriterOnReadOnlyContexts
    <2> QED BY <2>1, <2>2, <2>3
  <1>13. ReadOnlyNeverSaves'
    BY <1>1, <1>6 DEF IInv, ReadOnlyNeverSaves, NewCollection
  <1> QED BY <1>4, <1>9, <1>10, <1>11, <1>12, <1>13 DEF IInv

(* After Open, a scope keeps its owner, its parent and its contexts: the   *)
(* steps below only have to say what they do to collections and flows.     *)
SameShape ==
  \A s \in Scope :
    /\ scope'[s].owner = scope[s].owner /\ scope'[s].parent = scope[s].parent
    /\ scope'[s].collection = scope[s].collection
    /\ scope'[s].readOnly = scope[s].readOnly

SameReadOnly ==
  \A s \in Scope :
    /\ ~Opened(s) => collection'[s] = collection[s]
    /\ collection'[s].readOnly = collection[s].readOnly
    /\ collection[s].readOnly => collection'[s].saved = collection[s].saved

LEMMA ShapeKeeps ==
  ASSUME IInv, TypeOK', SameShape, SameReadOnly, HandlesAreOwned', BusyOnOwnScope'
  PROVE  IInv'
  <1>1. /\ TypeOK
        /\ \A s \in Scope : Opened(s)' <=> Opened(s)
        /\ \A s \in Scope : Nested(s)' <=> Nested(s)
        /\ \A s \in Scope : /\ scope[s].collection \in Scope
                            /\ Nested(s) => scope[s].parent \in Scope
    BY DEF IInv, TypeOK, ScopeFields, MaybeScope, SameShape, Opened, Nested
  <1>2. ScopesAreRooted'
    <2> SUFFICES ASSUME NEW s \in Scope
                 PROVE  (/\ ~Opened(s) => collection[s] = NewCollection(FALSE)
                         /\ Opened(s) => /\ Opened(scope[s].collection)
                                         /\ Nested(s) => Opened(scope[s].parent)
                                         /\ ~Nested(s) => scope[s].collection = s)'
      BY DEF ScopesAreRooted
    <2>1. /\ ~Opened(s) => collection[s] = NewCollection(FALSE)
          /\ Opened(s) => /\ Opened(scope[s].collection)
                          /\ Nested(s) => Opened(scope[s].parent)
                          /\ ~Nested(s) => scope[s].collection = s
      BY DEF IInv, ScopesAreRooted
    <2>2. ~Opened(s) => collection'[s] = NewCollection(FALSE)
      BY <2>1 DEF SameReadOnly
    <2>3. scope'[s].collection = scope[s].collection /\ scope'[s].parent = scope[s].parent
      BY DEF SameShape
    <2>4. \A x \in Scope : scope'[x].owner = scope[x].owner
      BY DEF SameShape
    <2> QED BY <1>1, <2>1, <2>2, <2>3, <2>4 DEF Opened, Nested
  <1>3. NoWriterOnReadOnlyContexts'
    BY <1>1 DEF IInv, NoWriterOnReadOnlyContexts, CollectionOf, SameShape, SameReadOnly
  <1>4. ReadOnlyNeverSaves'
    BY DEF IInv, ReadOnlyNeverSaves, SameReadOnly
  <1> QED BY <1>2, <1>3, <1>4 DEF IInv

LEMMA HandleType ==
  ASSUME TypeOK, NEW f \in Flow, NEW i \in DOMAIN flow[f].held
  PROVE  /\ flow[f].held \in Seq(Handle) /\ flow[f].held[i] \in Handle
         /\ flow[f].held[i].kind \in {"scope", "suppressor"}
         /\ flow[f].held[i].scope \in MaybeScope
  <1>1. flow[f].held \in Seq(Handle)
    BY DEF TypeOK, FlowState
  <1>2. flow[f].held[i] \in Handle
    BY <1>1
  <1> QED BY <1>1, <1>2 DEF Handle

LEMMA SameHandles ==
  ASSUME IInv, SameShape, \A g \in Flow : flow'[g].held = flow[g].held,
         \A s \in instances' : s \in Scope /\ Opened(s)
  PROVE  HandlesAreOwned'
  <1>1. ASSUME NEW g \in Flow, NEW i \in DOMAIN flow'[g].held
        PROVE  OwnsHandle(g, flow[g].held[i])'
    <2>1. i \in DOMAIN flow[g].held /\ flow'[g].held[i] = flow[g].held[i]
      BY <1>1
    <2>2. OwnsHandle(g, flow[g].held[i])
      BY <2>1 DEF IInv, HandlesAreOwned
    <2>3. flow[g].held[i].scope \in MaybeScope
      BY <2>1, HandleType DEF IInv
    <2> QED BY <2>1, <2>2, <2>3 DEF OwnsHandle, SameShape, Opened, MaybeScope
  <1> QED BY <1>1 DEF HandlesAreOwned, SameShape, Opened

(* What a handle of a flow is: a scope of that flow. *)
LEMMA HeldIsOwned ==
  ASSUME IInv, NEW f \in Flow, NEW s \in Scope, Holds(f, s)
  PROVE  scope[s].owner = f
  BY DEF IInv, Holds, ScopeHandle, HandlesAreOwned, OwnsHandle

LEMMA OwnedIsOpened ==
  ASSUME IInv, NEW f \in Flow, NEW s \in Scope, scope[s].owner = f
  PROVE  /\ Opened(s) /\ Opened(scope[s].collection) /\ scope[s].collection \in Scope
         /\ ~Nested(s) => scope[s].collection = s
  BY ScopeAssumption DEF IInv, TypeOK, ScopesAreRooted, ScopeFields, Opened

LEMMA UseContextKeeps ==
  ASSUME IInv, NEW f \in Flow, NEW s \in Scope, NEW t \in CtxType, NEW change \in BOOLEAN,
         UseContext(f, s, t, change)
  PROVE  IInv'
  <1>1. TypeOK
    BY DEF IInv
  <1> DEFINE c == scope[s].collection
             new == IF change THEN GetAndChange(collection[c], t) ELSE Get(collection[c], t)
  <1>2. c \in Scope /\ Opened(c)
    <2>1. CASE Holds(f, s)
      BY <2>1, HeldIsOwned, OwnedIsOpened
    <2>2. CASE s = GetAmbientScope(f)
      <3>1. s \in instances
        BY <2>2, ScopeAssumption DEF GetAmbientScope
      <3> QED BY <3>1, <1>1 DEF IInv, HandlesAreOwned, ScopesAreRooted, TypeOK, ScopeFields
    <2> QED BY <2>1, <2>2 DEF UseContext
  <1>3. /\ collection' = [collection EXCEPT ![c] = new]
        /\ scope' = scope /\ instances' = instances /\ flow' = flow
    BY DEF UseContext
  <1>4. /\ new \in Collection
        /\ new.readOnly = collection[c].readOnly /\ new.saved = collection[c].saved
        /\ new.completed = collection[c].completed
    <2>1. collection[c] \in Collection
      BY <1>1, <1>2 DEF TypeOK
    <2> HIDE DEF c
    <2>2. CASE change
      BY <2>1, <2>2 DEF Collection, GetAndChange, Get
    <2>3. CASE ~change
      BY <2>1, <2>3 DEF Collection, Get
    <2> QED BY <2>2, <2>3
  <1> HIDE DEF c, new
  <1>5. TypeOK'
    BY <1>1, <1>2, <1>3, <1>4 DEF TypeOK
  <1>6. SameShape /\ SameReadOnly
    BY <1>1, <1>2, <1>3, <1>4 DEF SameShape, SameReadOnly, TypeOK
  <1>7. HandlesAreOwned'
    BY <1>1, <1>3, <1>6, SameHandles DEF IInv, HandlesAreOwned, TypeOK
  <1>8. BusyOnOwnScope'
    BY <1>1, <1>2, <1>3, <1>4 DEF IInv, BusyOnOwnScope, BusyOnOwn, TypeOK, Nested
  <1> QED BY <1>5, <1>6, <1>7, <1>8, ShapeKeeps

(* For a step of one flow only: its new state is typed, the others keep    *)
(* theirs.                                                                 *)
LEMMA FlowUpdated ==
  ASSUME TypeOK, NEW f \in Flow, NEW new \in FlowState, flow' = [flow EXCEPT ![f] = new]
  PROVE  /\ flow' \in [Flow -> FlowState] /\ flow'[f] = new
         /\ \A g \in Flow \ {f} : flow'[g] = flow[g]
  BY DEF TypeOK

LEMMA ReturnedType ==
  ASSUME NEW fs \in FlowState
  PROVE  /\ Returned(fs) \in FlowState /\ Returned(fs).pc = "run"
         /\ Returned(fs).held = fs.held
  BY DEF Returned, FlowState, MaybeScope

(* A step of flow f that leaves it with handles it owns and finishes no    *)
(* collection but its own.                                                 *)
LEMMA FlowStepKeeps ==
  ASSUME IInv, SameShape, SameReadOnly, NEW f \in Flow, NEW new \in FlowState,
         flow' = [flow EXCEPT ![f] = new],
         \A i \in DOMAIN new.held : OwnsHandle(f, new.held[i]),
         scope' \in [Scope -> ScopeFields], collection' \in [Scope -> Collection],
         \A s \in instances' : s \in Scope /\ Opened(s),
         BusyOnOwn(f)',
         \A s \in Scope : scope[s].owner # f /\ ~Nested(s)
            => collection'[s].completed = collection[s].completed
  PROVE  IInv'
  <1>1. TypeOK /\ HandlesAreOwned /\ BusyOnOwnScope
    BY DEF IInv
  <1>2. /\ flow' \in [Flow -> FlowState] /\ flow'[f] = new
        /\ \A g \in Flow \ {f} : flow'[g] = flow[g]
    BY <1>1, FlowUpdated
  <1>3. TypeOK'
    BY <1>2 DEF TypeOK
  <1>4. HandlesAreOwned'
    <2>1. ASSUME NEW g \in Flow, NEW i \in DOMAIN flow'[g].held
          PROVE  OwnsHandle(g, flow[g].held[i])'
      <3>1. OwnsHandle(g, flow'[g].held[i])
        BY <2>1, <1>1, <1>2 DEF HandlesAreOwned
      <3>2. flow'[g].held[i].scope \in MaybeScope
        <4>1. flow'[g].held \in Seq(Handle)
          BY <2>1, <1>2 DEF FlowState
        <4>2. flow'[g].held[i] \in Handle
          BY <2>1, <4>1
        <4> QED BY <4>2 DEF Handle
      <3> QED BY <3>1, <3>2 DEF OwnsHandle, SameShape, Opened, MaybeScope
    <2> QED BY <2>1 DEF HandlesAreOwned, SameShape, Opened
  <1>5. ASSUME NEW g \in Flow \ {f}
        PROVE  BusyOnOwn(g)'
    <2>1. flow'[g] = flow[g] /\ BusyOnOwn(g) /\ flow[g].at \in MaybeScope
      BY <1>1, <1>2 DEF BusyOnOwnScope, TypeOK, FlowState
    <2>2. CASE flow[g].pc \in {"commit", "pop", "mark"}
      <3>1. flow[g].at \in Scope /\ scope[flow[g].at].owner # f
        BY <2>1, <2>2 DEF BusyOnOwn, MaybeScope
      <3> QED BY <2>1, <2>2, <3>1 DEF BusyOnOwn, SameShape, SameReadOnly, Nested
    <2>3. CASE flow[g].pc \notin {"commit", "pop", "mark"}
      BY <2>1, <2>3 DEF BusyOnOwn
    <2> QED BY <2>2, <2>3
  <1>6. BusyOnOwnScope'
    BY <1>5 DEF BusyOnOwnScope
  <1> QED BY <1>3, <1>4, <1>6, ShapeKeeps

LEMMA SaveNestedKeeps ==
  ASSUME IInv, NEW f \in Flow, NEW s \in Scope, SaveNested(f, s)
  PROVE  IInv'
  <1>1. TypeOK
    BY DEF IInv
  <1>2. TypeOK'
    BY <1>1 DEF SaveNested, TypeOK, ScopeFields
  <1>3. SameShape /\ SameReadOnly
    BY <1>1 DEF SaveNested, SameShape, SameReadOnly, TypeOK, ScopeFields
  <1>4. HandlesAreOwned'
    BY <1>1, <1>3, SameHandles DEF SaveNested, IInv, HandlesAreOwned, TypeOK
  <1>5. BusyOnOwnScope'
    BY <1>1, <1>3 DEF SaveNested, IInv, BusyOnOwnScope, BusyOnOwn, TypeOK, Nested, SameShape, FlowState, MaybeScope
  <1> QED BY <1>2, <1>3, <1>4, <1>5, ShapeKeeps

LEMMA BeginCommitKeeps ==
  ASSUME IInv, NEW f \in Flow, NEW s \in Scope, BeginCommit(f, s)
  PROVE  IInv'
  <1>1. TypeOK
    BY DEF IInv
  <1>2. /\ scope[s].owner = f /\ ~Nested(s) /\ CollectionOf(s) = collection[s]
        /\ collection[s] \in Collection
    BY <1>1, HeldIsOwned, OwnedIsOpened DEF BeginCommit, CollectionOf, TypeOK
  <1> DEFINE new == [flow[f] EXCEPT !.pc = "commit", !.at = s,
                       !.todo = ContextsToSave(collection[s]),
                       !.seen = collection[s].contexts, !.failed = FALSE]
  <1>3. /\ flow' = [flow EXCEPT ![f] = new]
        /\ scope' = scope /\ collection' = collection /\ instances' = instances
    BY <1>2 DEF BeginCommit
  <1>4. /\ new \in FlowState /\ new.pc = "commit" /\ new.at = s /\ new.held = flow[f].held
        /\ collection[s].readOnly => new.todo = {}
    <2>1. flow[f] \in FlowState
      BY <1>1 DEF TypeOK
    <2>2. ContextsToSave(collection[s]) \in SUBSET CtxType /\ collection[s].contexts \in SUBSET CtxType
      BY <1>2 DEF Collection, ContextsToSave
    <2>3. new \in FlowState
      BY <2>1, <2>2 DEF FlowState, MaybeScope
    <2>4. /\ new.pc = "commit" /\ new.at = s /\ new.held = flow[f].held
          /\ new.todo = ContextsToSave(collection[s])
      BY <2>1 DEF FlowState
    <2> QED BY <2>3, <2>4 DEF ContextsToSave
  <1> HIDE DEF new
  <1>5. SameShape /\ SameReadOnly
    BY <1>3 DEF SameShape, SameReadOnly
  <1>6. BusyOnOwn(f)'
    <2>1. flow'[f] = new
      BY <1>1, <1>3 DEF TypeOK
    <2> QED BY <1>2, <1>3, <1>4, <2>1, ScopeAssumption DEF BusyOnOwn, Nested, BeginCommit, CanFinish
  <1>7. \A x \in instances' : x \in Scope /\ Opened(x)
    BY <1>1, <1>3 DEF IInv, HandlesAreOwned, TypeOK
  <1>8. \A i \in DOMAIN new.held : OwnsHandle(f, new.held[i])
    BY <1>4 DEF IInv, HandlesAreOwned
  <1> QED BY <1>1, <1>3, <1>4, <1>5, <1>6, <1>7, <1>8, FlowStepKeeps DEF TypeOK

(* The rest of CommitAsync, and the steps of Dispose. *)

LEMMA CommitContextKeeps ==
  ASSUME IInv, NEW f \in Flow, NEW t \in CtxType, NEW ok \in BOOLEAN, CommitContext(f, t, ok)
  PROVE  IInv'
  <1>1. TypeOK /\ BusyOnOwn(f) /\ HandlesAreOwned
    BY DEF IInv, BusyOnOwnScope
  <1> DEFINE s == flow[f].at
             new == [flow[f] EXCEPT !.todo = @ \ {t}, !.failed = @ \/ ~ok]
  <1>2. /\ s \in Scope /\ scope[s].owner = f /\ ~Nested(s) /\ Opened(s)
        /\ scope[s].collection = s /\ ~collection[s].readOnly /\ ~collection[s].completed
    <2>1. s \in Scope /\ scope[s].owner = f
      BY <1>1 DEF CommitContext, BusyOnOwn, TypeOK, FlowState, MaybeScope
    <2> QED BY <1>1, <2>1, OwnedIsOpened DEF CommitContext, BusyOnOwn
  <1>3. flow[f] \in FlowState /\ collection[s] \in Collection
    BY <1>1, <1>2 DEF TypeOK
  <1>4. /\ new \in FlowState /\ new.pc = "commit" /\ new.at = s /\ new.held = flow[f].held
    BY <1>3 DEF FlowState, CommitContext
  <1>5. /\ SaveContext(collection[s], t) \in Collection
        /\ SaveContext(collection[s], t).readOnly = collection[s].readOnly
        /\ SaveContext(collection[s], t).completed = collection[s].completed
    BY <1>3 DEF SaveContext, Collection
  <1>6. /\ scope' = scope /\ instances' = instances /\ flow' = [flow EXCEPT ![f] = new]
        /\ collection' = IF ok THEN [collection EXCEPT ![s] = SaveContext(collection[s], t)]
                               ELSE collection
    BY <1>2 DEF CommitContext
  <1> HIDE DEF s, new
  <1>7. /\ collection' \in [Scope -> Collection]
        /\ \A x \in Scope : /\ collection'[x].readOnly = collection[x].readOnly
                            /\ collection'[x].completed = collection[x].completed
                            /\ x # s => collection'[x] = collection[x]
    BY <1>1, <1>2, <1>5, <1>6 DEF TypeOK
  <1>8. SameShape /\ SameReadOnly
    BY <1>2, <1>6, <1>7 DEF SameShape, SameReadOnly
  <1>9. BusyOnOwn(f)'
    <2>1. flow'[f] = new
      BY <1>1, <1>6 DEF TypeOK
    <2> QED BY <1>2, <1>4, <1>6, <1>7, <2>1, ScopeAssumption DEF BusyOnOwn, Nested
  <1>10. \A i \in DOMAIN new.held : OwnsHandle(f, new.held[i])
    BY <1>1, <1>4 DEF HandlesAreOwned
  <1> QED BY <1>1, <1>4, <1>6, <1>7, <1>8, <1>9, <1>10, FlowStepKeeps DEF TypeOK, HandlesAreOwned

(* The steps that only return: CommitInvalidated, PopThrows. *)
LEMMA ReturnKeeps ==
  ASSUME IInv, NEW f \in Flow, flow' = [flow EXCEPT ![f] = Returned(@)],
         UNCHANGED <<scope, collection, instances>>
  PROVE  IInv'
  <1>1. TypeOK /\ HandlesAreOwned
    BY DEF IInv
  <1> DEFINE new == Returned(flow[f])
  <1>2. new \in FlowState /\ new.pc = "run" /\ new.held = flow[f].held
    BY <1>1, ReturnedType DEF TypeOK
  <1> HIDE DEF new
  <1>3. flow' = [flow EXCEPT ![f] = new]
    BY DEF new
  <1>4. SameShape /\ SameReadOnly
    BY DEF SameShape, SameReadOnly
  <1>5. BusyOnOwn(f)'
    BY <1>1, <1>2, <1>3 DEF BusyOnOwn, TypeOK
  <1>6. \A i \in DOMAIN new.held : OwnsHandle(f, new.held[i])
    BY <1>1, <1>2 DEF HandlesAreOwned
  <1> QED BY <1>1, <1>2, <1>3, <1>4, <1>5, <1>6, FlowStepKeeps DEF TypeOK, HandlesAreOwned

LEMMA EndCommitKeeps ==
  ASSUME IInv, NEW f \in Flow, EndCommit(f)
  PROVE  IInv'
  <1>1. TypeOK /\ BusyOnOwn(f) /\ HandlesAreOwned
    BY DEF IInv, BusyOnOwnScope
  <1> DEFINE s == flow[f].at
             new == Returned(flow[f])
  <1>2. /\ s \in Scope /\ scope[s].owner = f /\ ~Nested(s) /\ Opened(s)
        /\ scope[s].collection = s
    <2>1. s \in Scope /\ scope[s].owner = f
      BY <1>1 DEF EndCommit, BusyOnOwn, TypeOK, FlowState, MaybeScope
    <2> QED BY <1>1, <2>1, OwnedIsOpened DEF EndCommit, BusyOnOwn
  <1>3. /\ flow[f] \in FlowState /\ collection[s] \in Collection /\ scope[s] \in ScopeFields
        /\ flow[f].failed \in BOOLEAN
    BY <1>1, <1>2 DEF TypeOK, FlowState
  <1>4. new \in FlowState /\ new.pc = "run" /\ new.held = flow[f].held
    BY <1>3, ReturnedType
  <1>5. /\ Completed(collection[s]) \in Collection
        /\ Completed(collection[s]).readOnly = collection[s].readOnly
        /\ Completed(collection[s]).saved = collection[s].saved
    BY <1>3 DEF Completed, Collection
  <1>6. /\ scope' = [scope EXCEPT ![s].completed = ~flow[f].failed]
        /\ instances' = instances /\ flow' = [flow EXCEPT ![f] = new]
        /\ collection' = [collection EXCEPT ![s] = Completed(collection[s])]
    BY <1>2 DEF EndCommit
  <1> HIDE DEF s, new
  <1>7. /\ scope' \in [Scope -> ScopeFields] /\ SameShape
    BY <1>1, <1>2, <1>3, <1>6 DEF TypeOK, ScopeFields, SameShape
  <1>8. /\ collection' \in [Scope -> Collection] /\ SameReadOnly
        /\ \A x \in Scope : x # s => collection'[x] = collection[x]
    BY <1>1, <1>2, <1>5, <1>6 DEF TypeOK, SameReadOnly
  <1>9. BusyOnOwn(f)'
    BY <1>1, <1>4, <1>6 DEF BusyOnOwn, TypeOK
  <1>10. \A i \in DOMAIN new.held : OwnsHandle(f, new.held[i])
    BY <1>1, <1>4 DEF HandlesAreOwned
  <1> QED BY <1>1, <1>2, <1>4, <1>6, <1>7, <1>8, <1>9, <1>10, FlowStepKeeps
          DEF TypeOK, HandlesAreOwned

LEMMA BeginDisposeKeeps ==
  ASSUME IInv, NEW f \in Flow, NEW i \in 1 .. MaxHeld, BeginDispose(f, i)
  PROVE  IInv'
  <1>1. TypeOK /\ HandlesAreOwned
    BY DEF IInv
  <1> DEFINE s == flow[f].held[i].scope
             new == [flow[f] EXCEPT !.pc = "pop", !.at = s]
  <1>2. i \in DOMAIN flow[f].held /\ flow[f].held[i].kind = "scope"
    BY DEF BeginDispose, Disposable
  <1>3. /\ s \in Scope /\ scope[s].owner = f /\ Opened(s) /\ scope[s].collection \in Scope
        /\ ~Nested(s) => scope[s].collection = s
    <2>1. OwnsHandle(f, flow[f].held[i]) /\ s \in MaybeScope
      BY <1>1, <1>2, HandleType DEF HandlesAreOwned
    <2>2. s \in Scope /\ scope[s].owner = f
      BY <1>2, <2>1 DEF OwnsHandle, MaybeScope
    <2> QED BY <2>2, OwnedIsOpened
  <1>4. /\ flow[f] \in FlowState /\ scope[s] \in ScopeFields /\ collection[s] \in Collection
    BY <1>1, <1>3 DEF TypeOK
  <1>5. new \in FlowState /\ new.pc = "pop" /\ new.at = s /\ new.held = flow[f].held
    BY <1>3, <1>4 DEF FlowState, MaybeScope
  <1>6. /\ DisposeCollection(collection[s]) \in Collection
        /\ DisposeCollection(collection[s]).readOnly = collection[s].readOnly
        /\ DisposeCollection(collection[s]).saved = collection[s].saved
    BY <1>4 DEF DisposeCollection, Completed, Collection
  <1>7. /\ instances' = instances /\ flow' = [flow EXCEPT ![f] = new]
        /\ scope' = scope \/ scope' = [scope EXCEPT ![s].completed = TRUE]
        /\ \/ collection' = collection
           \/ ~Nested(s) /\ collection' = [collection EXCEPT ![s] = DisposeCollection(collection[s])]
    BY <1>3 DEF BeginDispose
  <1> HIDE DEF s, new
  <1>8. /\ scope' \in [Scope -> ScopeFields] /\ SameShape
    <2> DEFINE done == [scope[s] EXCEPT !.completed = TRUE]
    <2>1. done \in ScopeFields /\ done.owner = scope[s].owner
          /\ done.parent = scope[s].parent /\ done.collection = scope[s].collection
          /\ done.readOnly = scope[s].readOnly
      BY <1>4 DEF ScopeFields
    <2>2. scope' = scope \/ scope' = [scope EXCEPT ![s] = done]
      BY <1>7
    <2> HIDE DEF done
    <2> QED BY <1>1, <1>3, <2>1, <2>2 DEF TypeOK, SameShape
  <1>9. /\ collection' \in [Scope -> Collection] /\ SameReadOnly
        /\ \A x \in Scope : x # s => collection'[x] = collection[x]
    BY <1>1, <1>3, <1>6, <1>7 DEF TypeOK, SameReadOnly
  <1>10. BusyOnOwn(f)'
    <2>1. flow'[f] = new /\ scope'[s].owner = f /\ s # NoScope
      BY <1>1, <1>3, <1>7, <1>8, ScopeAssumption DEF TypeOK, SameShape
    <2> QED BY <1>5, <2>1 DEF BusyOnOwn
  <1>11. \A k \in DOMAIN new.held : OwnsHandle(f, new.held[k])
    BY <1>1, <1>5 DEF HandlesAreOwned
  <1> QED BY <1>1, <1>3, <1>5, <1>7, <1>8, <1>9, <1>10, <1>11, FlowStepKeeps
          DEF TypeOK, HandlesAreOwned

LEMMA PopKeeps ==
  ASSUME IInv, NEW f \in Flow, Pop(f)
  PROVE  IInv'
  <1>1. TypeOK /\ HandlesAreOwned /\ BusyOnOwn(f) /\ ScopesAreRooted
    BY DEF IInv, BusyOnOwnScope
  <1> DEFINE s == flow[f].at
             p == ParentToRestore(s)
             new == [flow[f] EXCEPT !.pc = "mark", !.ambient = p]
  <1>2. s \in Scope /\ scope[s].owner = f /\ Opened(s) /\ flow[f] \in FlowState
    <2>1. s \in Scope /\ scope[s].owner = f /\ flow[f] \in FlowState
      BY <1>1 DEF Pop, BusyOnOwn, TypeOK, FlowState, MaybeScope
    <2> QED BY <2>1, OwnedIsOpened
  <1>3. p \in MaybeScope /\ (p # NoScope => p \in Scope /\ Opened(p))
    BY <1>1, <1>2 DEF ParentToRestore, ScopesAreRooted, Nested, TypeOK, ScopeFields, MaybeScope
  <1>4. /\ flow' = [flow EXCEPT ![f] = new] /\ scope' = scope /\ collection' = collection
        /\ instances' = (instances \ {s}) \cup ({p} \ {NoScope})
    BY DEF Pop, InstancesAfterRemove, Tracked
  <1> HIDE DEF p
  <1>5. new \in FlowState /\ new.pc = "mark" /\ new.at = s /\ new.held = flow[f].held
    BY <1>2, <1>3 DEF FlowState
  <1> HIDE DEF s, new
  <1>6. SameShape /\ SameReadOnly
    BY <1>4 DEF SameShape, SameReadOnly
  <1>7. BusyOnOwn(f)'
    <2>1. flow'[f] = new
      BY <1>1, <1>4 DEF TypeOK
    <2> QED BY <1>2, <1>4, <1>5, <2>1, ScopeAssumption DEF BusyOnOwn
  <1>8. \A k \in DOMAIN new.held : OwnsHandle(f, new.held[k])
    BY <1>1, <1>5 DEF HandlesAreOwned
  <1>9. \A x \in instances' : x \in Scope /\ Opened(x)
    BY <1>1, <1>3, <1>4 DEF TypeOK, HandlesAreOwned
  <1> QED BY <1>1, <1>4, <1>5, <1>6, <1>7, <1>8, <1>9, FlowStepKeeps DEF TypeOK

(* Handles left after one was removed are still owned. *)
LEMMA WithoutIndexOwned ==
  ASSUME IInv, NEW f \in Flow, NEW i \in DOMAIN flow[f].held
  PROVE  /\ WithoutIndex(flow[f].held, i) \in Seq(Handle)
         /\ \A k \in DOMAIN WithoutIndex(flow[f].held, i) :
              OwnsHandle(f, WithoutIndex(flow[f].held, i)[k])
  <1>1. TypeOK /\ HandlesAreOwned
    BY DEF IInv
  <1>2. flow[f].held \in Seq(Handle)
    BY <1>1, HandleType
  <1> DEFINE q == flow[f].held
  <1>3. \A j \in DOMAIN q : OwnsHandle(f, q[j])
    BY <1>1 DEF HandlesAreOwned
  <1> HIDE DEF q
  <1>4. q \in Seq(Handle) /\ i \in DOMAIN q
    BY <1>2 DEF q
  <1>5. /\ WithoutIndex(q, i) \in Seq(Handle)
        /\ \A k \in DOMAIN WithoutIndex(q, i) : OwnsHandle(f, WithoutIndex(q, i)[k])
    BY <1>3, <1>4, WithoutIndexIsSeq
  <1> QED BY <1>5 DEF q

LEMMA EndDisposeKeeps ==
  ASSUME IInv, NEW f \in Flow, EndDispose(f)
  PROVE  IInv'
  <1>1. TypeOK /\ HandlesAreOwned /\ BusyOnOwn(f)
    BY DEF IInv, BusyOnOwnScope
  <1>2. PICK i \in DOMAIN flow[f].held :
          flow' = [flow EXCEPT ![f] =
                     [Returned(flow[f]) EXCEPT !.held = WithoutIndex(flow[f].held, i)]]
    BY DEF EndDispose
  <1> DEFINE rest == WithoutIndex(flow[f].held, i)
             new == [Returned(flow[f]) EXCEPT !.held = rest]
  <1>3. rest \in Seq(Handle) /\ \A k \in DOMAIN rest : OwnsHandle(f, rest[k])
    BY <1>2, WithoutIndexOwned
  <1>4. flow' = [flow EXCEPT ![f] = new]
    BY <1>2
  <1> HIDE DEF rest
  <1>5. new \in FlowState /\ new.pc = "run" /\ new.held = rest
    <2>1. Returned(flow[f]) \in FlowState /\ Returned(flow[f]).pc = "run"
      BY <1>1, ReturnedType DEF TypeOK
    <2> QED BY <2>1, <1>3 DEF FlowState
  <1> HIDE DEF new
  <1>6. /\ scope' = [scope EXCEPT ![flow[f].at].disposed = TRUE]
        /\ collection' = collection /\ instances' = instances
    BY DEF EndDispose
  <1>7. scope' \in [Scope -> ScopeFields] /\ SameShape /\ SameReadOnly
    <2> DEFINE s == flow[f].at
               done == [scope[s] EXCEPT !.disposed = TRUE]
    <2>1. s \in Scope
      BY <1>1 DEF EndDispose, BusyOnOwn, TypeOK, FlowState, MaybeScope
    <2>2. done \in ScopeFields /\ done.owner = scope[s].owner
          /\ done.parent = scope[s].parent /\ done.collection = scope[s].collection
          /\ done.readOnly = scope[s].readOnly
      <3> HIDE DEF s
      <3>1. scope[s] \in ScopeFields
        BY <1>1, <2>1 DEF TypeOK
      <3> QED BY <3>1 DEF ScopeFields
    <2>3. scope' = [scope EXCEPT ![s] = done]
      BY <1>6
    <2> HIDE DEF s, done
    <2> QED BY <1>1, <1>6, <2>1, <2>2, <2>3 DEF TypeOK, SameShape, SameReadOnly
  <1>8. BusyOnOwn(f)'
    BY <1>1, <1>4, <1>5 DEF BusyOnOwn, TypeOK
  <1> QED BY <1>1, <1>3, <1>4, <1>5, <1>6, <1>7, <1>8, FlowStepKeeps DEF TypeOK, HandlesAreOwned

LEMMA SuppressKeeps ==
  ASSUME IInv, NEW f \in Flow, Suppress(f)
  PROVE  IInv'
  <1>1. TypeOK /\ HandlesAreOwned /\ BusyOnOwn(f)
    BY DEF IInv, BusyOnOwnScope
  <1> DEFINE h == [kind |-> "suppressor", scope |-> GetAmbientScope(f)]
             q == Append(flow[f].held, h)
             new == [flow[f] EXCEPT !.ambient = NoScope, !.held = q]
  <1>2. flow[f] \in FlowState /\ flow[f].held \in Seq(Handle)
    BY <1>1 DEF TypeOK, FlowState
  <1>3. h \in Handle /\ OwnsHandle(f, h)
    BY <1>1, ScopeAssumption
    DEF TypeOK, GetAmbientScope, Handle, MaybeScope, OwnsHandle, HandlesAreOwned
  <1>4. /\ flow' = [flow EXCEPT ![f] = new]
        /\ instances' = instances /\ scope' = scope /\ collection' = collection
    BY DEF Suppress, AmbientAfterHide, InstancesAfterHide
  <1> HIDE DEF h
  <1>5. q \in Seq(Handle) /\ \A i \in DOMAIN q : OwnsHandle(f, q[i])
    BY <1>1, <1>2, <1>3 DEF HandlesAreOwned
  <1> HIDE DEF q
  <1>6. /\ new \in FlowState /\ new.held = q
        /\ new.pc = flow[f].pc /\ new.at = flow[f].at /\ new.todo = flow[f].todo
    BY <1>2, <1>5 DEF FlowState, MaybeScope
  <1> HIDE DEF new
  <1>7. SameShape /\ SameReadOnly
    BY <1>4 DEF SameShape, SameReadOnly
  <1>8. BusyOnOwn(f)'
    BY <1>1, <1>4, <1>6, FlowUpdated DEF BusyOnOwn, Nested
  <1> QED BY <1>1, <1>4, <1>5, <1>6, <1>7, <1>8, FlowStepKeeps DEF TypeOK, HandlesAreOwned

LEMMA UnsuppressKeeps ==
  ASSUME IInv, NEW f \in Flow, NEW i \in 1 .. MaxHeld, Unsuppress(f, i)
  PROVE  IInv'
  <1>1. TypeOK /\ HandlesAreOwned /\ BusyOnOwn(f)
    BY DEF IInv, BusyOnOwnScope
  <1> DEFINE s == flow[f].held[i].scope
             rest == WithoutIndex(flow[f].held, i)
             a == IF s = NoScope THEN flow[f].ambient ELSE s
             new == [flow[f] EXCEPT !.ambient = a, !.held = rest]
  <1>2. i \in DOMAIN flow[f].held
    BY DEF Unsuppress, Disposable
  <1>3. s \in MaybeScope /\ (s # NoScope => s \in Scope /\ Opened(s))
    BY <1>1, <1>2, HandleType DEF HandlesAreOwned, OwnsHandle, MaybeScope
  <1>4. rest \in Seq(Handle) /\ \A k \in DOMAIN rest : OwnsHandle(f, rest[k])
    BY <1>2, WithoutIndexOwned
  <1>5. /\ flow' = [flow EXCEPT ![f] = new]
        /\ instances' = instances \/ (s # NoScope /\ instances' = instances \cup {s})
        /\ scope' = scope /\ collection' = collection
    BY DEF Unsuppress, Tracked
  <1>6. flow[f] \in FlowState
    BY <1>1 DEF TypeOK
  <1> HIDE DEF s, rest
  <1>7. a \in MaybeScope
    BY <1>3, <1>6 DEF FlowState
  <1> HIDE DEF a
  <1>8. /\ new \in FlowState /\ new.held = rest
        /\ new.pc = flow[f].pc /\ new.at = flow[f].at /\ new.todo = flow[f].todo
    BY <1>4, <1>6, <1>7 DEF FlowState
  <1> HIDE DEF new
  <1>9. SameShape /\ SameReadOnly
    BY <1>5 DEF SameShape, SameReadOnly
  <1>10. BusyOnOwn(f)'
    BY <1>1, <1>5, <1>8, FlowUpdated DEF BusyOnOwn, Nested
  <1>11. \A x \in instances' : x \in Scope /\ Opened(x)
    BY <1>1, <1>3, <1>5 DEF TypeOK, HandlesAreOwned
  <1> QED BY <1>1, <1>4, <1>5, <1>8, <1>9, <1>10, <1>11, FlowStepKeeps DEF TypeOK

(* The forked flow is the one that changes; it starts without handles of   *)
(* its own, or at least with none it does not own.                         *)
LEMMA ForkKeeps ==
  ASSUME IInv, NEW f \in Flow, NEW g \in Flow, Fork(f, g)
  PROVE  IInv'
  <1>1. TypeOK /\ HandlesAreOwned /\ BusyOnOwn(g)
    BY DEF IInv, BusyOnOwnScope
  <1> DEFINE new == [flow[g] EXCEPT !.pc = "run", !.ambient = flow[f].ambient]
  <1>2. /\ flow' = [flow EXCEPT ![g] = new]
        /\ instances' = instances /\ scope' = scope /\ collection' = collection
    BY DEF Fork
  <1>3. new \in FlowState /\ new.held = flow[g].held /\ new.pc = "run"
    BY <1>1 DEF TypeOK, FlowState
  <1> HIDE DEF new
  <1>4. SameShape /\ SameReadOnly
    BY <1>2 DEF SameShape, SameReadOnly
  <1>5. BusyOnOwn(g)'
    BY <1>1, <1>2, <1>3, FlowUpdated DEF BusyOnOwn
  <1>6. \A i \in DOMAIN new.held : OwnsHandle(g, new.held[i])
    BY <1>1, <1>3 DEF HandlesAreOwned
  <1> QED BY <1>1, <1>2, <1>3, <1>4, <1>5, <1>6, FlowStepKeeps DEF TypeOK, HandlesAreOwned

LEMMA StutterKeeps ==
  ASSUME IInv, UNCHANGED vars
  PROVE  IInv'
  <1>1. scope' = scope /\ collection' = collection /\ instances' = instances /\ flow' = flow
    BY DEF vars
  <1>2. TypeOK' /\ SameShape /\ SameReadOnly
    BY <1>1 DEF IInv, TypeOK, SameShape, SameReadOnly
  <1>3. HandlesAreOwned'
    BY <1>1, <1>2, SameHandles DEF IInv, HandlesAreOwned, TypeOK
  <1>4. BusyOnOwnScope'
    BY <1>1 DEF IInv, BusyOnOwnScope, BusyOnOwn, Nested
  <1> QED BY <1>2, <1>3, <1>4, ShapeKeeps

--------------------------------------------------------------------------------
(* The theorems. *)

(* Every step of every flow keeps the inductive invariant. *)
LEMMA NextKeeps == IInv /\ [Next]_vars => IInv'
  <1> SUFFICES ASSUME IInv, [Next]_vars
               PROVE  IInv'
    OBVIOUS
  <1>1. CASE UNCHANGED vars
    BY <1>1, StutterKeeps
  <1>2. ASSUME NEW f \in Flow, Call(f)
        PROVE  IInv'
    <2>1. ASSUME NEW s \in Scope, NEW ro \in BOOLEAN, Open(f, s, ro)
          PROVE  IInv'
      BY <2>1, OpenKeeps
    <2>2. ASSUME NEW s \in Scope, NEW t \in CtxType, NEW change \in BOOLEAN,
                 UseContext(f, s, t, change)
          PROVE  IInv'
      BY <2>2, UseContextKeeps
    <2>3. ASSUME NEW s \in Scope, SaveNested(f, s)
          PROVE  IInv'
      BY <2>3, SaveNestedKeeps
    <2>4. ASSUME NEW s \in Scope, BeginCommit(f, s)
          PROVE  IInv'
      BY <2>4, BeginCommitKeeps
    <2>5. CASE Suppress(f)
      BY <2>5, SuppressKeeps
    <2>6. ASSUME NEW g \in Flow, Fork(f, g)
          PROVE  IInv'
      BY <2>6, ForkKeeps
    <2> QED BY <1>2, <2>1, <2>2, <2>3, <2>4, <2>5, <2>6 DEF Call
  <1>3. ASSUME NEW f \in Flow, Proceed(f)
        PROVE  IInv'
    <2>1. ASSUME NEW t \in CtxType, NEW ok \in BOOLEAN, CommitContext(f, t, ok)
          PROVE  IInv'
      BY <2>1, CommitContextKeeps
    <2>2. CASE CommitInvalidated(f)
      BY <2>2, ReturnKeeps DEF CommitInvalidated
    <2>3. CASE EndCommit(f)
      BY <2>3, EndCommitKeeps
    <2>4. CASE PopThrows(f)
      BY <2>4, ReturnKeeps DEF PopThrows
    <2>5. CASE Pop(f)
      BY <2>5, PopKeeps
    <2>6. CASE EndDispose(f)
      BY <2>6, EndDisposeKeeps
    <2> QED BY <1>3, <2>1, <2>2, <2>3, <2>4, <2>5, <2>6 DEF Proceed
  <1>4. ASSUME NEW f \in Flow, NEW i \in 1 .. MaxHeld, Close(f, i)
        PROVE  IInv'
    <2>1. CASE BeginDispose(f, i)
      BY <2>1, BeginDisposeKeeps
    <2>2. CASE Unsuppress(f, i)
      BY <2>2, UnsuppressKeeps
    <2> QED BY <1>4, <2>1, <2>2 DEF Close
  <1> QED BY <1>1, <1>2, <1>3, <1>4 DEF Next

(* The strengthening holds in every reachable state, for every kind of     *)
(* caller (DbContextScope.cs and DbContextCollection.cs as a whole).       *)
THEOREM InvariantHolds == Spec => []IInv
  BY InitKeeps, NextKeeps, PTL DEF Spec

(* The fields of scopes, collections and flows stay in their types.        *)
THEOREM TypeCorrect == Spec => []TypeOK
  <1>1. IInv => TypeOK
    BY DEF IInv
  <1> QED BY <1>1, InvariantHolds, PTL

(* The constructor's check (DbContextScope.cs:46) is enough: no read/write *)
(* scope ever works on a read-only transaction's contexts.                 *)
THEOREM WritersHaveWritableContexts == Spec => []NoWriterOnReadOnlyContexts
  <1>1. IInv => NoWriterOnReadOnlyContexts
    BY DEF IInv
  <1> QED BY <1>1, InvariantHolds, PTL

(* A read-only transaction never writes (DbContextCollection.cs:114, :170).*)
THEOREM ReadOnlyTransactionsNeverSave == Spec => []ReadOnlyNeverSaves
  <1>1. IInv => ReadOnlyNeverSaves
    BY DEF IInv
  <1> QED BY <1>1, InvariantHolds, PTL

(* What one step may do to a finished transaction. *)
LEMMA FinishedStep ==
  ASSUME IInv, [Next]_vars, NEW x \in Scope, collection[x].completed
  PROVE  collection'[x].saved = collection[x].saved
  <1>1. TypeOK
    BY DEF IInv
  <1>2. collection[x] \in Collection /\ collection \in [Scope -> Collection]
    BY <1>1 DEF TypeOK
  <1>3. CASE collection' = collection
    BY <1>3
  <1>4. ASSUME NEW f \in Flow, NEW s \in Scope, NEW ro \in BOOLEAN, Open(f, s, ro)
        PROVE  collection'[x].saved = collection[x].saved
    <2>1. x # s
      BY <1>4 DEF IInv, ScopesAreRooted, Open, NewCollection
    <2> QED BY <1>2, <1>4, <2>1 DEF Open
  <1>5. ASSUME NEW f \in Flow, NEW s \in Scope, NEW t \in CtxType, NEW change \in BOOLEAN,
               UseContext(f, s, t, change)
        PROVE  collection'[x].saved = collection[x].saved
    <2>1. \/ collection' = [collection EXCEPT ![scope[s].collection] = GetAndChange(@, t)]
          \/ collection' = [collection EXCEPT ![scope[s].collection] = Get(@, t)]
      BY <1>5 DEF UseContext
    <2>2. /\ GetAndChange(collection[x], t).saved = collection[x].saved
          /\ Get(collection[x], t).saved = collection[x].saved
      BY <1>2 DEF GetAndChange, Get, Collection
    <2> QED BY <1>2, <2>1, <2>2
  <1>6. ASSUME NEW f \in Flow, NEW t \in CtxType, NEW ok \in BOOLEAN, CommitContext(f, t, ok)
        PROVE  collection'[x].saved = collection[x].saved
    <2>1. BusyOnOwn(f) /\ flow[f] \in FlowState /\ flow[f].pc = "commit"
      BY <1>1, <1>6 DEF IInv, BusyOnOwnScope, CommitContext, TypeOK
    <2>2. flow[f].at \in Scope
      BY <2>1 DEF BusyOnOwn, FlowState, MaybeScope
    <2>3. scope[flow[f].at].collection = flow[f].at /\ ~collection[flow[f].at].completed
      BY <2>1, <2>2, OwnedIsOpened DEF BusyOnOwn
    <2>4. x # scope[flow[f].at].collection
      BY <2>3
    <2> QED BY <1>2, <1>6, <2>4 DEF CommitContext
  <1>7. ASSUME NEW f \in Flow, EndCommit(f)
        PROVE  collection'[x].saved = collection[x].saved
    <2>1. collection' = [collection EXCEPT ![scope[flow[f].at].collection] = Completed(@)]
      BY <1>7 DEF EndCommit
    <2>2. Completed(collection[x]).saved = collection[x].saved
      BY <1>2 DEF Completed, Collection
    <2> QED BY <1>2, <2>1, <2>2
  <1>8. ASSUME NEW f \in Flow, NEW i \in 1 .. MaxHeld, BeginDispose(f, i)
        PROVE  collection'[x].saved = collection[x].saved
    <2> DEFINE c == scope[flow[f].held[i].scope].collection
    <2>1. \/ collection' = collection
          \/ collection' = [collection EXCEPT ![c] = DisposeCollection(@)]
      BY <1>8 DEF BeginDispose
    <2>2. DisposeCollection(collection[x]).saved = collection[x].saved
      BY <1>2 DEF DisposeCollection, Completed, Collection
    <2> HIDE DEF c
    <2> QED BY <1>2, <2>1, <2>2
  <1>9. ASSUME collection' # collection
        PROVE  \E f \in Flow :
                 \/ \E s \in Scope, ro \in BOOLEAN : Open(f, s, ro)
                 \/ \E s \in Scope, t \in CtxType, change \in BOOLEAN : UseContext(f, s, t, change)
                 \/ \E t \in CtxType, ok \in BOOLEAN : CommitContext(f, t, ok)
                 \/ EndCommit(f)
                 \/ \E i \in 1 .. MaxHeld : BeginDispose(f, i)
    BY <1>9 DEF Next, Call, Proceed, Close, vars, SaveNested, BeginCommit, Suppress, Fork,
                CommitInvalidated, PopThrows, Pop, EndDispose, Unsuppress
  <1> QED BY <1>3, <1>4, <1>5, <1>6, <1>7, <1>8, <1>9

(* Nothing is written for a transaction after its commit or rollback, by   *)
(* any flow in any order (DbContextCollection.cs:87, :151, :198).          *)
THEOREM FinishedTransactionsAreFinal == Spec => FinishedIsFinal
  <1>1. IInv /\ [Next]_vars =>
          [\A s \in Scope :
             collection[s].completed /\ collection'[s].completed
               => collection'[s].saved = collection[s].saved]_vars
    BY FinishedStep
  <1> QED BY <1>1, InvariantHolds, PTL DEF Spec, FinishedIsFinal
================================================================================
