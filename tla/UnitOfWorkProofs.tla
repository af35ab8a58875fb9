---------------------------- MODULE UnitOfWorkProofs ----------------------------
(***************************************************************************)
(* Proofs about UnitOfWork for any number of threads, flows and units.     *)
(***************************************************************************)
EXTENDS UnitOfWork, SequenceTheorems, TLAPS

LEMMA Appended ==
  ASSUME NEW S, NEW s \in Seq(S), NEW e \in S
  PROVE  /\ Append(s, e) \in Seq(S) /\ Len(Append(s, e)) = Len(s) + 1 /\ Len(s) \in Nat
         /\ \A i \in 1 .. Len(s) : Append(s, e)[i] = s[i]
         /\ Append(s, e)[Len(s) + 1] = e
OBVIOUS

LEMMA OneLess ==
  ASSUME NEW n \in Nat \ {0}
  PROVE  n - 1 \in Nat /\ (IF 1 <= n - 1 THEN n - 1 - 1 + 1 ELSE 0) = n - 1
OBVIOUS

LEMMA Fronted ==
  ASSUME NEW S, NEW s \in Seq(S), s # <<>>
  PROVE  /\ Front(s) \in Seq(S) /\ Len(Front(s)) = Len(s) - 1 /\ Len(s) \in Nat \ {0}
         /\ \A i \in 1 .. Len(s) - 1 : Front(s)[i] = s[i]
         /\ Last(s) = s[Len(s)] /\ Last(s) \in S
         /\ Len(Front(s)) \in Nat
<1>1. Len(s) \in Nat \ {0} /\ \A i \in 1 .. Len(s) - 1 : s[i] \in S
  BY EmptySeq, ElementOfSeq
<1>2. /\ Front(s) \in Seq(S) /\ Len(Front(s)) = Len(s) - 1
      /\ \A i \in 1 .. Len(s) - 1 : Front(s)[i] = s[i]
  <2>1. /\ SubSeq(s, 1, Len(s) - 1) \in Seq(S)
        /\ Len(SubSeq(s, 1, Len(s) - 1)) = IF 1 <= Len(s) - 1 THEN Len(s) - 1 - 1 + 1 ELSE 0
        /\ \A i \in 1 .. Len(s) - 1 - 1 + 1 : SubSeq(s, 1, Len(s) - 1)[i] = s[1 + i - 1]
    BY <1>1, SubSeqProperties
  <2> HIDE DEF Front
  <2>2. /\ Front(s) \in Seq(S)
        /\ Len(Front(s)) = IF 1 <= Len(s) - 1 THEN Len(s) - 1 - 1 + 1 ELSE 0
        /\ \A i \in 1 .. Len(s) - 1 - 1 + 1 : Front(s)[i] = s[1 + i - 1]
    BY <2>1 DEF Front
  <2>3. Len(Front(s)) = Len(s) - 1
    BY <1>1, <2>2, OneLess
  <2>4. ASSUME NEW i \in 1 .. Len(s) - 1 PROVE Front(s)[i] = s[i]
    <3>1. 1 + i - 1 = i /\ i \in 1 .. Len(s) - 1 - 1 + 1
      BY <1>1
    <3>2. Front(s)[i] = s[1 + i - 1]
      BY <2>2, <3>1
    <3> QED
      BY <3>1, <3>2
  <2> QED
    BY <2>2, <2>3, <2>4
<1>3. Last(s) = s[Len(s)] /\ Last(s) \in S
  BY <1>1, ElementOfSeq DEF Last
<1> QED
  BY <1>1, <1>2, <1>3

LEMMA AppendedDistinct ==
  ASSUME NEW S, NEW s \in Seq(S), NEW e \in S, Distinct(s), \A i \in 1 .. Len(s) : s[i] # e
  PROVE  Distinct(Append(s, e))
<1> DEFINE t == Append(s, e)
<1>1. /\ Len(t) = Len(s) + 1 /\ Len(s) \in Nat
      /\ \A i \in 1 .. Len(s) : t[i] = s[i]
      /\ t[Len(s) + 1] = e
  BY Appended
<1> HIDE DEF t
<1>2. \A k \in 1 .. Len(t) : k \in 1 .. Len(s) \/ k = Len(s) + 1
  BY <1>1
<1>3. \A k, l \in 1 .. Len(s) : t[k] = t[l] => k = l
  BY <1>1 DEF Distinct
<1>4. \A k \in 1 .. Len(s) : t[k] # t[Len(s) + 1]
  BY <1>1
<1>5. ASSUME NEW i \in 1 .. Len(t), NEW j \in 1 .. Len(t), t[i] = t[j] PROVE i = j
  BY <1>2, <1>3, <1>4, <1>5
<1> QED
  BY <1>5 DEF Distinct, t

LEMMA SetOf ==
  ASSUME NEW S, NEW s \in Seq(S)
  PROVE  ToSet(s) = {s[i] : i \in 1 .. Len(s)}
BY DEF ToSet

(* The parts of the type invariant, one by one. *)
LEMMA Types ==
  ASSUME TypeOK
  PROVE  /\ \A t \in Thread : stack[t] # NoStack =>
              stack[t] \in Stack /\ stack[t].context \in Nat \ {0}
              /\ stack[t].units \in Seq(Unit) /\ Len(stack[t].units) \in Nat
         /\ \A f \in Flow : nest[f] \in Seq(Unit) /\ Len(nest[f]) \in Nat
                            /\ (at[f] # Away => at[f] \in Thread)
         /\ Len(context) \in Nat /\ contexts \in Nat /\ Unit \subseteq Nat
         /\ \A i \in 1 .. Len(context) : context[i] \in Context
BY UnitOfWorkAssumption DEF TypeOK, Stack, Unit, Context

LEMMA InitInv == Init => IInv
<1> SUFFICES ASSUME Init PROVE IInv
  OBVIOUS
<1> USE UnitOfWorkAssumption DEF Init
<1>1. TypeOK
  BY DEF TypeOK
<1>2. StacksAreSound /\ NestsAreSound /\ OpenIsStacked
  BY DEF StacksAreSound, NestsAreSound, OpenIsStacked, Open, ToSet, Distinct
<1>3. StackIsTheFlowsOwn /\ ContextIsStacked /\ InOrderUseIsNeverRefused
  BY DEF StackIsTheFlowsOwn, ContextIsStacked, InOrderUseIsNeverRefused
<1> QED
  BY <1>1, <1>2, <1>3 DEF IInv

-------------------------------------------------------------------------------
(* The scheduler. *)

LEMMA ResumeInv ==
  ASSUME IInv, NEW f \in Flow, NEW t \in Thread, Resume(f, t)
  PROVE  IInv'
<1> USE DEF IInv
<1>1. TypeOK'
  BY DEF TypeOK, Resume
<1>2. StacksAreSound' /\ OpenIsStacked' /\ ContextIsStacked' /\ InOrderUseIsNeverRefused'
  BY DEF StacksAreSound, OpenIsStacked, Open, ContextIsStacked, InOrderUseIsNeverRefused, Resume,
         Distinct
<1>3. NestsAreSound'
  BY DEF NestsAreSound, Resume, TypeOK, Distinct
<1>4. StackIsTheFlowsOwn'
  <2> SUFFICES ASSUME NEW w \in Thread, stack[w] # NoStack, stack[w].units # <<>>,
                      stack[w].context \notin strayed
               PROVE  \E g \in Flow : at'[g] = w /\ Innermost(stack[w].units, nest[g])
    BY DEF StackIsTheFlowsOwn, Resume, Innermost
  <2>1. PICK g \in Flow : at[g] = w /\ Innermost(stack[w].units, nest[g])
    BY DEF StackIsTheFlowsOwn
  <2>2. at'[g] = at[g]
    BY <2>1, UnitOfWorkAssumption DEF Resume, TypeOK
  <2> QED
    BY <2>1, <2>2
<1> QED
  BY <1>1, <1>2, <1>3, <1>4

LEMMA AwaitInv ==
  ASSUME IInv, NEW f \in Flow, Await(f)
  PROVE  IInv'
<1> USE DEF IInv
<1>1. TypeOK'
  <2>1. ContextsOf(nest[f]) \subseteq Context
    <3> SUFFICES ASSUME NEW i \in 1 .. Len(nest[f]) PROVE context[nest[f][i]] \in Context
      BY DEF ContextsOf
    <3>1. nest[f][i] \in Unit /\ nest[f][i] <= Len(context)
      BY Types, ElementOfSeq DEF NestsAreSound
    <3> QED
      BY <3>1, Types DEF Unit
  <2> QED
    BY <2>1 DEF TypeOK, Await
<1>2. StacksAreSound' /\ OpenIsStacked' /\ ContextIsStacked'
  BY DEF StacksAreSound, OpenIsStacked, Open, ContextIsStacked, Await, Distinct
<1>3. NestsAreSound' /\ InOrderUseIsNeverRefused'
  BY DEF NestsAreSound, InOrderUseIsNeverRefused, Await, TypeOK, Distinct
<1>4. StackIsTheFlowsOwn'
  <2> SUFFICES ASSUME NEW t \in Thread, stack[t] # NoStack, stack[t].units # <<>>,
                      stack[t].context \notin strayed'
               PROVE  \E g \in Flow : at'[g] = t /\ Innermost(stack[t].units, nest[g])
    BY DEF StackIsTheFlowsOwn, Await, Innermost
  <2>1. PICK g \in Flow : at[g] = t /\ Innermost(stack[t].units, nest[g])
    BY DEF StackIsTheFlowsOwn, Await
  <2>2. CASE g = f
    <3>1. PICK n \in 0 .. Len(nest[f]) :
            /\ Len(nest[f]) = n + Len(stack[t].units)
            /\ \A i \in 1 .. Len(stack[t].units) : stack[t].units[i] = nest[f][n + i]
      BY <2>1, <2>2 DEF Innermost
    <3>2. 1 \in 1 .. Len(stack[t].units) /\ n + 1 \in 1 .. Len(nest[f])
      BY <3>1, Types
    <3>3. context[nest[f][n + 1]] = stack[t].context
      BY <3>1, <3>2 DEF StacksAreSound
    <3>4. stack[t].context \in ContextsOf(nest[f])
      BY <3>2, <3>3 DEF ContextsOf
    <3> QED
      BY <3>4 DEF Await
  <2>3. CASE g # f
    BY <2>1, <2>3 DEF Await, TypeOK
  <2> QED
    BY <2>2, <2>3
<1> QED
  BY <1>1, <1>2, <1>3, <1>4

-------------------------------------------------------------------------------
(* A unit of work is opened. *)

LEMMA Excepted ==
  ASSUME NEW s \in Stack, NEW q
  PROVE  [s EXCEPT !.units = q] = [context |-> s.context, units |-> q]
BY DEF Stack

LEMMA HereType ==
  ASSUME TypeOK, NEW f \in Flow, at[f] # Away
  PROVE  at[f] \in Thread /\ Here(f) = stack[at[f]]
BY DEF TypeOK, Here, Slot

(* The stack a new unit finds: one that was there, or one for a context    *)
(* nobody has seen.                                                        *)
LEMMA StackForFacts ==
  ASSUME IInv, NEW f \in Flow, at[f] # Away, StackFor(f).context \in Context
  PROVE  /\ StackFor(f) \in Stack /\ StackFor(f).context \notin disposed
         /\ StackFor(f).units \in Seq(Unit) /\ Distinct(StackFor(f).units)
         /\ Handed(StackFor(f)) \in Nat /\ Handed(StackFor(f)) \in 0 .. MaxUnits
         /\ StackFor(f).context <= Handed(StackFor(f)) /\ contexts <= Handed(StackFor(f))
         /\ \A c \in 1 .. Handed(StackFor(f)) : c \in 1 .. contexts \/ c = StackFor(f).context
         /\ \A t \in Thread \ {at[f]} : stack[t] # NoStack =>
              stack[t].context # StackFor(f).context
         /\ \A i \in 1 .. Len(StackFor(f).units) :
              /\ StackFor(f).units[i] <= Len(context)
              /\ context[StackFor(f).units[i]] = StackFor(f).context
         /\ stack[at[f]] # NoStack => StackFor(f) = stack[at[f]]
         /\ stack[at[f]] = NoStack => StackFor(f).units = <<>>
<1> USE DEF IInv
<1>0. at[f] \in Thread /\ Here(f) = stack[at[f]] /\ contexts \in Nat /\ MaxUnits \in Nat
  BY HereType, Types, UnitOfWorkAssumption
<1>1. CASE stack[at[f]] # NoStack
  <2>1. StackFor(f) = stack[at[f]]
    BY <1>0, <1>1 DEF StackFor
  <2>2. /\ stack[at[f]] \in Stack /\ stack[at[f]].context \in Nat \ {0}
        /\ stack[at[f]].context <= contexts /\ stack[at[f]].context \notin disposed
        /\ Distinct(stack[at[f]].units) /\ stack[at[f]].units \in Seq(Unit)
        /\ \A i \in 1 .. Len(stack[at[f]].units) :
             /\ stack[at[f]].units[i] <= Len(context)
             /\ context[stack[at[f]].units[i]] = stack[at[f]].context
    BY <1>0, <1>1, Types DEF StacksAreSound
  <2>3. Handed(StackFor(f)) = contexts /\ contexts \in 0 .. MaxUnits
    BY <1>0, <2>1, <2>2 DEF Handed, TypeOK
  <2>4. \A t \in Thread \ {at[f]} : stack[t] # NoStack => stack[t].context # stack[at[f]].context
    BY <1>0, <1>1 DEF StacksAreSound
  <2>5. /\ Handed(StackFor(f)) \in Nat /\ Handed(StackFor(f)) \in 0 .. MaxUnits
        /\ StackFor(f).context <= Handed(StackFor(f)) /\ contexts <= Handed(StackFor(f))
        /\ \A c \in 1 .. Handed(StackFor(f)) : c \in 1 .. contexts \/ c = StackFor(f).context
    BY <1>0, <2>1, <2>2, <2>3
  <2> QED
    BY <1>1, <2>1, <2>2, <2>4, <2>5
<1>2. CASE stack[at[f]] = NoStack
  <2>1. StackFor(f) = [context |-> contexts + 1, units |-> <<>>]
    BY <1>0, <1>2 DEF StackFor
  <2>2. /\ contexts + 1 \notin disposed /\ contexts + 1 \in Context
        /\ \A t \in Thread : stack[t] # NoStack => stack[t].context # contexts + 1
    BY <1>0, <2>1, Types DEF StacksAreSound
  <2>3. Handed(StackFor(f)) = contexts + 1 /\ contexts + 1 \in 0 .. MaxUnits
    BY <1>0, <2>1, <2>2 DEF Handed, Context
  <2>4. <<>> \in Seq(Unit) /\ Len(<<>>) = 0 /\ Distinct(<<>>)
    BY DEF Distinct
  <2>5. StackFor(f) \in Stack
    BY <2>1, <2>2, <2>4 DEF Stack
  <2>6. /\ StackFor(f).context = contexts + 1 /\ StackFor(f).units = <<>>
        /\ Len(StackFor(f).units) = 0
    BY <2>1, <2>4
  <2>7. \A c \in 1 .. contexts + 1 : c \in 1 .. contexts \/ c = contexts + 1
    BY <1>0
  <2>8. StackFor(f).units \in Seq(Unit) /\ Distinct(StackFor(f).units)
    BY <2>4, <2>6
  <2>9. \A i \in 1 .. Len(StackFor(f).units) :
              /\ StackFor(f).units[i] <= Len(context)
              /\ context[StackFor(f).units[i]] = StackFor(f).context
    BY <2>6
  <2>10. /\ contexts <= contexts + 1 /\ contexts + 1 \in Nat
    BY <1>0
  <2>11. /\ StackFor(f).context \notin disposed
         /\ \A t \in Thread \ {at[f]} : stack[t] # NoStack =>
              stack[t].context # StackFor(f).context
    BY <2>2, <2>6
  <2>12. /\ Handed(StackFor(f)) \in Nat /\ Handed(StackFor(f)) \in 0 .. MaxUnits
         /\ StackFor(f).context <= Handed(StackFor(f)) /\ contexts <= Handed(StackFor(f))
         /\ \A c \in 1 .. Handed(StackFor(f)) : c \in 1 .. contexts \/ c = StackFor(f).context
    <3> HIDE DEF StackFor, Handed
    <3> QED
      BY <2>3, <2>6, <2>7, <2>10
  <2> HIDE DEF StackFor, Handed
  <2> QED
    BY <1>2, <2>5, <2>6, <2>8, <2>9, <2>11, <2>12
<1> QED
  BY <1>1, <1>2

LEMMA CreateThrowsInv ==
  ASSUME IInv, NEW f \in Flow, CreateNewThrows(f)
  PROVE  IInv'
<1> USE DEF IInv
<1> DEFINE s == StackFor(f)
           t0 == at[f]
<1>0. /\ at[f] # Away /\ s.context \in Context /\ t0 \in Thread
      /\ stack' = [stack EXCEPT ![t0] = s] /\ contexts' = Handed(s)
      /\ UNCHANGED <<at, nest, context, finished, disposed, strayed, refused>>
  BY HereType DEF CreateNewThrows, Put, Slot
<1>1. /\ s \in Stack /\ s.context \notin disposed /\ Distinct(s.units) /\ contexts' \in Nat
      /\ contexts' \in 0 .. MaxUnits /\ s.context <= contexts' /\ contexts <= contexts'
      /\ \A c \in 1 .. contexts' : c \in 1 .. contexts \/ c = s.context
      /\ \A t \in Thread \ {t0} : stack[t] # NoStack => stack[t].context # s.context
      /\ \A i \in 1 .. Len(s.units) :
           s.units[i] <= Len(context) /\ context[s.units[i]] = s.context
      /\ stack[t0] # NoStack => s = stack[t0]
      /\ stack[t0] = NoStack => s.units = <<>>
  BY <1>0, StackForFacts
<1> HIDE DEF s, t0
<1>2. /\ stack'[t0] = s /\ \A t \in Thread \ {t0} : stack'[t] = stack[t]
  BY <1>0 DEF TypeOK
<1>3. TypeOK'
  BY <1>0, <1>1 DEF TypeOK
<1>4. StacksAreSound'
  <2>1. disposed' \subseteq 1 .. contexts'
    BY <1>0, <1>1, Types DEF StacksAreSound
  <2>2. \A t \in Thread \ {t0} : stack[t] # NoStack => stack[t].context <= contexts'
    BY <1>1, Types DEF StacksAreSound
  <2> QED
    BY <1>0, <1>1, <1>2, <2>1, <2>2 DEF StacksAreSound, Distinct
<1>5. NestsAreSound' /\ InOrderUseIsNeverRefused'
  BY <1>0 DEF NestsAreSound, InOrderUseIsNeverRefused, Distinct
<1>6. OpenIsStacked'
  BY <1>0, <1>1, <1>2 DEF OpenIsStacked, Open
<1>7. StackIsTheFlowsOwn'
  <2> SUFFICES ASSUME NEW t \in Thread, stack'[t] # NoStack, stack'[t].units # <<>>,
                      stack'[t].context \notin strayed
               PROVE  \E g \in Flow : at'[g] = t /\ Innermost(stack'[t].units, nest'[g])
    <3>1. strayed' = strayed
      BY <1>0
    <3> QED
      BY <3>1 DEF StackIsTheFlowsOwn, Innermost
  <2>1. stack[t] # NoStack /\ stack'[t] = stack[t]
    BY <1>1, <1>2
  <2>2. \E g \in Flow : at[g] = t /\ Innermost(stack[t].units, nest[g])
    BY <2>1 DEF StackIsTheFlowsOwn
  <2> QED
    BY <1>0, <2>1, <2>2
<1>8. ContextIsStacked'
  <2> SUFFICES ASSUME NEW c \in (1 .. contexts') \ disposed
               PROVE  \E t \in Thread : stack'[t] # NoStack /\ stack'[t].context = c
    BY <1>0 DEF ContextIsStacked
  <2>1. CASE c = s.context
    BY <1>0, <1>1, <1>2, <2>1, NoStackAssumption
  <2>2. CASE c \in 1 .. contexts
    <3>1. PICK t \in Thread : stack[t] # NoStack /\ stack[t].context = c
      BY <2>2 DEF ContextIsStacked
    <3>2. stack'[t] = stack[t]
      BY <1>1, <1>2, <3>1
    <3> QED
      BY <3>1, <3>2
  <2> QED
    BY <1>1, <2>1, <2>2
<1> QED
  BY <1>3, <1>4, <1>5, <1>6, <1>7, <1>8

LEMMA CreateInv ==
  ASSUME IInv, NEW f \in Flow, CreateNew(f)
  PROVE  IInv'
<1> USE DEF IInv
<1> DEFINE s == StackFor(f)
           t0 == at[f]
           u == Len(context) + 1
           n == nest[f]
           units == Append(s.units, u)
<1>0. /\ at[f] # Away /\ s.context \in Context /\ t0 \in Thread /\ u \in Unit
      /\ stack' = [stack EXCEPT ![t0] = [s EXCEPT !.units = Append(@, u)]]
      /\ contexts' = Handed(s) /\ context' = Append(context, s.context)
      /\ nest' = [nest EXCEPT ![f] = Append(@, u)]
      /\ at' = at /\ disposed' = disposed /\ strayed' = strayed
      /\ finished' = finished /\ refused' = refused
  BY HereType DEF CreateNew, Put, Slot
<1>1. /\ s \in Stack /\ s.context \notin disposed /\ Distinct(s.units) /\ contexts' \in Nat
      /\ contexts' \in 0 .. MaxUnits /\ s.context <= contexts' /\ contexts <= contexts'
      /\ s.units \in Seq(Unit)
      /\ \A c \in 1 .. contexts' : c \in 1 .. contexts \/ c = s.context
      /\ \A t \in Thread \ {t0} : stack[t] # NoStack => stack[t].context # s.context
      /\ \A i \in 1 .. Len(s.units) :
           s.units[i] <= Len(context) /\ context[s.units[i]] = s.context
      /\ stack[t0] # NoStack => s = stack[t0]
      /\ stack[t0] = NoStack => s.units = <<>>
  BY <1>0, StackForFacts
<1>2. /\ Len(context) \in Nat /\ u \notin 1 .. Len(context) /\ u > Len(context)
      /\ Len(context') = Len(context) + 1 /\ context' \in Seq(Context)
      /\ \A i \in 1 .. Len(context) : context'[i] = context[i]
      /\ context'[u] = s.context
  BY <1>0, Appended DEF TypeOK
<1>3. /\ n \in Seq(Unit) /\ Len(n) \in Nat /\ nest'[f] = Append(n, u)
      /\ Append(n, u) \in Seq(Unit) /\ Len(Append(n, u)) = Len(n) + 1
      /\ \A i \in 1 .. Len(n) : Append(n, u)[i] = n[i] /\ n[i] \in Unit /\ n[i] <= Len(context)
      /\ Append(n, u)[Len(n) + 1] = u
      /\ \A g \in Flow \ {f} : nest'[g] = nest[g]
  <2>1. n \in Seq(Unit)
    BY DEF TypeOK
  <2>2. \A i \in 1 .. Len(n) : n[i] \in Unit /\ n[i] <= Len(context)
    BY <2>1, ElementOfSeq DEF NestsAreSound
  <2>3. nest'[f] = Append(n, u) /\ \A g \in Flow \ {f} : nest'[g] = nest[g]
    BY <1>0 DEF TypeOK
  <2> HIDE DEF n, u
  <2> QED
    BY <1>0, <2>1, <2>2, <2>3, Appended
<1>4. /\ units \in Seq(Unit) /\ Len(units) = Len(s.units) + 1 /\ Len(s.units) \in Nat
      /\ \A i \in 1 .. Len(s.units) : units[i] = s.units[i] /\ s.units[i] \in Unit
      /\ units[Len(s.units) + 1] = u /\ units # <<>>
  <2>1. /\ Len(s.units) \in Nat /\ \A i \in 1 .. Len(s.units) : s.units[i] \in Unit
    BY <1>1, ElementOfSeq
  <2> HIDE DEF s, u
  <2> QED
    BY <1>0, <1>1, <2>1, Appended
<1>5. /\ stack'[t0] \in Stack /\ stack'[t0] # NoStack
      /\ stack'[t0].context = s.context /\ stack'[t0].units = units
      /\ \A t \in Thread \ {t0} : stack'[t] = stack[t]
  <2> HIDE DEF s, u, t0
  <2>1. /\ stack'[t0] = [s EXCEPT !.units = Append(@, u)]
        /\ \A t \in Thread \ {t0} : stack'[t] = stack[t]
    BY <1>0 DEF TypeOK
  <2>2. [s EXCEPT !.units = Append(@, u)] = [context |-> s.context, units |-> units]
    BY <1>1, Excepted DEF units
  <2>3. [context |-> s.context, units |-> units] \in Stack
    BY <1>0, <1>4 DEF Stack
  <2> QED
    BY <2>1, <2>2, <2>3, NoStackAssumption
<1> HIDE DEF s, u, n, t0, units
<1>6. TypeOK'
  <2>1. stack' \in [Thread -> Stack \cup {NoStack}]
    BY <1>0, <1>5 DEF TypeOK
  <2>2. nest' \in [Flow -> Seq(Unit)]
    BY <1>0, <1>3 DEF TypeOK
  <2>3. Len(context') <= MaxUnits
    BY <1>0, <1>2 DEF u, Unit
  <2> QED
    BY <1>0, <1>1, <1>2, <2>1, <2>2, <2>3 DEF TypeOK
<1>7. Distinct(units) /\ Distinct(nest'[f])
  <2>1. Distinct(units)
    <3>1. \A i \in 1 .. Len(s.units) : s.units[i] # u
      BY <1>1, <1>2, <1>4 DEF Unit
    <3> QED
      BY <1>0, <1>1, <3>1, AppendedDistinct DEF units
  <2>2. Distinct(Append(n, u))
    <3>1. Distinct(n)
      BY DEF NestsAreSound, n
    <3>2. \A i \in 1 .. Len(n) : n[i] # u
      BY <1>2, <1>3 DEF Unit
    <3> QED
      BY <1>0, <1>3, <3>1, <3>2, AppendedDistinct
  <2> QED
    BY <1>3, <2>1, <2>2
<1>8. StacksAreSound'
  <2>1. disposed' \subseteq 1 .. contexts'
    BY <1>0, <1>1, Types DEF StacksAreSound
  <2>2. ASSUME NEW t \in Thread, stack'[t] # NoStack
        PROVE  /\ stack'[t].context <= contexts' /\ stack'[t].context \notin disposed'
               /\ Distinct(stack'[t].units)
               /\ \A i \in 1 .. Len(stack'[t].units) :
                    /\ stack'[t].units[i] <= Len(context')
                    /\ context'[stack'[t].units[i]] = stack'[t].context
    <3>1. CASE t = t0
      <4>1. ASSUME NEW i \in 1 .. Len(units)
            PROVE  units[i] <= Len(context') /\ context'[units[i]] = s.context
        <5>1. CASE i \in 1 .. Len(s.units)
          <6>1. units[i] \in 1 .. Len(context) /\ context[units[i]] = s.context
            BY <1>1, <1>4, <5>1, Types DEF Unit
          <6> QED
            BY <1>2, <6>1
        <5>2. CASE i = Len(s.units) + 1
          BY <1>2, <1>4, <5>2 DEF u
        <5> QED
          BY <1>4, <5>1, <5>2
      <4>2. stack'[t].context = s.context /\ stack'[t].units = units
        BY <1>5, <3>1
      <4> QED
        <5>1. stack'[t].context <= contexts' /\ stack'[t].context \notin disposed'
          BY <1>0, <1>1, <4>2
        <5>2. Distinct(stack'[t].units)
          BY <1>7, <4>2
        <5>3. \A i \in 1 .. Len(stack'[t].units) :
                /\ stack'[t].units[i] <= Len(context')
                /\ context'[stack'[t].units[i]] = stack'[t].context
          BY <4>1, <4>2
        <5> QED
          BY <5>1, <5>2, <5>3
    <3>2. CASE t # t0
      <4>1. stack'[t] = stack[t] /\ stack[t] # NoStack
        BY <1>5, <2>2, <3>2
      <4>2. stack[t].context <= contexts' /\ stack[t].context \notin disposed'
        BY <1>0, <1>1, <4>1, Types DEF StacksAreSound
      <4>3. ASSUME NEW i \in 1 .. Len(stack[t].units)
            PROVE  /\ stack[t].units[i] <= Len(context')
                   /\ context'[stack[t].units[i]] = stack[t].context
        <5>0. stack[t].units[i] \in Unit
          BY <4>1, Types, ElementOfSeq
        <5>1. /\ stack[t].units[i] \in 1 .. Len(context)
              /\ context[stack[t].units[i]] = stack[t].context
          BY <1>2, <4>1, <5>0 DEF StacksAreSound, Unit
        <5> QED
          BY <1>2, <5>1
      <4> QED
        BY <4>1, <4>2, <4>3 DEF StacksAreSound
    <3> QED
      BY <3>1, <3>2
  <2>3. ASSUME NEW t \in Thread, NEW w \in Thread, t # w, stack'[t] # NoStack, stack'[w] # NoStack
        PROVE  stack'[t].context # stack'[w].context
    BY <1>1, <1>5, <2>3 DEF StacksAreSound
  <2> QED
    BY <2>1, <2>2, <2>3 DEF StacksAreSound, Distinct
<1>9. NestsAreSound'
  <2>1. \A g \in Flow : /\ Distinct(nest'[g])
                        /\ \A i \in 1 .. Len(nest'[g]) : nest'[g][i] <= Len(context')
    <3>1. \A i \in 1 .. Len(nest'[f]) : nest'[f][i] <= Len(context')
      BY <1>2, <1>3, Types DEF u, Unit
    <3>2. ASSUME NEW g \in Flow \ {f}
          PROVE  /\ Distinct(nest'[g])
                 /\ \A i \in 1 .. Len(nest'[g]) : nest'[g][i] <= Len(context')
      <4>1. /\ Distinct(nest[g]) /\ \A i \in 1 .. Len(nest[g]) :
                 nest[g][i] <= Len(context) /\ nest[g][i] \in Nat
        BY Types, ElementOfSeq DEF NestsAreSound
      <4> QED
        BY <1>2, <1>3, <4>1
    <3> QED
      BY <1>7, <3>1, <3>2
  <2>2. ASSUME NEW g \in Flow PROVE u \notin ToSet(nest[g])
    BY <1>2, Types DEF NestsAreSound, ToSet, u
  <2>3. ToSet(nest'[f]) = ToSet(n) \cup {u}
    BY <1>3 DEF ToSet
  <2>4. ASSUME NEW g \in Flow, NEW h \in Flow, g # h
        PROVE  ToSet(nest'[g]) \cap ToSet(nest'[h]) = {}
    <3>1. ToSet(nest[g]) \cap ToSet(nest[h]) = {}
      BY <2>4 DEF NestsAreSound
    <3> QED
      BY <1>3, <2>2, <2>3, <2>4, <3>1 DEF n
  <2>5. \A g, h \in Flow : g # h /\ at'[g] # Away => at'[g] # at'[h]
    BY <1>0 DEF NestsAreSound
  <2> QED
    BY <2>1, <2>4, <2>5 DEF NestsAreSound, Distinct
<1>10. OpenIsStacked'
  <2> SUFFICES ASSUME NEW g \in Flow, NEW v \in ToSet(nest'[g])
               PROVE  \E t \in Thread : stack'[t] # NoStack /\ v \in ToSet(stack'[t].units)
    BY DEF OpenIsStacked, Open, ToSet
  <2>1. u \in ToSet(units) /\ \A x \in ToSet(s.units) : x \in ToSet(units)
    BY <1>4 DEF ToSet
  <2>2. v = u \/ v \in ToSet(nest[g])
    BY <1>3 DEF ToSet, n
  <2>3. CASE v = u
    BY <1>0, <1>5, <2>1, <2>3
  <2>4. CASE v \in ToSet(nest[g])
    <3>1. PICK t \in Thread : stack[t] # NoStack /\ v \in ToSet(stack[t].units)
      BY <2>4 DEF OpenIsStacked, Open
    <3> QED
      BY <1>1, <1>5, <2>1, <3>1
  <2> QED
    BY <2>2, <2>3, <2>4
<1>11. StackIsTheFlowsOwn'
  <2> SUFFICES ASSUME NEW t \in Thread, stack'[t] # NoStack, stack'[t].units # <<>>,
                      stack'[t].context \notin strayed'
               PROVE  \E g \in Flow : at'[g] = t /\ Innermost(stack'[t].units, nest'[g])
    BY DEF StackIsTheFlowsOwn, Innermost
  <2>1. CASE t = t0
    <3>1. \E k \in 0 .. Len(n) :
            Len(n) = k + Len(s.units) /\ \A i \in 1 .. Len(s.units) : s.units[i] = n[k + i]
      <4>1. CASE s.units = <<>>
        <5>1. Len(s.units) = 0 /\ Len(n) \in 0 .. Len(n)
          BY <1>3, <4>1
        <5>2. /\ Len(n) = Len(n) + Len(s.units)
              /\ \A i \in 1 .. Len(s.units) : s.units[i] = n[Len(n) + i]
          BY <1>3, <5>1
        <5> QED
          BY <5>1, <5>2, Zenon
      <4>2. CASE s.units # <<>>
        <5>1. PICK g \in Flow : at[g] = t0 /\ Innermost(s.units, nest[g])
          <6>1. stack[t0] # NoStack /\ s = stack[t0] /\ s.context \notin strayed
            BY <1>0, <1>1, <1>5, <2>1, <4>2
          <6> QED
            BY <1>0, <4>2, <6>1 DEF StackIsTheFlowsOwn
        <5>2. g = f
          BY <1>0, <5>1 DEF NestsAreSound, t0
        <5> QED
          BY <5>1, <5>2 DEF Innermost, n
      <4> QED
        BY <4>1, <4>2
    <3>2. PICK k \in 0 .. Len(n) :
            Len(n) = k + Len(s.units) /\ \A i \in 1 .. Len(s.units) : s.units[i] = n[k + i]
      BY <3>1
    <3>3. Len(nest'[f]) = k + Len(units) /\ k \in 0 .. Len(nest'[f])
      BY <1>3, <1>4, <3>2
    <3>4. ASSUME NEW i \in 1 .. Len(units) PROVE units[i] = nest'[f][k + i]
      <4>1. CASE i \in 1 .. Len(s.units)
        BY <1>3, <1>4, <3>2, <4>1
      <4>2. CASE i = Len(s.units) + 1
        BY <1>3, <1>4, <3>2, <4>2
      <4> QED
        BY <1>4, <4>1, <4>2
    <3>5. Innermost(units, nest'[f])
      BY <3>3, <3>4 DEF Innermost
    <3> QED
      BY <1>0, <1>5, <2>1, <3>5 DEF t0
  <2>2. CASE t # t0
    <3>1. PICK g \in Flow : at[g] = t /\ Innermost(stack[t].units, nest[g])
      BY <1>0, <1>5, <2>2 DEF StackIsTheFlowsOwn
    <3>2. g # f
      BY <2>2, <3>1 DEF t0
    <3> QED
      BY <1>0, <1>3, <1>5, <2>2, <3>1, <3>2
  <2> QED
    BY <2>1, <2>2
<1>12. ContextIsStacked'
  <2> SUFFICES ASSUME NEW c \in (1 .. contexts') \ disposed
               PROVE  \E t \in Thread : stack'[t] # NoStack /\ stack'[t].context = c
    BY <1>0 DEF ContextIsStacked
  <2>1. CASE c = s.context
    BY <1>0, <1>5, <2>1
  <2>2. CASE c \in 1 .. contexts
    <3>1. PICK t \in Thread : stack[t] # NoStack /\ stack[t].context = c
      BY <2>2 DEF ContextIsStacked
    <3> QED
      BY <1>1, <1>5, <3>1
  <2> QED
    BY <1>1, <2>1, <2>2
<1>13. InOrderUseIsNeverRefused'
  BY <1>0 DEF InOrderUseIsNeverRefused
<1> QED
  BY <1>6, <1>8, <1>9, <1>10, <1>11, <1>12, <1>13

-------------------------------------------------------------------------------
(* A unit of work is committed, and closed. *)

(* A stack whose context has not strayed has the innermost unit of the     *)
(* flow on its thread on top.                                              *)
LEMMA TopIsInnermost ==
  ASSUME IInv, NEW f \in Flow, at[f] # Away, nest[f] # <<>>,
         stack[at[f]] # NoStack, stack[at[f]].units # <<>>, stack[at[f]].context \notin strayed
  PROVE  IsLast(f, Last(nest[f])) /\ Innermost(stack[at[f]].units, nest[f])
<1> USE DEF IInv
<1> DEFINE units == stack[at[f]].units
           n == nest[f]
<1>1. at[f] \in Thread /\ Here(f) = stack[at[f]]
  BY HereType
<1>2. PICK g \in Flow : at[g] = at[f] /\ Innermost(units, nest[g])
  BY <1>1 DEF StackIsTheFlowsOwn
<1>3. g = f
  BY <1>2 DEF NestsAreSound
<1>4. PICK k \in 0 .. Len(n) :
        Len(n) = k + Len(units) /\ \A i \in 1 .. Len(units) : units[i] = n[k + i]
  BY <1>2, <1>3 DEF Innermost
<1>5. units \in Seq(Unit) /\ n \in Seq(Unit)
  BY <1>1, Types
<1>6. Len(units) \in Nat \ {0} /\ Last(units) = units[Len(units)] /\ Last(n) = n[Len(n)]
  BY <1>5, Fronted
<1>7. Last(units) = Last(n)
  <2>1. Len(units) \in 1 .. Len(units)
    BY <1>6
  <2>2. units[Len(units)] = n[k + Len(units)] /\ k + Len(units) = Len(n)
    BY <1>4, <2>1
  <2> QED
    BY <1>6, <2>2
<1> QED
  BY <1>1, <1>2, <1>3, <1>7 DEF IsLast

(* A unit whose context has not strayed is on the stack of the thread its  *)
(* flow is on.                                                             *)
LEMMA OnItsThread ==
  ASSUME IInv, NEW f \in Flow, NEW u \in ToSet(nest[f]), context[u] \notin strayed
  PROVE  /\ at[f] \in Thread /\ at[f] # Away /\ stack[at[f]] # NoStack
         /\ stack[at[f]].units # <<>> /\ stack[at[f]].context = context[u]
<1> USE DEF IInv
<1>1. PICK t \in Thread : stack[t] # NoStack /\ u \in ToSet(stack[t].units)
  BY DEF OpenIsStacked, Open
<1>2. PICK j \in 1 .. Len(stack[t].units) : u = stack[t].units[j]
  <2>1. stack[t].units \in Seq(Unit)
    BY <1>1, Types
  <2>2. ToSet(stack[t].units) = {stack[t].units[i] : i \in 1 .. Len(stack[t].units)}
    BY <2>1, SetOf
  <2> QED
    BY <1>1, <2>2
<1>3. stack[t].context = context[u]
  BY <1>1, <1>2 DEF StacksAreSound
<1>4. stack[t].units # <<>>
  BY <1>2
<1>5. PICK g \in Flow : at[g] = t /\ Innermost(stack[t].units, nest[g])
  BY <1>1, <1>3, <1>4 DEF StackIsTheFlowsOwn
<1>6. PICK k \in 0 .. Len(nest[g]) :
        /\ Len(nest[g]) = k + Len(stack[t].units)
        /\ \A i \in 1 .. Len(stack[t].units) : stack[t].units[i] = nest[g][k + i]
  BY <1>5 DEF Innermost
<1>7. u \in ToSet(nest[g])
  <2>1. k + j \in 1 .. Len(nest[g]) /\ nest[g][k + j] = u
    BY <1>1, <1>2, <1>6, Types
  <2> QED
    BY <2>1 DEF ToSet
<1>8. g = f
  BY <1>7 DEF NestsAreSound
<1> QED
  BY <1>1, <1>3, <1>4, <1>5, <1>8, UnitOfWorkAssumption

LEMMA CommitInv ==
  ASSUME IInv, NEW f \in Flow, Commit(f)
  PROVE  IInv'
<1> USE DEF IInv
<1> DEFINE u == Last(nest[f])
<1>0. /\ at[f] # Away /\ nest[f] # <<>> /\ UNCHANGED <<stack, at, nest, context, contexts, disposed, strayed>>
      /\ \/ finished' = finished \cup {u} /\ refused' = refused
         \/ ~IsLast(f, u) /\ refused' = refused \cup {context[u]} /\ finished' = finished
  BY DEF Commit
<1>1. u \in Unit /\ u \in ToSet(nest[f]) /\ u \in 1 .. Len(context) /\ context[u] \in Context
  <2>1. /\ u \in Unit /\ u = nest[f][Len(nest[f])] /\ Len(nest[f]) \in Nat \ {0}
    BY <1>0, Types, Fronted
  <2>2. Len(nest[f]) \in 1 .. Len(nest[f])
    BY <2>1
  <2>3. u \in ToSet(nest[f]) /\ u <= Len(context)
    BY <2>1, <2>2 DEF ToSet, NestsAreSound
  <2>4. u \in 1 .. Len(context)
    BY <2>1, <2>3, Types DEF Unit
  <2> QED
    BY <2>1, <2>3, <2>4, Types
<1>2. ~IsLast(f, u) => context[u] \in strayed
  BY <1>0, <1>1, OnItsThread, TopIsInnermost
<1> HIDE DEF u
<1>3. TypeOK' /\ InOrderUseIsNeverRefused'
  BY <1>0, <1>1, <1>2 DEF TypeOK, InOrderUseIsNeverRefused
<1>4. StacksAreSound' /\ NestsAreSound'
  BY <1>0 DEF StacksAreSound, NestsAreSound, Distinct
<1>5. OpenIsStacked' /\ ContextIsStacked'
  BY <1>0 DEF OpenIsStacked, Open, ContextIsStacked
<1>6. StackIsTheFlowsOwn'
  BY <1>0 DEF StackIsTheFlowsOwn, Innermost
<1> QED
  BY <1>3, <1>4, <1>5, <1>6

(* What closing a unit does to the using blocks. *)
LEMMA BlockLeft ==
  ASSUME IInv, NEW f \in Flow, nest[f] # <<>>, nest' = [nest EXCEPT ![f] = Front(@)],
         at' = at, context' = context
  PROVE  /\ nest' \in [Flow -> Seq(Unit)] /\ NestsAreSound'
         /\ Last(nest[f]) \in Unit /\ nest'[f] = Front(nest[f])
         /\ \A g \in Flow \ {f} : nest'[g] = nest[g]
         /\ \A g \in Flow : ToSet(nest'[g]) \subseteq ToSet(nest[g])
         /\ \A g \in Flow : Last(nest[f]) \notin ToSet(nest'[g])
<1> USE DEF IInv
<1> DEFINE n == nest[f]
           u == Last(n)
<1>1. /\ n \in Seq(Unit) /\ Front(n) \in Seq(Unit) /\ Len(Front(n)) = Len(n) - 1
      /\ Len(n) \in Nat \ {0} /\ \A i \in 1 .. Len(n) - 1 : Front(n)[i] = n[i]
      /\ u = n[Len(n)] /\ u \in Unit
  BY Types, Fronted
<1>2. /\ nest'[f] = Front(n) /\ \A g \in Flow \ {f} : nest'[g] = nest[g]
      /\ nest' \in [Flow -> Seq(Unit)]
  BY <1>1 DEF TypeOK
<1>3. \A i, j \in 1 .. Len(n) : n[i] = n[j] => i = j
  BY DEF NestsAreSound, Distinct
<1> HIDE DEF n, u
<1>4. \A i \in 1 .. Len(Front(n)) : i \in 1 .. Len(n) /\ i # Len(n) /\ Front(n)[i] = n[i]
  BY <1>1
<1>5. ToSet(Front(n)) \subseteq ToSet(n) /\ u \notin ToSet(Front(n)) /\ u \in ToSet(n)
  <2>1. Len(n) \in 1 .. Len(n)
    BY <1>1
  <2>2. /\ ToSet(n) = {n[i] : i \in 1 .. Len(n)}
        /\ ToSet(Front(n)) = {Front(n)[i] : i \in 1 .. Len(Front(n))}
    BY <1>1, SetOf
  <2> QED
    BY <1>1, <1>3, <1>4, <2>1, <2>2
<1>6. \A g \in Flow : ToSet(nest'[g]) \subseteq ToSet(nest[g])
  BY <1>2, <1>5 DEF n
<1>7. \A g \in Flow : u \notin ToSet(nest'[g])
  BY <1>2, <1>5 DEF n, NestsAreSound
<1>8. NestsAreSound'
  <2>1. Distinct(Front(n)) /\ \A i \in 1 .. Len(Front(n)) : Front(n)[i] <= Len(context)
    <3>1. \A i \in 1 .. Len(n) : n[i] <= Len(context)
      BY DEF NestsAreSound, n
    <3> QED
      BY <1>3, <1>4, <3>1 DEF Distinct
  <2>2. ASSUME NEW g \in Flow
        PROVE  Distinct(nest'[g]) /\ \A i \in 1 .. Len(nest'[g]) : nest'[g][i] <= Len(context')
    BY <1>2, <2>1 DEF NestsAreSound
  <2>3. \A g, h \in Flow : g # h => ToSet(nest'[g]) \cap ToSet(nest'[h]) = {}
    BY <1>6 DEF NestsAreSound
  <2>4. \A g, h \in Flow : g # h /\ at'[g] # Away => at'[g] # at'[h]
    BY DEF NestsAreSound
  <2> QED
    BY <2>2, <2>3, <2>4 DEF NestsAreSound, Distinct
<1> QED
  BY <1>1, <1>2, <1>6, <1>7, <1>8 DEF n, u

(* A unit that is not on top of the stack here: the stack stays. *)
LEMMA StackStays ==
  ASSUME IInv, NEW f \in Flow, at[f] # Away, nest[f] # <<>>,
         nest' = [nest EXCEPT ![f] = Front(@)], ~IsLast(f, Last(nest[f])),
         UNCHANGED <<stack, at, context, contexts, disposed, strayed>>
  PROVE  /\ NestsAreSound' /\ StacksAreSound' /\ OpenIsStacked'
         /\ StackIsTheFlowsOwn' /\ ContextIsStacked'
<1> USE DEF IInv
<1>1. NestsAreSound'
  BY BlockLeft
<1>2. StacksAreSound' /\ ContextIsStacked'
  BY DEF StacksAreSound, ContextIsStacked, Distinct
<1>3. OpenIsStacked'
  <2>1. \A g \in Flow : ToSet(nest'[g]) \subseteq ToSet(nest[g])
    BY BlockLeft
  <2>2. OpenIsStacked /\ stack' = stack
    OBVIOUS
  <2> HIDE DEF IInv
  <2>3. Open' \subseteq Open
    BY <2>1 DEF Open, ToSet
  <2> QED
    BY <2>2, <2>3 DEF OpenIsStacked, ToSet
<1>4. StackIsTheFlowsOwn'
  <2> SUFFICES ASSUME NEW t \in Thread, stack'[t] # NoStack, stack'[t].units # <<>>,
                      stack'[t].context \notin strayed'
               PROVE  \E g \in Flow : at'[g] = t /\ Innermost(stack'[t].units, nest'[g])
    BY DEF StackIsTheFlowsOwn, Innermost
  <2>1. t # at[f]
    BY TopIsInnermost
  <2>2. PICK g \in Flow : at[g] = t /\ Innermost(stack[t].units, nest[g])
    BY DEF StackIsTheFlowsOwn
  <2>3. nest'[g] = nest[g]
    BY <2>1, <2>2, BlockLeft
  <2> QED
    BY <2>2, <2>3
<1> QED
  BY <1>1, <1>2, <1>3, <1>4

(* A unit that is on top of the stack here: it is popped. *)
LEMMA StackPopped ==
  ASSUME IInv, NEW f \in Flow, at[f] # Away, nest[f] # <<>>,
         nest' = [nest EXCEPT ![f] = Front(@)], IsLast(f, Last(nest[f])),
         Put(f, Left(Popped(Here(f)))),
         disposed' = IF Left(Popped(Here(f))) = NoStack THEN disposed \cup {Here(f).context}
                     ELSE disposed,
         UNCHANGED <<at, context, contexts, strayed>>
  PROVE  /\ stack' \in [Thread -> Stack \cup {NoStack}] /\ disposed' \in SUBSET Context
         /\ NestsAreSound' /\ StacksAreSound' /\ OpenIsStacked'
         /\ StackIsTheFlowsOwn' /\ ContextIsStacked'
<1> USE DEF IInv
<1> DEFINE t0 == at[f]
           s == stack[t0]
           u == Last(nest[f])
           units == Front(s.units)
           left == Left(Popped(Here(f)))
<1>1. t0 \in Thread /\ Here(f) = s /\ s # NoStack /\ s.units # <<>> /\ Last(s.units) = u
  BY HereType DEF IsLast
<1>2. /\ s \in Stack /\ s.context \in Context /\ s.context \in 1 .. contexts
      /\ s.context \notin disposed /\ s.units \in Seq(Unit) /\ Distinct(s.units)
      /\ \A i \in 1 .. Len(s.units) :
           s.units[i] <= Len(context) /\ context[s.units[i]] = s.context
  BY <1>1, Types DEF StacksAreSound, Stack
<1>3. /\ units \in Seq(Unit) /\ Len(units) = Len(s.units) - 1 /\ Len(s.units) \in Nat \ {0}
      /\ \A i \in 1 .. Len(s.units) - 1 : units[i] = s.units[i]
      /\ u = s.units[Len(s.units)]
  BY <1>1, <1>2, Fronted
<1>4. left = IF units = <<>> THEN NoStack ELSE [context |-> s.context, units |-> units]
  <2>1. Popped(s) = [context |-> s.context, units |-> units]
    BY <1>2, Excepted DEF Popped
  <2> QED
    BY <1>1, <2>1 DEF Left
<1> HIDE DEF s, u, units, left
<1>5. /\ stack' = [stack EXCEPT ![t0] = left] /\ stack'[t0] = left
      /\ \A t \in Thread \ {t0} : stack'[t] = stack[t]
      /\ disposed' = IF left = NoStack THEN disposed \cup {s.context} ELSE disposed
  BY <1>1 DEF Put, Slot, TypeOK, left
<1>6. left # NoStack => /\ left \in Stack /\ left.context = s.context /\ left.units = units
                        /\ units # <<>> /\ disposed' = disposed
  BY <1>2, <1>3, <1>4, <1>5 DEF Stack
<1>7. units # <<>> => left # NoStack
  <2>1. [context |-> s.context, units |-> units] \in Stack
    BY <1>2, <1>3 DEF Stack
  <2> QED
    BY <1>4, <2>1, NoStackAssumption
<1>8. \A i \in 1 .. Len(units) : i \in 1 .. Len(s.units) /\ units[i] = s.units[i]
  BY <1>3
<1>9. stack' \in [Thread -> Stack \cup {NoStack}] /\ disposed' \in SUBSET Context
  BY <1>1, <1>2, <1>5, <1>6 DEF TypeOK
<1>10. NestsAreSound'
  BY BlockLeft
<1>11. StacksAreSound'
  <2>1. disposed' \subseteq 1 .. contexts
    BY <1>2, <1>5 DEF StacksAreSound
  <2>2. ASSUME NEW t \in Thread, stack'[t] # NoStack
        PROVE  /\ stack'[t].context <= contexts /\ stack'[t].context \notin disposed'
               /\ Distinct(stack'[t].units)
               /\ \A i \in 1 .. Len(stack'[t].units) :
                    /\ stack'[t].units[i] <= Len(context)
                    /\ context[stack'[t].units[i]] = stack'[t].context
    <3>1. CASE t = t0
      <4>1. stack'[t] = left /\ left.context = s.context /\ left.units = units /\ disposed' = disposed
        BY <1>5, <1>6, <2>2, <3>1
      <4>2. s.context <= contexts /\ s.context \notin disposed
        BY <1>2, Types
      <4>3. Distinct(units)
        BY <1>2, <1>8 DEF Distinct
      <4>4. \A i \in 1 .. Len(units) : units[i] <= Len(context) /\ context[units[i]] = s.context
        BY <1>2, <1>8
      <4>5. stack'[t].context <= contexts /\ stack'[t].context \notin disposed'
        BY <4>1, <4>2
      <4>6. Distinct(stack'[t].units)
        BY <4>1, <4>3
      <4>7. \A i \in 1 .. Len(stack'[t].units) :
              /\ stack'[t].units[i] <= Len(context)
              /\ context[stack'[t].units[i]] = stack'[t].context
        BY <4>1, <4>4
      <4> QED
        BY <4>5, <4>6, <4>7
    <3>2. CASE t # t0
      <4>1. stack'[t] = stack[t] /\ stack[t] # NoStack
        BY <1>5, <2>2, <3>2
      <4>2. stack[t].context # s.context
        BY <1>1, <3>2, <4>1 DEF StacksAreSound, s
      <4> QED
        BY <1>5, <4>1, <4>2 DEF StacksAreSound
    <3> QED
      BY <3>1, <3>2
  <2>3. ASSUME NEW t \in Thread, NEW w \in Thread, t # w, stack'[t] # NoStack, stack'[w] # NoStack
        PROVE  stack'[t].context # stack'[w].context
    <3>1. \A v \in Thread : stack'[v] # NoStack =>
             stack[v] # NoStack /\ stack'[v].context = stack[v].context
      BY <1>1, <1>5, <1>6 DEF s
    <3> QED
      BY <2>3, <3>1 DEF StacksAreSound
  <2> QED
    BY <2>1, <2>2, <2>3 DEF StacksAreSound, Distinct
<1>12. OpenIsStacked'
  <2> SUFFICES ASSUME NEW g \in Flow, NEW v \in ToSet(nest'[g])
               PROVE  \E t \in Thread : stack'[t] # NoStack /\ v \in ToSet(stack'[t].units)
    <3> HIDE DEF IInv
    <3> QED
      BY DEF OpenIsStacked, Open, ToSet
  <2>1. v \in ToSet(nest[g]) /\ v # u
    BY BlockLeft DEF u
  <2>2. PICK t \in Thread : stack[t] # NoStack /\ v \in ToSet(stack[t].units)
    BY <2>1 DEF OpenIsStacked, Open
  <2>3. CASE t = t0
    <3>1. /\ ToSet(s.units) = {s.units[i] : i \in 1 .. Len(s.units)}
          /\ ToSet(units) = {units[i] : i \in 1 .. Len(units)}
      BY <1>2, <1>3, SetOf
    <3>2. PICK j \in 1 .. Len(s.units) : v = s.units[j]
      BY <2>2, <2>3, <3>1 DEF s
    <3>3. j # Len(s.units)
      BY <1>3, <2>1, <3>2
    <3>4. j \in 1 .. Len(units) /\ v = units[j]
      BY <1>3, <3>2, <3>3
    <3>5. v \in ToSet(units) /\ units # <<>>
      BY <3>1, <3>4
    <3> QED
      BY <1>1, <1>5, <1>6, <1>7, <3>5
  <2>4. CASE t # t0
    BY <1>5, <2>2, <2>4
  <2> QED
    BY <2>3, <2>4
<1>13. StackIsTheFlowsOwn'
  <2> SUFFICES ASSUME NEW t \in Thread, stack'[t] # NoStack, stack'[t].units # <<>>,
                      stack'[t].context \notin strayed'
               PROVE  \E g \in Flow : at'[g] = t /\ Innermost(stack'[t].units, nest'[g])
    BY DEF StackIsTheFlowsOwn, Innermost
  <2>1. CASE t = t0
    <3>1. stack'[t].units = units /\ s.context \notin strayed
      BY <1>5, <1>6, <2>1
    <3>2. Innermost(s.units, nest[f])
      BY <1>1, <3>1, TopIsInnermost DEF s
    <3>3. /\ nest[f] \in Seq(Unit) /\ Len(Front(nest[f])) = Len(nest[f]) - 1
          /\ Len(nest[f]) \in Nat \ {0}
          /\ \A i \in 1 .. Len(nest[f]) - 1 : Front(nest[f])[i] = nest[f][i]
      BY Types, Fronted
    <3>4. Innermost(units, Front(nest[f]))
      <4>1. PICK k \in 0 .. Len(nest[f]) :
              /\ Len(nest[f]) = k + Len(s.units)
              /\ \A i \in 1 .. Len(s.units) : s.units[i] = nest[f][k + i]
        BY <3>2 DEF Innermost
      <4>2. k \in 0 .. Len(Front(nest[f])) /\ Len(Front(nest[f])) = k + Len(units)
        BY <1>3, <3>3, <4>1
      <4>3. ASSUME NEW i \in 1 .. Len(units) PROVE units[i] = Front(nest[f])[k + i]
        <5>1. k + i \in 1 .. Len(nest[f]) - 1
          BY <3>3, <4>2
        <5> QED
          BY <1>8, <3>3, <4>1, <5>1
      <4> QED
        BY <4>2, <4>3 DEF Innermost
    <3>5. nest'[f] = Front(nest[f])
      BY BlockLeft
    <3> QED
      BY <2>1, <3>1, <3>4, <3>5
  <2>2. CASE t # t0
    <3>1. PICK g \in Flow : at[g] = t /\ Innermost(stack[t].units, nest[g])
      BY <1>5, <2>2 DEF StackIsTheFlowsOwn
    <3>2. nest'[g] = nest[g]
      BY <2>2, <3>1, BlockLeft
    <3> QED
      BY <1>5, <2>2, <3>1, <3>2
  <2> QED
    BY <2>1, <2>2
<1>14. ContextIsStacked'
  <2> SUFFICES ASSUME NEW c \in (1 .. contexts) \ disposed'
               PROVE  \E t \in Thread : stack'[t] # NoStack /\ stack'[t].context = c
    BY DEF ContextIsStacked
  <2>1. c \notin disposed
    BY <1>5
  <2>2. PICK t \in Thread : stack[t] # NoStack /\ stack[t].context = c
    BY <2>1 DEF ContextIsStacked
  <2>3. CASE t = t0
    BY <1>5, <1>6, <2>2, <2>3 DEF s
  <2>4. CASE t # t0
    BY <1>5, <2>2, <2>4
  <2> QED
    BY <2>3, <2>4
<1> QED
  BY <1>9, <1>10, <1>11, <1>12, <1>13, <1>14

LEMMA DisposeInv ==
  ASSUME IInv, NEW f \in Flow, Dispose(f)
  PROVE  IInv'
<1> USE DEF IInv
<1> DEFINE u == Last(nest[f])
           s == Here(f)
           known == s # NoStack /\ Contains(s.units, u)
<1>0. /\ at[f] # Away /\ nest[f] # <<>> /\ nest' = [nest EXCEPT ![f] = Front(@)]
      /\ UNCHANGED <<at, context, contexts, strayed>>
      /\ finished' = finished \cup {u} \/ finished' = finished
  BY DEF Dispose
<1>1. /\ u \in Unit /\ nest' \in [Flow -> Seq(Unit)] /\ s = stack[at[f]] /\ at[f] \in Thread
  BY <1>0, BlockLeft, HereType
<1>2. CASE UNCHANGED <<stack, disposed, refused>> /\ ~IsLast(f, u)
  <2>1. /\ NestsAreSound' /\ StacksAreSound' /\ OpenIsStacked'
        /\ StackIsTheFlowsOwn' /\ ContextIsStacked'
    BY <1>0, <1>2, StackStays
  <2>2. TypeOK' /\ InOrderUseIsNeverRefused'
    BY <1>0, <1>1, <1>2 DEF TypeOK, InOrderUseIsNeverRefused
  <2> QED
    BY <2>1, <2>2
<1>3. CASE /\ known /\ ~IsLast(f, u)
           /\ refused' = refused \cup {s.context} /\ UNCHANGED <<stack, disposed>>
  <2>1. /\ NestsAreSound' /\ StacksAreSound' /\ OpenIsStacked'
        /\ StackIsTheFlowsOwn' /\ ContextIsStacked'
    BY <1>0, <1>3, StackStays
  <2>2. s.units # <<>>
    BY <1>3 DEF Contains
  <2>3. s.context \in strayed
    BY <1>0, <1>1, <1>3, <2>2, TopIsInnermost
  <2>4. TypeOK' /\ InOrderUseIsNeverRefused'
    BY <1>0, <1>1, <1>3, <2>3 DEF TypeOK, InOrderUseIsNeverRefused
  <2> QED
    BY <2>1, <2>4
<1>4. CASE /\ IsLast(f, u) /\ Put(f, Left(Popped(s))) /\ refused' = refused
           /\ disposed' = IF Left(Popped(s)) = NoStack THEN disposed \cup {s.context} ELSE disposed
  <2>1. /\ stack' \in [Thread -> Stack \cup {NoStack}] /\ disposed' \in SUBSET Context
        /\ NestsAreSound' /\ StacksAreSound' /\ OpenIsStacked'
        /\ StackIsTheFlowsOwn' /\ ContextIsStacked'
    BY <1>0, <1>4, StackPopped
  <2>2. TypeOK' /\ InOrderUseIsNeverRefused'
    BY <1>0, <1>1, <1>4, <2>1 DEF TypeOK, InOrderUseIsNeverRefused
  <2> QED
    BY <2>1, <2>2
<1>5. IsLast(f, u) => known
  <2>1. IsLast(f, u) => s.units \in Seq(Unit) /\ s # NoStack /\ s.units # <<>>
    BY <1>1, Types DEF IsLast
  <2>2. IsLast(f, u) => Len(s.units) \in Nat \ {0} /\ Last(s.units) = s.units[Len(s.units)]
    BY <2>1, Fronted
  <2>3. IsLast(f, u) => Len(s.units) \in 1 .. Len(s.units) /\ s.units[Len(s.units)] = u
    BY <2>2 DEF IsLast
  <2> QED
    BY <2>1, <2>3 DEF Contains
<1> QED
  BY <1>2, <1>3, <1>4, <1>5 DEF Dispose

LEMMA StepInv == IInv /\ [Next]_vars => IInv'
<1> SUFFICES ASSUME IInv, [Next]_vars PROVE IInv'
  OBVIOUS
<1>1. CASE Next
  <2> PICK f \in Flow : Step(f)
    BY <1>1 DEF Next
  <2> QED
    BY AwaitInv, ResumeInv, CreateInv, CreateThrowsInv, CommitInv, DisposeInv DEF Step
<1>2. CASE UNCHANGED vars
  <2> USE DEF IInv
  <2>1. TypeOK' /\ InOrderUseIsNeverRefused'
    BY <1>2 DEF vars, TypeOK, InOrderUseIsNeverRefused
  <2>2. StacksAreSound' /\ NestsAreSound'
    BY <1>2 DEF vars, StacksAreSound, NestsAreSound, Distinct
  <2>3. OpenIsStacked' /\ ContextIsStacked'
    BY <1>2 DEF vars, OpenIsStacked, Open, ContextIsStacked
  <2>4. StackIsTheFlowsOwn'
    <3>1. stack' = stack /\ at' = at /\ nest' = nest /\ strayed' = strayed
      BY <1>2 DEF vars
    <3>2. StackIsTheFlowsOwn
      OBVIOUS
    <3> HIDE DEF IInv
    <3> QED
      BY <3>1, <3>2 DEF StackIsTheFlowsOwn, Innermost
  <2> QED
    BY <2>1, <2>2, <2>3, <2>4
<1> QED
  BY <1>1, <1>2

-------------------------------------------------------------------------------
(* What the inductive invariant implies. *)

LEMMA LiveContext == IInv => OpenUnitHasLiveContext
<1> SUFFICES ASSUME IInv, NEW u \in Open PROVE context[u] \notin disposed
  BY DEF OpenUnitHasLiveContext
<1>1. PICK t \in Thread : stack[t] # NoStack /\ u \in ToSet(stack[t].units)
  BY DEF IInv, OpenIsStacked
<1>2. ToSet(stack[t].units) = {stack[t].units[i] : i \in 1 .. Len(stack[t].units)}
  BY <1>1, Types, SetOf DEF IInv
<1> QED
  BY <1>1, <1>2 DEF IInv, StacksAreSound

(* The contexts of the units in a using block. *)
LEMMA ContextsAre ==
  ASSUME IInv, NEW f \in Flow
  PROVE  ContextsOf(nest[f]) = {context[u] : u \in ToSet(nest[f])}
<1>1. ToSet(nest[f]) = {nest[f][i] : i \in 1 .. Len(nest[f])}
  BY Types, SetOf DEF IInv
<1> QED
  BY <1>1 DEF ContextsOf

LEMMA NotShared == IInv => ContextsAreNotShared
<1> SUFFICES ASSUME IInv, NEW f \in Flow, NEW g \in Flow, f # g,
                    NEW c \in ContextsOf(nest[f]), c \in ContextsOf(nest[g]), c \notin strayed
             PROVE  FALSE
  BY DEF ContextsAreNotShared
<1>1. PICK u \in ToSet(nest[f]) : context[u] = c
  BY ContextsAre
<1>2. PICK v \in ToSet(nest[g]) : context[v] = c
  BY ContextsAre
<1>3. /\ at[f] \in Thread /\ at[f] # Away /\ stack[at[f]] # NoStack
      /\ stack[at[f]].context = c
  BY <1>1, OnItsThread
<1>4. /\ at[g] \in Thread /\ stack[at[g]] # NoStack /\ stack[at[g]].context = c
  BY <1>2, OnItsThread
<1>5. at[f] = at[g]
  BY <1>3, <1>4 DEF IInv, StacksAreSound
<1> QED
  BY <1>3, <1>5 DEF IInv, NestsAreSound

LEMMA NotLeftBehind == IInv => NoContextIsLeftBehind
<1> SUFFICES ASSUME IInv, NEW c \in (1 .. contexts) \ (disposed \cup strayed)
             PROVE  \E t \in Thread :
                      /\ stack[t] # NoStack /\ stack[t].context = c
                      /\ stack[t].units # <<>> =>
                           \E f \in Flow : at[f] = t /\ c \in ContextsOf(nest[f])
  BY DEF NoContextIsLeftBehind
<1>1. PICK t \in Thread : stack[t] # NoStack /\ stack[t].context = c
  BY DEF IInv, ContextIsStacked
<1>2. ASSUME stack[t].units # <<>>
      PROVE  \E f \in Flow : at[f] = t /\ c \in ContextsOf(nest[f])
  <2>1. PICK f \in Flow : at[f] = t /\ Innermost(stack[t].units, nest[f])
    BY <1>1, <1>2 DEF IInv, StackIsTheFlowsOwn
  <2>2. PICK k \in 0 .. Len(nest[f]) :
          /\ Len(nest[f]) = k + Len(stack[t].units)
          /\ \A i \in 1 .. Len(stack[t].units) : stack[t].units[i] = nest[f][k + i]
    BY <2>1 DEF Innermost
  <2>3. Len(stack[t].units) \in Nat \ {0} /\ Len(nest[f]) \in Nat
    BY <1>1, <1>2, Types, Fronted DEF IInv
  <2>4. 1 \in 1 .. Len(stack[t].units) /\ k + 1 \in 1 .. Len(nest[f])
    BY <2>2, <2>3
  <2>5. context[nest[f][k + 1]] = c
    BY <1>1, <2>2, <2>4 DEF IInv, StacksAreSound
  <2> QED
    BY <2>1, <2>4, <2>5 DEF ContextsOf
<1> QED
  BY <1>1, <1>2

-------------------------------------------------------------------------------
(* The inductive invariant: types, sound stacks and nests, and who has     *)
(* what on which stack.                                                    *)
THEOREM Invariance == Spec => []IInv
BY InitInv, StepInv, PTL DEF Spec

(* No unit of work in its using block finds its context disposed of, on    *)
(* whatever threads its flow is resumed.                                   *)
THEOREM OpenUnitKeepsItsContext == Spec => []OpenUnitHasLiveContext
BY Invariance, LiveContext, PTL

(* Units of two flows never share a context that no flow had open while it *)
(* awaited.                                                                *)
THEOREM NoSharing == Spec => []ContextsAreNotShared
BY Invariance, NotShared, PTL

(* Commit and Dispose throw for no unit of work that is used in order and  *)
(* whose context was not open across an await.                             *)
THEOREM NeverRefused == Spec => []InOrderUseIsNeverRefused
<1>1. IInv => InOrderUseIsNeverRefused
  BY DEF IInv
<1> QED
  BY <1>1, Invariance, PTL

(* Every context that was not open across an await is disposed of, or on   *)
(* the stack of the thread of the flow that uses it.                       *)
THEOREM NothingLeftBehind == Spec => []NoContextIsLeftBehind
BY Invariance, NotLeftBehind, PTL
===============================================================================
