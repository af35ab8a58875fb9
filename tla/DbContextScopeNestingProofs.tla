----------------------- MODULE DbContextScopeNestingProofs -----------------------
(***************************************************************************)
(* What using blocks guarantee, for any number of flows, scopes and        *)
(* context types.  First of flows that do as they like otherwise, then of  *)
(* flows that also suppress the ambient scope before they fork.            *)
(***************************************************************************)
EXTENDS DbContextScopeProofs

(* The last handle whose scope is still ambient. *)
Inner(fs) == IF fs.pc = "mark" THEN Len(fs.held) - 1 ELSE Len(fs.held)

(* The scope a handle was opened in, or hid. *)
Outer(h, sc) == IF h.kind = "scope" THEN sc[h.scope].parent ELSE h.scope

(* The handles of a flow nest. *)
Nests(fs, sc, inst) ==
  LET q == fs.held
      n == Len(q)
  IN /\ \A i \in 1 .. n : q[i].kind = "scope" =>
          /\ ~sc[q[i].scope].disposed
          /\ q[i].scope \in inst \/ (fs.pc = "mark" /\ i = n)
     /\ \A i, j \in 1 .. n :
          q[i].kind = "scope" /\ q[j].kind = "scope" /\ q[i].scope = q[j].scope => i = j
     /\ \A i \in 2 .. n : q[i - 1].kind = "scope" => Outer(q[i], sc) = q[i - 1].scope
     /\ fs.pc \in {"pop", "mark"} => n > 0 /\ q[n] = ScopeHandle(fs.at)
     /\ Inner(fs) > 0 /\ q[Inner(fs)].kind = "scope" => fs.ambient = q[Inner(fs)].scope
     /\ fs.pc = "unborn" => n = 0

(* The scope that the first k handles leave ambient. *)
Expected(q, k) == IF k > 0 /\ q[k].kind = "scope" THEN q[k].scope ELSE NoScope

Secluded(fs, sc) ==
  LET q == fs.held
  IN /\ fs.ambient = Expected(q, Inner(fs))
     /\ \A i \in 1 .. Len(q) : Outer(q[i], sc) = Expected(q, i - 1)
     /\ \A i \in 1 .. Len(q) : q[i].kind = "scope" =>
          \E j \in 1 .. i : q[j] = ScopeHandle(sc[q[i].scope].collection)

BlocksNest == \A f \in Flow : Nests(flow[f], scope, instances)

(* What Nests asks of a scope that is held. *)
Keeps(q, sc, sc2) ==
  \A i \in 1 .. Len(q) : q[i].kind = "scope" =>
    sc2[q[i].scope].disposed = sc[q[i].scope].disposed
    /\ sc2[q[i].scope].parent = sc[q[i].scope].parent

-------------------------------------------------------------------------------
(* Nesting, as handles come and go. *)

LEMMA HeldLength ==
  ASSUME NEW q \in Seq(Handle)
  PROVE  /\ Len(q) \in Nat /\ DOMAIN q = 1 .. Len(q)
         /\ \A i \in 1 .. Len(q) : q[i] \in Handle /\ q[i].kind \in {"scope", "suppressor"}
                                   /\ q[i].scope \in MaybeScope
<1>1. Len(q) \in Nat /\ DOMAIN q = 1 .. Len(q) /\ \A i \in 1 .. Len(q) : q[i] \in Handle
  BY LenProperties, ElementOfSeq
<1> QED
  BY <1>1 DEF Handle

(* The handles stay, and the scope that is ambient. *)
LEMMA NestsStays ==
  ASSUME NEW fs, NEW fs2, NEW sc, NEW sc2, NEW inst, NEW inst2, fs.held \in Seq(Handle),
         Nests(fs, sc, inst), fs.pc # "mark", fs2.pc # "mark", fs2.pc # "unborn",
         fs2.held = fs.held, fs2.ambient = fs.ambient,
         Keeps(fs.held, sc, sc2), inst \subseteq inst2,
         fs2.pc = "pop" => Len(fs.held) > 0 /\ fs.held[Len(fs.held)] = ScopeHandle(fs2.at)
  PROVE  Nests(fs2, sc2, inst2)
<1> DEFINE q == fs.held
           n == Len(q)
<1>1. n \in Nat /\ Inner(fs) = n /\ Inner(fs2) = n
  BY HeldLength DEF Inner
<1>2. ASSUME NEW i \in 1 .. n, q[i].kind = "scope"
      PROVE  ~sc2[q[i].scope].disposed /\ q[i].scope \in inst2
  BY <1>2 DEF Nests, Keeps
<1>3. \A i \in 2 .. n : q[i - 1].kind = "scope" => Outer(q[i], sc2) = q[i - 1].scope
  <2> SUFFICES ASSUME NEW i \in 2 .. n, q[i - 1].kind = "scope"
               PROVE  Outer(q[i], sc2) = q[i - 1].scope
    OBVIOUS
  <2>1. Outer(q[i], sc) = q[i - 1].scope
    BY DEF Nests
  <2>2. i \in 1 .. n
    BY <1>1
  <2> QED
    BY <2>1, <2>2 DEF Keeps, Outer
<1>4. \A i, j \in 1 .. n :
        q[i].kind = "scope" /\ q[j].kind = "scope" /\ q[i].scope = q[j].scope => i = j
  BY DEF Nests
<1>5. n > 0 /\ q[n].kind = "scope" => fs2.ambient = q[n].scope
  BY <1>1 DEF Nests
<1> QED
  BY <1>1, <1>2, <1>3, <1>4, <1>5 DEF Nests

(* Nobody else changes what Nests asks of a flow. *)
LEMMA NestsUntouched ==
  ASSUME NEW fs, NEW sc, NEW sc2, NEW inst, NEW inst2, fs.held \in Seq(Handle),
         Nests(fs, sc, inst), Keeps(fs.held, sc, sc2),
         \A i \in 1 .. Len(fs.held) :
           fs.held[i].kind = "scope" /\ fs.held[i].scope \in inst => fs.held[i].scope \in inst2
  PROVE  Nests(fs, sc2, inst2)
<1> DEFINE q == fs.held
           n == Len(q)
<1>1. n \in Nat
  BY HeldLength
<1>2. ASSUME NEW i \in 1 .. n, q[i].kind = "scope"
      PROVE  /\ ~sc2[q[i].scope].disposed
             /\ q[i].scope \in inst2 \/ (fs.pc = "mark" /\ i = n)
  BY <1>2 DEF Nests, Keeps
<1>3. \A i \in 2 .. n : q[i - 1].kind = "scope" => Outer(q[i], sc2) = q[i - 1].scope
  <2> SUFFICES ASSUME NEW i \in 2 .. n, q[i - 1].kind = "scope"
               PROVE  Outer(q[i], sc2) = q[i - 1].scope
    OBVIOUS
  <2>1. Outer(q[i], sc) = q[i - 1].scope
    BY DEF Nests
  <2>2. i \in 1 .. n
    BY <1>1
  <2> QED
    BY <2>1, <2>2 DEF Keeps, Outer
<1> QED
  BY <1>2, <1>3 DEF Nests

LEMMA NestsOneMore ==
  ASSUME NEW fs, NEW fs2, NEW sc, NEW sc2, NEW inst, NEW inst2, NEW h \in Handle,
         fs.held \in Seq(Handle), Nests(fs, sc, inst), fs.pc = "run", fs2.pc = "run",
         fs2.held = Append(fs.held, h), Keeps(fs.held, sc, sc2), inst \subseteq inst2,
         h.kind = "scope" => /\ ~sc2[h.scope].disposed /\ h.scope \in inst2
                             /\ fs2.ambient = h.scope
                             /\ \A i \in 1 .. Len(fs.held) : fs.held[i].scope = h.scope =>
                                  fs.held[i].kind # "scope",
         Len(fs.held) > 0 /\ fs.held[Len(fs.held)].kind = "scope" =>
           Outer(h, sc2) = fs.held[Len(fs.held)].scope
  PROVE  Nests(fs2, sc2, inst2)
<1> DEFINE q == fs.held
           n == Len(q)
           r == fs2.held
<1>1. /\ n \in Nat /\ r \in Seq(Handle) /\ Len(r) = n + 1 /\ r[n + 1] = h
      /\ \A i \in 1 .. n : r[i] = q[i]
  <2>1. n \in Nat
    BY HeldLength
  <2> QED
    BY <2>1
<1>2. Inner(fs2) = n + 1
  BY <1>1 DEF Inner
<1> HIDE DEF r
<1>3. ASSUME NEW i \in 1 .. n + 1, r[i].kind = "scope"
      PROVE  ~sc2[r[i].scope].disposed /\ r[i].scope \in inst2
  <2>1. CASE i = n + 1
    BY <1>1, <1>3, <2>1
  <2>2. CASE i \in 1 .. n
    <3>1. r[i] = q[i]
      BY <1>1, <2>2
    <3> QED
      BY <1>3, <2>2, <3>1 DEF Nests, Keeps
  <2> QED
    BY <1>1, <2>1, <2>2
<1>4. ASSUME NEW i \in 1 .. n + 1, NEW j \in 1 .. n + 1,
             r[i].kind = "scope", r[j].kind = "scope", r[i].scope = r[j].scope
      PROVE  i = j
  <2>1. CASE i \in 1 .. n /\ j \in 1 .. n
    BY <1>1, <1>4, <2>1 DEF Nests
  <2>2. CASE i = n + 1 /\ j \in 1 .. n
    BY <1>1, <1>4, <2>2
  <2>3. CASE i \in 1 .. n /\ j = n + 1
    BY <1>1, <1>4, <2>3
  <2> QED
    BY <1>1, <2>1, <2>2, <2>3
<1>5. ASSUME NEW i \in 2 .. n + 1, r[i - 1].kind = "scope"
      PROVE  Outer(r[i], sc2) = r[i - 1].scope
  <2>1. CASE i = n + 1
    <3>1. i - 1 = n /\ n > 0 /\ n \in 1 .. n /\ r[i] = h
      BY <1>1, <2>1
    <3>2. r[i - 1] = q[n]
      BY <1>1, <3>1
    <3> QED
      BY <1>5, <3>1, <3>2
  <2>2. CASE i \in 2 .. n
    <3>1. i \in 1 .. n /\ i - 1 \in 1 .. n
      BY <1>1, <2>2
    <3>2. r[i] = q[i] /\ r[i - 1] = q[i - 1]
      BY <1>1, <3>1
    <3>3. Outer(q[i], sc) = q[i - 1].scope
      BY <1>5, <2>2, <3>2 DEF Nests
    <3> QED
      BY <3>1, <3>2, <3>3 DEF Keeps, Outer
  <2> QED
    BY <1>1, <2>1, <2>2
<1>6. n + 1 > 0 /\ r[n + 1].kind = "scope" => fs2.ambient = r[n + 1].scope
  BY <1>1
<1> QED
  BY <1>1, <1>2, <1>3, <1>4, <1>5, <1>6 DEF Nests, r

(* The last handle goes, and what it was in becomes ambient again. *)
LEMMA NestsOneLess ==
  ASSUME NEW fs, NEW fs2, NEW sc, NEW sc2, NEW inst, NEW inst2,
         fs.held \in Seq(Handle), Nests(fs, sc, inst), fs2.pc = "run", Len(fs.held) > 0,
         fs2.held \in Seq(Handle), Len(fs2.held) = Len(fs.held) - 1,
         \A i \in 1 .. Len(fs.held) - 1 : fs2.held[i] = fs.held[i],
         Keeps(fs2.held, sc, sc2), inst \subseteq inst2,
         Len(fs.held) > 1 /\ fs.held[Len(fs.held) - 1].kind = "scope" =>
           fs2.ambient = fs.held[Len(fs.held) - 1].scope
  PROVE  Nests(fs2, sc2, inst2)
<1> DEFINE q == fs.held
           n == Len(q)
           r == fs2.held
<1>1. n \in Nat /\ n > 0 /\ Len(r) = n - 1 /\ \A i \in 1 .. n - 1 : r[i] = q[i] /\ i \in 1 .. n /\ i # n
  BY HeldLength
<1>2. Inner(fs2) = n - 1
  BY <1>1 DEF Inner
<1> HIDE DEF r
<1>3. ASSUME NEW i \in 1 .. n - 1, r[i].kind = "scope"
      PROVE  ~sc2[r[i].scope].disposed /\ r[i].scope \in inst2
  <2>1. r[i] = q[i] /\ i \in 1 .. n /\ i # n
    BY <1>1
  <2>2. ~sc[q[i].scope].disposed /\ q[i].scope \in inst
    BY <1>3, <2>1 DEF Nests
  <2>3. sc2[r[i].scope].disposed = sc[r[i].scope].disposed
    BY <1>1, <1>3 DEF Keeps, r
  <2> QED
    BY <2>1, <2>2, <2>3
<1>4. ASSUME NEW i \in 1 .. n - 1, NEW j \in 1 .. n - 1,
             r[i].kind = "scope", r[j].kind = "scope", r[i].scope = r[j].scope
      PROVE  i = j
  BY <1>1, <1>4 DEF Nests
<1>5. ASSUME NEW i \in 2 .. n - 1, r[i - 1].kind = "scope"
      PROVE  Outer(r[i], sc2) = r[i - 1].scope
  <2>1. i \in 1 .. n - 1 /\ i - 1 \in 1 .. n - 1 /\ i \in 2 .. n
    BY <1>1
  <2>2. r[i] = q[i] /\ r[i - 1] = q[i - 1]
    BY <1>1, <2>1
  <2>3. Outer(q[i], sc) = q[i - 1].scope
    BY <1>5, <2>1, <2>2 DEF Nests
  <2> QED
    BY <1>1, <2>1, <2>2, <2>3 DEF Keeps, Outer, r
<1>6. n - 1 > 0 /\ r[n - 1].kind = "scope" => fs2.ambient = r[n - 1].scope
  <2>1. n - 1 > 0 => n - 1 \in 1 .. n - 1 /\ n > 1
    BY <1>1
  <2> QED
    BY <1>1, <2>1
<1> QED
  BY <1>1, <1>2, <1>3, <1>4, <1>5, <1>6 DEF Nests, r

(* RemoveAmbientScope of the innermost scope, with its parent restored. *)
LEMMA NestsPopped ==
  ASSUME NEW fs, NEW fs2, NEW sc, NEW inst, NEW inst2,
         fs.held \in Seq(Handle), Nests(fs, sc, inst), fs.pc = "pop", fs2.pc = "mark",
         fs2.held = fs.held, fs2.at = fs.at, inst \ {fs.at} \subseteq inst2,
         Len(fs.held) > 1 /\ fs.held[Len(fs.held) - 1].kind = "scope" =>
           fs2.ambient = fs.held[Len(fs.held) - 1].scope
  PROVE  Nests(fs2, sc, inst2)
<1> DEFINE q == fs.held
           n == Len(q)
<1>1. n \in Nat /\ n > 0 /\ n \in 1 .. n /\ q[n] = ScopeHandle(fs.at)
  BY HeldLength DEF Nests
<1>2. Inner(fs2) = n - 1
  BY <1>1 DEF Inner
<1>3. q[n].kind = "scope" /\ q[n].scope = fs.at
  BY <1>1 DEF ScopeHandle
<1>4. ASSUME NEW i \in 1 .. n, q[i].kind = "scope"
      PROVE  ~sc[q[i].scope].disposed /\ (q[i].scope \in inst2 \/ i = n)
  <2>1. ~sc[q[i].scope].disposed /\ q[i].scope \in inst
    BY <1>4 DEF Nests
  <2>2. q[i].scope = fs.at => i = n
    BY <1>1, <1>3, <1>4 DEF Nests
  <2> QED
    BY <2>1, <2>2
<1>5. n - 1 > 0 /\ q[n - 1].kind = "scope" => fs2.ambient = q[n - 1].scope
  BY <1>1
<1>6. /\ \A i, j \in 1 .. n :
           q[i].kind = "scope" /\ q[j].kind = "scope" /\ q[i].scope = q[j].scope => i = j
      /\ \A i \in 2 .. n : q[i - 1].kind = "scope" => Outer(q[i], sc) = q[i - 1].scope
  BY DEF Nests
<1> QED
  BY <1>1, <1>2, <1>4, <1>5, <1>6 DEF Nests

LEMMA OneLess ==
  ASSUME NEW n \in Nat \ {0}
  PROVE  (IF 1 <= n - 1 THEN n - 1 - 1 + 1 ELSE 0) = n - 1
OBVIOUS

(* WithoutIndex takes the last handle away. *)
LEMMA WithoutLast ==
  ASSUME NEW q \in Seq(Handle), Len(q) > 0
  PROVE  /\ WithoutIndex(q, Len(q)) \in Seq(Handle)
         /\ Len(WithoutIndex(q, Len(q))) = Len(q) - 1
         /\ \A k \in 1 .. Len(q) - 1 : WithoutIndex(q, Len(q))[k] = q[k]
<1> DEFINE a == SubSeq(q, 1, Len(q) - 1)
           b == SubSeq(q, Len(q) + 1, Len(q))
<1>1. Len(q) \in Nat \ {0}
  BY HeldLength
<1>2. a \in Seq(Handle) /\ Len(a) = Len(q) - 1 /\ \A k \in 1 .. Len(q) - 1 : a[k] = q[k]
  <2>1. \A i \in 1 .. Len(q) - 1 : q[i] \in Handle
    BY <1>1, HeldLength
  <2>2. /\ SubSeq(q, 1, Len(q) - 1) \in Seq(Handle)
        /\ Len(SubSeq(q, 1, Len(q) - 1)) = IF 1 <= Len(q) - 1 THEN Len(q) - 1 - 1 + 1 ELSE 0
        /\ \A i \in 1 .. Len(q) - 1 - 1 + 1 : SubSeq(q, 1, Len(q) - 1)[i] = q[1 + i - 1]
    BY <1>1, <2>1, SubSeqProperties
  <2> HIDE DEF a
  <2>3. /\ a \in Seq(Handle)
        /\ Len(a) = IF 1 <= Len(q) - 1 THEN Len(q) - 1 - 1 + 1 ELSE 0
        /\ \A i \in 1 .. Len(q) - 1 - 1 + 1 : a[i] = q[1 + i - 1]
    BY <2>2 DEF a
  <2>4. (IF 1 <= Len(q) - 1 THEN Len(q) - 1 - 1 + 1 ELSE 0) = Len(q) - 1
    BY <1>1, OneLess
  <2>5. ASSUME NEW k \in 1 .. Len(q) - 1 PROVE a[k] = q[k]
    <3>1. 1 + k - 1 = k /\ k \in 1 .. Len(q) - 1 - 1 + 1
      BY <1>1
    <3>2. a[k] = q[1 + k - 1]
      BY <2>3, <3>1
    <3> QED
      BY <3>1, <3>2
  <2> QED
    BY <2>3, <2>4, <2>5
<1>3. b = <<>>
  BY <1>1, SubSeqEmpty
<1> HIDE DEF a, b
<1>4. a \o b = a
  BY <1>2, <1>3, ConcatEmptySeq
<1> QED
  BY <1>2, <1>4 DEF WithoutIndex, a, b

-------------------------------------------------------------------------------
(* Using blocks nest: one lemma per action. *)

LEMMA HeldScopes ==
  ASSUME IInv, NEW f \in Flow, NEW i \in 1 .. Len(flow[f].held), flow[f].held[i].kind = "scope"
  PROVE  /\ flow[f].held[i].scope \in Scope /\ Opened(flow[f].held[i].scope)
         /\ scope[flow[f].held[i].scope].owner = f
         /\ flow[f].held[i] = ScopeHandle(flow[f].held[i].scope)
<1>1. flow[f].held \in Seq(Handle) /\ HandlesAreOwned
  BY DEF IInv, TypeOK, FlowState
<1>2. i \in DOMAIN flow[f].held /\ flow[f].held[i] \in Handle
  BY <1>1, HeldLength
<1>3. OwnsHandle(f, flow[f].held[i])
  BY <1>1, <1>2 DEF HandlesAreOwned
<1> QED
  BY <1>2, <1>3 DEF OwnsHandle, Handle, MaybeScope, ScopeHandle

LEMMA HeldIs ==
  ASSUME IInv, NEW f \in Flow
  PROVE  /\ flow[f] \in FlowState /\ flow[f].held \in Seq(Handle) /\ Len(flow[f].held) \in Nat
         /\ flow[f].ambient \in MaybeScope /\ instances \in SUBSET Scope
         /\ flow[f].at \in MaybeScope
<1>1. flow[f] \in FlowState /\ instances \in SUBSET Scope
  BY DEF IInv, TypeOK
<1> QED
  BY <1>1, HeldLength DEF FlowState

(* A step of one flow leaves the nests of the others alone if it leaves    *)
(* their scopes alone.                                                     *)
LEMMA OneFlowNests ==
  ASSUME IInv, BlocksNest, NEW f \in Flow, \A g \in Flow \ {f} : flow'[g] = flow[g],
         \A s \in Scope : Opened(s) /\ scope[s].owner # f =>
           /\ scope'[s].disposed = scope[s].disposed /\ scope'[s].parent = scope[s].parent
           /\ s \in instances => s \in instances',
         Nests(flow'[f], scope', instances')
  PROVE  BlocksNest'
<1> SUFFICES ASSUME NEW g \in Flow PROVE Nests(flow'[g], scope', instances')
  BY DEF BlocksNest
<1>1. CASE g = f
  BY <1>1
<1>2. CASE g # f
  <2>1. flow'[g] = flow[g] /\ flow[g].held \in Seq(Handle) /\ Nests(flow[g], scope, instances)
    BY <1>2, HeldIs DEF BlocksNest
  <2>2. ASSUME NEW i \in 1 .. Len(flow[g].held), flow[g].held[i].kind = "scope"
        PROVE  LET s == flow[g].held[i].scope
               IN /\ scope'[s].disposed = scope[s].disposed /\ scope'[s].parent = scope[s].parent
                  /\ s \in instances => s \in instances'
    <3>1. /\ flow[g].held[i].scope \in Scope /\ Opened(flow[g].held[i].scope)
          /\ scope[flow[g].held[i].scope].owner = g
      BY <2>2, HeldScopes
    <3> QED
      BY <3>1, <1>2
  <2>3. Keeps(flow[g].held, scope, scope')
    BY <2>2 DEF Keeps
  <2> HIDE DEF Keeps
  <2> QED
    BY <2>1, <2>2, <2>3, NestsUntouched
<1> QED
  BY <1>1, <1>2

(* A step that opens and closes nothing. *)
LEMMA QuietNests ==
  ASSUME IInv, BlocksNest, NEW f \in Flow, \A g \in Flow \ {f} : flow'[g] = flow[g],
         flow'[f].held = flow[f].held, flow'[f].ambient = flow[f].ambient,
         flow[f].pc \in {"run", "commit"}, flow'[f].pc \in {"run", "commit"},
         instances' = instances,
         \A s \in Scope : scope'[s].disposed = scope[s].disposed /\ scope'[s].parent = scope[s].parent
  PROVE  BlocksNest'
<1>1. flow[f].held \in Seq(Handle) /\ Nests(flow[f], scope, instances)
  BY HeldIs DEF BlocksNest
<1>2. Keeps(flow[f].held, scope, scope')
  BY HeldScopes DEF Keeps
<1>3. Nests(flow'[f], scope', instances')
  <2>1. flow[f].pc # "mark" /\ flow'[f].pc # "mark" /\ flow'[f].pc # "unborn" /\ flow'[f].pc # "pop"
    OBVIOUS
  <2> HIDE DEF Keeps
  <2> QED
    BY <1>1, <1>2, <2>1, NestsStays
<1> QED
  BY <1>3, OneFlowNests

LEMMA SameScopes ==
  ASSUME IInv, NEW s \in Scope, NEW b, scope' = [scope EXCEPT ![s].completed = b]
  PROVE  \A x \in Scope : /\ scope'[x].disposed = scope[x].disposed
                          /\ scope'[x].parent = scope[x].parent
                          /\ scope'[x].owner = scope[x].owner
                          /\ scope'[x].collection = scope[x].collection
<1>1. scope \in [Scope -> ScopeFields]
  BY DEF IInv, TypeOK
<1> QED
  BY <1>1 DEF ScopeFields

(* No scope moves. *)
SameFields(x) ==
  /\ scope'[x].owner = scope[x].owner /\ scope'[x].parent = scope[x].parent
  /\ scope'[x].collection = scope[x].collection /\ scope'[x].disposed = scope[x].disposed

LEMMA SameFieldsOf ==
  ASSUME IInv, NEW s \in Scope, NEW b, scope' = [scope EXCEPT ![s].completed = b]
  PROVE  \A x \in Scope : SameFields(x)
  BY SameScopes DEF SameFields

LEMMA CallsAreQuiet ==
  ASSUME IInv, NEW f \in Flow,
         \/ \E s \in Scope, t \in CtxType, change \in BOOLEAN : UseContext(f, s, t, change)
         \/ \E s \in Scope : SaveNested(f, s) \/ BeginCommit(f, s)
         \/ \E t \in CtxType, ok \in BOOLEAN : CommitContext(f, t, ok)
         \/ CommitInvalidated(f) \/ EndCommit(f)
  PROVE  /\ instances' = instances /\ \A g \in Flow \ {f} : flow'[g] = flow[g]
         /\ flow'[f].held = flow[f].held /\ flow'[f].ambient = flow[f].ambient
         /\ flow[f].pc \in {"run", "commit"} /\ flow'[f].pc \in {"run", "commit"}
         /\ \A x \in Scope : SameFields(x)
         /\ \A x \in Scope : collection'[x].disposed = collection[x].disposed
<1>1. TypeOK /\ flow[f] \in FlowState /\ BusyOnOwn(f)
  BY HeldIs DEF IInv, BusyOnOwnScope
<1>2. instances' = instances
  BY DEF UseContext, SaveNested, BeginCommit, CommitContext, CommitInvalidated, EndCommit
<1>3. \A g \in Flow \ {f} : flow'[g] = flow[g]
  BY <1>1 DEF TypeOK, UseContext, SaveNested, BeginCommit, CommitContext, CommitInvalidated, EndCommit
<1>4. /\ flow'[f].held = flow[f].held /\ flow'[f].ambient = flow[f].ambient
      /\ flow[f].pc \in {"run", "commit"} /\ flow'[f].pc \in {"run", "commit"}
  <2>1. /\ Returned(flow[f]).held = flow[f].held /\ Returned(flow[f]).ambient = flow[f].ambient
        /\ Returned(flow[f]).pc = "run"
    BY <1>1 DEF Returned, FlowState
  <2>2. CASE flow' = flow /\ Running(f)
    BY <2>2 DEF Running
  <2>3. ASSUME NEW s \in Scope, BeginCommit(f, s)
        PROVE  /\ flow'[f].held = flow[f].held /\ flow'[f].ambient = flow[f].ambient
               /\ flow[f].pc \in {"run", "commit"} /\ flow'[f].pc \in {"run", "commit"}
    BY <1>1, <2>3 DEF BeginCommit, Running, TypeOK, FlowState
  <2>4. ASSUME NEW t \in CtxType, NEW ok \in BOOLEAN, CommitContext(f, t, ok)
        PROVE  /\ flow'[f].held = flow[f].held /\ flow'[f].ambient = flow[f].ambient
               /\ flow[f].pc \in {"run", "commit"} /\ flow'[f].pc \in {"run", "commit"}
    BY <1>1, <2>4 DEF CommitContext, TypeOK, FlowState
  <2>5. CASE CommitInvalidated(f) \/ EndCommit(f)
    <3>1. flow[f].pc = "commit" /\ flow' = [flow EXCEPT ![f] = Returned(flow[f])]
      BY <2>5 DEF CommitInvalidated, EndCommit
    <3>2. flow'[f] = Returned(flow[f])
      BY <1>1, <3>1 DEF TypeOK
    <3> QED
      BY <2>1, <3>1, <3>2
  <2> QED
    BY <2>2, <2>3, <2>4, <2>5 DEF UseContext, SaveNested
<1>5. \A x \in Scope : SameFields(x)
  <2>1. CASE scope' = scope
    BY <2>1 DEF SameFields
  <2>2. ASSUME NEW s \in Scope, SaveNested(f, s)
        PROVE  scope' = [scope EXCEPT ![s].completed = TRUE]
    BY <2>2 DEF SaveNested
  <2>3. ASSUME EndCommit(f)
        PROVE  flow[f].at \in Scope
               /\ scope' = [scope EXCEPT ![flow[f].at].completed = ~flow[f].failed]
    <3>1. flow[f].pc = "commit" /\ scope' = [scope EXCEPT ![flow[f].at].completed = ~flow[f].failed]
      BY <2>3 DEF EndCommit
    <3>2. flow[f].at \in Scope
      BY <1>1, <3>1 DEF BusyOnOwn, FlowState, MaybeScope
    <3> QED
      BY <3>1, <3>2
  <2> QED
    BY <2>1, <2>2, <2>3, SameFieldsOf DEF UseContext, BeginCommit, CommitContext, CommitInvalidated
<1>6. \A x \in Scope : collection'[x].disposed = collection[x].disposed
  <2>1. collection \in [Scope -> Collection]
    BY <1>1 DEF TypeOK
  <2>2. ASSUME NEW c, NEW v, collection' = [collection EXCEPT ![c] = v],
               c \in Scope => v.disposed = collection[c].disposed
        PROVE  \A x \in Scope : collection'[x].disposed = collection[x].disposed
    BY <2>1, <2>2
  <2>3. ASSUME NEW c \in Scope, NEW t \in CtxType
        PROVE  /\ GetAndChange(collection[c], t).disposed = collection[c].disposed
               /\ Get(collection[c], t).disposed = collection[c].disposed
               /\ SaveContext(collection[c], t).disposed = collection[c].disposed
               /\ Completed(collection[c]).disposed = collection[c].disposed
    BY <2>1 DEF GetAndChange, Get, SaveContext, Completed, Collection
  <2>4. ASSUME NEW s \in Scope, NEW t \in CtxType, NEW change \in BOOLEAN, UseContext(f, s, t, change)
        PROVE  \A x \in Scope : collection'[x].disposed = collection[x].disposed
    <3> DEFINE c == scope[s].collection
               v == IF change THEN GetAndChange(collection[c], t) ELSE Get(collection[c], t)
    <3>1. collection' = [collection EXCEPT ![c] = v]
      BY <2>4 DEF UseContext
    <3>2. c \in Scope => v.disposed = collection[c].disposed
      BY <2>3
    <3> HIDE DEF c, v
    <3> QED
      BY <2>2, <3>1, <3>2
  <2>5. ASSUME NEW t \in CtxType, NEW ok \in BOOLEAN, CommitContext(f, t, ok)
        PROVE  \A x \in Scope : collection'[x].disposed = collection[x].disposed
    <3> DEFINE c == scope[flow[f].at].collection
               v == SaveContext(collection[c], t)
    <3>1. collection' = [collection EXCEPT ![c] = v] \/ collection' = collection
      BY <2>5 DEF CommitContext
    <3>2. c \in Scope => v.disposed = collection[c].disposed
      BY <2>3
    <3> HIDE DEF c, v
    <3> QED
      BY <2>2, <3>1, <3>2
  <2>6. ASSUME EndCommit(f)
        PROVE  \A x \in Scope : collection'[x].disposed = collection[x].disposed
    <3> DEFINE c == scope[flow[f].at].collection
               v == Completed(collection[c])
    <3>1. collection' = [collection EXCEPT ![c] = v]
      BY <2>6 DEF EndCommit
    <3>2. c \in Scope => v.disposed = collection[c].disposed
      BY <2>1 DEF Completed, Collection
    <3> HIDE DEF c, v
    <3> QED
      BY <2>2, <3>1, <3>2
  <2> QED
    BY <2>4, <2>5, <2>6 DEF SaveNested, BeginCommit, CommitInvalidated
<1> QED
  BY <1>2, <1>3, <1>4, <1>5, <1>6

LEMMA CallsNest ==
  ASSUME IInv, BlocksNest, NEW f \in Flow,
         \/ \E s \in Scope, t \in CtxType, change \in BOOLEAN : UseContext(f, s, t, change)
         \/ \E s \in Scope : SaveNested(f, s) \/ BeginCommit(f, s)
         \/ \E t \in CtxType, ok \in BOOLEAN : CommitContext(f, t, ok)
         \/ CommitInvalidated(f) \/ EndCommit(f)
  PROVE  BlocksNest'
  BY CallsAreQuiet, QuietNests DEF SameFields

(* The scope on top of the handles is the one that is ambient. *)
LEMMA AmbientIsTop ==
  ASSUME IInv, NEW f \in Flow, Nests(flow[f], scope, instances),
         flow[f].pc \in {"run", "pop"}, NEW n, n = Len(flow[f].held), n > 0,
         flow[f].held[n].kind = "scope"
  PROVE  GetAmbientScope(f) = flow[f].held[n].scope
<1>1. n \in Nat /\ n \in 1 .. n /\ Inner(flow[f]) = n
  BY HeldIs DEF Inner
<1>2. flow[f].ambient = flow[f].held[n].scope /\ flow[f].held[n].scope \in instances
  BY <1>1 DEF Nests
<1> QED
  BY <1>2 DEF GetAmbientScope

LEMMA OpenNests ==
  ASSUME IInv, BlocksNest, NEW f \in Flow, NEW s \in Scope, NEW ro \in BOOLEAN, Open(f, s, ro)
  PROVE  BlocksNest'
<1> DEFINE p == GetAmbientScope(f)
           h == ScopeHandle(s)
           root == IF p = NoScope THEN s ELSE scope[p].collection
           new == [flow[f] EXCEPT !.ambient = s, !.held = Append(@, h)]
           fields == [owner |-> f, readOnly |-> ro, parent |-> p, collection |-> root,
                      completed |-> FALSE, disposed |-> FALSE]
<1>1. TypeOK /\ flow[f] \in FlowState /\ flow[f].held \in Seq(Handle) /\ Len(flow[f].held) \in Nat
      /\ Nests(flow[f], scope, instances)
  BY HeldIs DEF IInv, BlocksNest
<1>2. /\ flow' = [flow EXCEPT ![f] = new] /\ scope' = [scope EXCEPT ![s] = fields]
      /\ instances' = instances \cup {s} /\ flow[f].pc = "run" /\ ~Opened(s)
  BY DEF Open, Running
<1>3. h \in Handle /\ h.kind = "scope" /\ h.scope = s
  BY DEF Handle, ScopeHandle, MaybeScope
<1>4. fields.disposed = FALSE /\ fields.parent = p
  OBVIOUS
<1> HIDE DEF fields, h
<1>5. scope'[s] = fields /\ \A x \in Scope \ {s} : scope'[x] = scope[x]
  BY <1>1, <1>2 DEF TypeOK
<1>6. new.pc = "run" /\ new.ambient = s /\ new.held = Append(flow[f].held, h)
  BY <1>1, <1>2 DEF FlowState
<1> HIDE DEF new, p
<1>7. flow'[f] = new /\ \A g \in Flow \ {f} : flow'[g] = flow[g]
  BY <1>1, <1>2 DEF TypeOK
<1>8. ASSUME NEW i \in 1 .. Len(flow[f].held), flow[f].held[i].kind = "scope"
      PROVE  flow[f].held[i].scope \in Scope \ {s}
  BY <1>2, <1>8, HeldScopes
<1>9. Keeps(flow[f].held, scope, scope')
  BY <1>5, <1>8 DEF Keeps
<1>10. Len(flow[f].held) > 0 /\ flow[f].held[Len(flow[f].held)].kind = "scope" =>
         Outer(h, scope') = flow[f].held[Len(flow[f].held)].scope
  BY <1>1, <1>2, <1>3, <1>4, <1>5, AmbientIsTop DEF Outer, p
<1>11. \A i \in 1 .. Len(flow[f].held) : flow[f].held[i].scope = s => flow[f].held[i].kind # "scope"
  BY <1>8
<1>12. ~scope'[s].disposed /\ s \in instances' /\ instances \subseteq instances'
  BY <1>2, <1>4, <1>5
<1>13. Nests(flow'[f], scope', instances')
  <2> DEFINE sc == scope'
             inst == instances'
  <2>1. h.kind = "scope" => /\ ~sc[h.scope].disposed /\ h.scope \in inst
                            /\ new.ambient = h.scope
                            /\ \A i \in 1 .. Len(flow[f].held) : flow[f].held[i].scope = h.scope =>
                                 flow[f].held[i].kind # "scope"
    BY <1>3, <1>6, <1>11, <1>12
  <2>2. Keeps(flow[f].held, scope, sc) /\ instances \subseteq inst
    BY <1>9, <1>12
  <2>3. Len(flow[f].held) > 0 /\ flow[f].held[Len(flow[f].held)].kind = "scope" =>
          Outer(h, sc) = flow[f].held[Len(flow[f].held)].scope
    BY <1>10
  <2> HIDE DEF sc, inst
  <2>4. Nests(new, sc, inst)
    BY <1>1, <1>2, <1>3, <1>6, <2>1, <2>2, <2>3, NestsOneMore
  <2> QED
    BY <2>4, <1>7 DEF sc, inst
<1>14. \A x \in Scope : Opened(x) => scope'[x] = scope[x]
  BY <1>2, <1>5
<1> QED
  BY <1>7, <1>12, <1>13, <1>14, OneFlowNests

LEMMA SuppressNests ==
  ASSUME IInv, BlocksNest, NEW f \in Flow, Suppress(f)
  PROVE  BlocksNest'
<1> DEFINE h == [kind |-> "suppressor", scope |-> GetAmbientScope(f)]
           new == [flow[f] EXCEPT !.ambient = NoScope, !.held = Append(@, h)]
<1>1. TypeOK /\ flow[f] \in FlowState /\ flow[f].held \in Seq(Handle) /\ Len(flow[f].held) \in Nat
      /\ Nests(flow[f], scope, instances)
  BY HeldIs DEF IInv, BlocksNest
<1>2. /\ flow' = [flow EXCEPT ![f] = new] /\ scope' = scope
      /\ instances' = instances /\ flow[f].pc = "run"
  BY DEF Suppress, Running, AmbientAfterHide, InstancesAfterHide
<1>3. h \in Handle /\ h.kind = "suppressor" /\ h.scope = GetAmbientScope(f)
  <2>1. GetAmbientScope(f) \in MaybeScope
    BY <1>1 DEF GetAmbientScope, MaybeScope, TypeOK
  <2> QED
    BY <2>1 DEF Handle
<1> HIDE DEF h
<1>4. new.pc = "run" /\ new.held = Append(flow[f].held, h)
  BY <1>1, <1>2 DEF FlowState
<1> HIDE DEF new
<1>5. flow'[f] = new /\ \A g \in Flow \ {f} : flow'[g] = flow[g]
  BY <1>1, <1>2 DEF TypeOK
<1>6. Len(flow[f].held) > 0 /\ flow[f].held[Len(flow[f].held)].kind = "scope" =>
        Outer(h, scope') = flow[f].held[Len(flow[f].held)].scope
  BY <1>1, <1>2, <1>3, AmbientIsTop DEF Outer
<1>7. Keeps(flow[f].held, scope, scope')
  BY <1>2 DEF Keeps
<1>8. Nests(flow'[f], scope', instances')
  <2>1. h.kind # "scope" /\ Outer(h, scope') = Outer(h, scope)
    BY <1>2, <1>3
  <2>2. Nests(new, scope, instances)
    <3>1. Keeps(flow[f].held, scope, scope)
      BY DEF Keeps
    <3> QED
      BY <1>1, <1>2, <1>3, <1>4, <1>6, <2>1, <3>1, NestsOneMore
  <2> QED
    BY <2>2, <1>2, <1>5
<1> QED
  BY <1>2, <1>5, <1>8, OneFlowNests

LEMMA ForkNests ==
  ASSUME IInv, BlocksNest, NEW f \in Flow, NEW g \in Flow, Fork(f, g)
  PROVE  BlocksNest'
<1> DEFINE new == [flow[g] EXCEPT !.pc = "run", !.ambient = flow[f].ambient]
<1>1. TypeOK /\ flow[g] \in FlowState /\ Nests(flow[g], scope, instances)
  BY HeldIs DEF IInv, BlocksNest
<1>2. /\ flow' = [flow EXCEPT ![g] = new] /\ flow[g].pc = "unborn"
      /\ instances' = instances /\ scope' = scope
  BY DEF Fork
<1>3. new.pc = "run" /\ new.held = flow[g].held
  BY <1>1 DEF FlowState
<1> HIDE DEF new
<1>4. Len(flow[g].held) = 0
  BY <1>1, <1>2 DEF Nests
<1>5. flow'[g] = new /\ \A x \in Flow \ {g} : flow'[x] = flow[x]
  BY <1>1, <1>2 DEF TypeOK
<1>6. Nests(flow'[g], scope', instances')
  BY <1>3, <1>4, <1>5 DEF Nests, Inner
<1> QED
  BY <1>2, <1>5, <1>6, OneFlowNests

LEMMA BeginDisposeNests ==
  ASSUME UsingBlocks, IInv, BlocksNest, NEW f \in Flow, NEW i, BeginDispose(f, i)
  PROVE  BlocksNest'
<1> DEFINE n == Len(flow[f].held)
           s == flow[f].held[n].scope
           new == [flow[f] EXCEPT !.pc = "pop", !.at = s]
<1>1. TypeOK /\ flow[f] \in FlowState /\ flow[f].held \in Seq(Handle) /\ n \in Nat
      /\ Nests(flow[f], scope, instances)
  BY HeldIs DEF IInv, BlocksNest
<1>2. i = n /\ n > 0 /\ n \in 1 .. n /\ flow[f].held[n].kind = "scope" /\ flow[f].pc = "run"
  <2>1. i \in DOMAIN flow[f].held /\ i = Len(flow[f].held)
    BY DEF BeginDispose, Disposable
  <2>2. DOMAIN flow[f].held = 1 .. n
    BY <1>1, HeldLength
  <2>3. flow[f].held[i].kind = "scope" /\ flow[f].pc = "run"
    BY DEF BeginDispose, Running
  <2> QED
    BY <1>1, <2>1, <2>2, <2>3
<1>3. /\ flow' = [flow EXCEPT ![f] = new] /\ instances' = instances
      /\ scope' = scope \/ scope' = [scope EXCEPT ![s].completed = TRUE]
  BY <1>2 DEF BeginDispose
<1>4. s \in Scope /\ flow[f].held[n] = ScopeHandle(s)
  BY <1>2, HeldScopes
<1> HIDE DEF s
<1>5. /\ new.pc = "pop" /\ new.at = s /\ new.held = flow[f].held
      /\ new.ambient = flow[f].ambient
  BY <1>1 DEF FlowState
<1> HIDE DEF new
<1>6. flow'[f] = new /\ \A g \in Flow \ {f} : flow'[g] = flow[g]
  BY <1>1, <1>3 DEF TypeOK
<1>7. \A x \in Scope : scope'[x].disposed = scope[x].disposed /\ scope'[x].parent = scope[x].parent
  BY <1>3, <1>4, SameScopes
<1>8. Keeps(flow[f].held, scope, scope')
  BY <1>7, HeldScopes DEF Keeps
<1>9. Nests(flow'[f], scope', instances')
  <2> HIDE DEF Keeps
  <2> QED
    BY <1>1, <1>2, <1>3, <1>4, <1>5, <1>6, <1>8, NestsStays
<1> QED
  BY <1>3, <1>6, <1>7, <1>9, OneFlowNests

(* Which is why Dispose, in order, does not throw. *)
LEMMA PopIsInOrder ==
  ASSUME IInv, BlocksNest, NEW f \in Flow, flow[f].pc = "pop"
  PROVE  GetAmbientScope(f) = flow[f].at /\ flow[f].at \in Scope
<1> DEFINE n == Len(flow[f].held)
<1>1. Nests(flow[f], scope, instances) /\ n > 0 /\ flow[f].held[n] = ScopeHandle(flow[f].at)
  BY DEF BlocksNest, Nests
<1>2. flow[f].held[n].kind = "scope" /\ flow[f].held[n].scope = flow[f].at
  BY <1>1 DEF ScopeHandle
<1>3. GetAmbientScope(f) = flow[f].at
  <2> HIDE DEF n
  <2>1. n = Len(flow[f].held)
    BY DEF n
  <2> QED
    BY <1>1, <1>2, <2>1, AmbientIsTop
<1>4. n \in 1 .. n
  BY <1>1, HeldIs
<1> QED
  BY <1>2, <1>3, <1>4, HeldScopes

(* The scope that Pop makes ambient is the one the closed block was in.    *)
LEMMA ParentIsBelow ==
  ASSUME IInv, NEW f \in Flow, Nests(flow[f], scope, instances), flow[f].pc = "pop",
         NEW n, n = Len(flow[f].held), n > 1, flow[f].held[n - 1].kind = "scope"
  PROVE  ParentToRestore(flow[f].at) = flow[f].held[n - 1].scope
<1>1. n \in Nat /\ n \in 2 .. n /\ n - 1 \in 1 .. n
  BY HeldIs
<1>2. flow[f].held[n] = ScopeHandle(flow[f].at) /\ Outer(flow[f].held[n], scope) = flow[f].held[n - 1].scope
  BY <1>1 DEF Nests
<1>3. scope[flow[f].at].parent = flow[f].held[n - 1].scope
  BY <1>2 DEF Outer, ScopeHandle
<1>4. flow[f].held[n - 1].scope \in Scope /\ ~scope[flow[f].held[n - 1].scope].disposed
  BY <1>1, HeldScopes DEF Nests
<1> QED
  BY <1>3, <1>4, ScopeAssumption DEF ParentToRestore

LEMMA PopNests ==
  ASSUME IInv, BlocksNest, NEW f \in Flow, Pop(f)
  PROVE  BlocksNest'
<1> DEFINE n == Len(flow[f].held)
           p == ParentToRestore(flow[f].at)
           new == [flow[f] EXCEPT !.pc = "mark", !.ambient = p]
<1>1. TypeOK /\ flow[f] \in FlowState /\ flow[f].held \in Seq(Handle) /\ n \in Nat
      /\ Nests(flow[f], scope, instances) /\ flow[f].pc = "pop"
  BY HeldIs DEF IInv, BlocksNest, Pop
<1>2. /\ flow' = [flow EXCEPT ![f] = new] /\ scope' = scope
      /\ instances \ {flow[f].at} \subseteq instances'
  BY DEF Pop, InstancesAfterRemove
<1>3. n > 1 /\ flow[f].held[n - 1].kind = "scope" => p = flow[f].held[n - 1].scope
  <2> HIDE DEF n
  <2>1. n = Len(flow[f].held)
    BY DEF n
  <2> QED
    BY <1>1, <2>1, ParentIsBelow
<1> HIDE DEF p
<1>4. /\ new.pc = "mark" /\ new.at = flow[f].at /\ new.held = flow[f].held /\ new.ambient = p
  BY <1>1 DEF FlowState
<1> HIDE DEF new
<1>5. flow'[f] = new /\ \A g \in Flow \ {f} : flow'[g] = flow[g]
  BY <1>1, <1>2 DEF TypeOK
<1>6. Nests(flow'[f], scope', instances')
  BY <1>1, <1>2, <1>3, <1>4, <1>5, NestsPopped
<1>7. scope[flow[f].at].owner = f
  BY <1>1 DEF IInv, BusyOnOwnScope, BusyOnOwn
<1> QED
  BY <1>2, <1>5, <1>6, <1>7, OneFlowNests

(* The handle that EndDispose drops is the last one. *)
LEMMA EndsLast ==
  ASSUME NEW f \in Flow, EndDispose(f), Nests(flow[f], scope, instances),
         NEW n, n = Len(flow[f].held), n \in 1 .. n, DOMAIN flow[f].held = 1 .. n,
         flow[f].held[n] = ScopeHandle(flow[f].at)
  PROVE  flow' = [flow EXCEPT ![f] = [Returned(flow[f]) EXCEPT !.held = WithoutIndex(flow[f].held, n)]]
<1>1. PICK i \in DOMAIN flow[f].held :
        /\ flow[f].held[i] = ScopeHandle(flow[f].at)
        /\ flow' = [flow EXCEPT ![f] = [Returned(flow[f]) EXCEPT !.held = WithoutIndex(flow[f].held, i)]]
  BY DEF EndDispose
<1>2. i = n
  BY <1>1 DEF Nests, ScopeHandle
<1> QED
  BY <1>1, <1>2

LEMMA EndDisposeNests ==
  ASSUME IInv, BlocksNest, NEW f \in Flow, EndDispose(f)
  PROVE  BlocksNest'
<1> DEFINE q == flow[f].held
           n == Len(q)
           s == flow[f].at
           rest == WithoutIndex(q, n)
           new == [Returned(flow[f]) EXCEPT !.held = rest]
<1>1. TypeOK /\ flow[f] \in FlowState /\ q \in Seq(Handle) /\ n \in Nat
      /\ Nests(flow[f], scope, instances) /\ flow[f].pc = "mark" /\ BusyOnOwn(f)
  BY HeldIs DEF IInv, BlocksNest, EndDispose, BusyOnOwnScope
<1>2. n > 0 /\ n \in 1 .. n /\ q[n] = ScopeHandle(s) /\ DOMAIN q = 1 .. n
  BY <1>1, HeldLength DEF Nests
<1>3. \A i \in 1 .. n : q[i].kind = "scope" /\ q[i].scope = s => i = n
  BY <1>1, <1>2 DEF Nests, ScopeHandle
<1>4. /\ flow' = [flow EXCEPT ![f] = new] /\ instances' = instances
      /\ scope' = [scope EXCEPT ![s].disposed = TRUE]
  BY <1>1, <1>2, EndsLast DEF EndDispose
<1>5. /\ rest \in Seq(Handle) /\ Len(rest) = n - 1 /\ \A k \in 1 .. n - 1 : rest[k] = q[k]
  <2> HIDE DEF q
  <2> QED
    BY <1>1, <1>2, WithoutLast
<1> HIDE DEF rest
<1>6. new.pc = "run" /\ new.ambient = flow[f].ambient /\ new.held = rest
  BY <1>1 DEF Returned, FlowState
<1> HIDE DEF new
<1>7. flow'[f] = new /\ \A g \in Flow \ {f} : flow'[g] = flow[g]
  BY <1>1, <1>4 DEF TypeOK
<1>8. s \in Scope /\ scope[s].owner = f
  BY <1>1 DEF BusyOnOwn, FlowState, MaybeScope
<1>9. \A x \in Scope : x # s => scope'[x] = scope[x]
  BY <1>1, <1>4 DEF TypeOK
<1>10. Keeps(rest, scope, scope')
  <2> SUFFICES ASSUME NEW k \in 1 .. n - 1, q[k].kind = "scope"
               PROVE  scope'[q[k].scope] = scope[q[k].scope]
    BY <1>5 DEF Keeps
  <2>1. k \in 1 .. n /\ k # n
    BY <1>1
  <2>2. q[k].scope \in Scope /\ q[k].scope # s
    BY <1>3, <2>1, HeldScopes
  <2> QED
    BY <1>9, <2>2
<1>11. n > 1 /\ q[n - 1].kind = "scope" => new.ambient = q[n - 1].scope
  <2>1. Inner(flow[f]) = n - 1 /\ (n > 1 => n - 1 > 0)
    BY <1>1 DEF Inner
  <2> QED
    BY <1>1, <1>6, <2>1 DEF Nests
<1>12. Nests(flow'[f], scope', instances')
  <2> HIDE DEF Keeps
  <2> QED
    BY <1>1, <1>2, <1>4, <1>5, <1>6, <1>7, <1>10, <1>11, NestsOneLess
<1> QED
  BY <1>4, <1>7, <1>8, <1>9, <1>12, OneFlowNests

LEMMA UnsuppressNests ==
  ASSUME UsingBlocks, IInv, BlocksNest, NEW f \in Flow, NEW i, Unsuppress(f, i)
  PROVE  BlocksNest'
<1> DEFINE q == flow[f].held
           n == Len(q)
           s == q[n].scope
           a == IF s = NoScope THEN flow[f].ambient ELSE s
           rest == WithoutIndex(q, n)
           new == [flow[f] EXCEPT !.ambient = a, !.held = rest]
<1>1. TypeOK /\ flow[f] \in FlowState /\ q \in Seq(Handle) /\ n \in Nat
      /\ Nests(flow[f], scope, instances)
  BY HeldIs DEF IInv, BlocksNest
<1>2. i = n /\ n > 0 /\ n \in 1 .. n /\ q[n].kind = "suppressor" /\ flow[f].pc = "run"
  BY <1>1, HeldLength DEF Unsuppress, Disposable, Running
<1>3. /\ flow' = [flow EXCEPT ![f] = new] /\ instances \subseteq instances' /\ scope' = scope
  BY <1>2 DEF Unsuppress
<1>4. /\ rest \in Seq(Handle) /\ Len(rest) = n - 1 /\ \A k \in 1 .. n - 1 : rest[k] = q[k]
  <2> HIDE DEF q
  <2> QED
    BY <1>1, <1>2, WithoutLast
<1>5. n > 1 /\ q[n - 1].kind = "scope" => a = q[n - 1].scope
  <2> SUFFICES ASSUME n > 1, q[n - 1].kind = "scope" PROVE s = q[n - 1].scope /\ s # NoScope
    OBVIOUS
  <2>1. n \in 2 .. n /\ n - 1 \in 1 .. n
    BY <1>1
  <2>2. Outer(q[n], scope) = q[n - 1].scope
    BY <1>1, <2>1 DEF Nests
  <2>3. q[n - 1].scope \in Scope
    BY <2>1, HeldScopes
  <2> QED
    BY <1>2, <2>2, <2>3, ScopeAssumption DEF Outer
<1> HIDE DEF rest, a
<1>6. new.pc = "run" /\ new.ambient = a /\ new.held = rest
  BY <1>1, <1>2 DEF FlowState
<1> HIDE DEF new
<1>7. flow'[f] = new /\ \A g \in Flow \ {f} : flow'[g] = flow[g]
  BY <1>1, <1>3 DEF TypeOK
<1>8. Keeps(rest, scope, scope')
  BY <1>3 DEF Keeps
<1>9. Nests(flow'[f], scope', instances')
  <2> HIDE DEF Keeps
  <2> QED
    BY <1>1, <1>2, <1>3, <1>4, <1>5, <1>6, <1>7, <1>8, NestsOneLess
<1> QED
  BY <1>3, <1>7, <1>9, OneFlowNests

LEMMA InitNests == Init => BlocksNest
<1> SUFFICES ASSUME Init, NEW f \in Flow PROVE Nests(flow[f], scope, instances)
  BY DEF BlocksNest
<1>1. flow[f].held = <<>> /\ flow[f].pc \in {"run", "unborn"} /\ Len(<<>>) = 0
  BY EmptySeq DEF Init
<1> QED
  BY <1>1 DEF Nests, Inner

LEMMA NextNests == UsingBlocks /\ IInv /\ BlocksNest /\ [Next]_vars => BlocksNest'
<1> SUFFICES ASSUME UsingBlocks, IInv, BlocksNest, [Next]_vars PROVE BlocksNest'
  OBVIOUS
<1>1. ASSUME NEW f \in Flow, Call(f) PROVE BlocksNest'
  BY <1>1, OpenNests, CallsNest, SuppressNests, ForkNests DEF Call
<1>2. ASSUME NEW f \in Flow, Proceed(f) PROVE BlocksNest'
  <2>1. ~PopThrows(f)
    BY PopIsInOrder DEF PopThrows
  <2> QED
    BY <1>2, <2>1, CallsNest, PopNests, EndDisposeNests DEF Proceed
<1>3. ASSUME NEW f \in Flow, NEW i \in 1 .. MaxHeld, Close(f, i) PROVE BlocksNest'
  BY <1>3, BeginDisposeNests, UnsuppressNests DEF Close
<1>4. CASE UNCHANGED vars
  BY <1>4 DEF vars, BlocksNest
<1> QED
  BY <1>1, <1>2, <1>3, <1>4 DEF Next

LEMMA AlwaysNests == UsingBlocks => (Spec => [](IInv /\ BlocksNest))
<1> DEFINE Safe == UsingBlocks /\ IInv /\ BlocksNest
<1>1. UsingBlocks /\ Init => Safe
  BY InitKeeps, InitNests
<1>2. Safe /\ [Next]_vars => Safe'
  BY NextKeeps, NextNests
<1>3. Safe => IInv /\ BlocksNest
  OBVIOUS
<1> HIDE DEF Safe
<1> QED
  BY <1>1, <1>2, <1>3, PTL DEF Spec

(* With using blocks Dispose never throws "must be disposed of in the      *)
(* order...", not even in flows that inherited the scope of another.       *)
THEOREM DisposeInOrder == UsingBlocks => (Spec => []InOrderDisposeNeverThrows)
<1>1. IInv /\ BlocksNest => InOrderDisposeNeverThrows
  BY PopIsInOrder DEF InOrderDisposeNeverThrows
<1> QED
  BY <1>1, AlwaysNests, PTL

-------------------------------------------------------------------------------
(* Flows that suppress the ambient scope before they fork. *)

(* No scope leaks into a flow: what is ambient is what its handles say.    *)
AllSecluded == \A f \in Flow : Secluded(flow[f], scope)

(* An open scope is held by the flow that opened it.                       *)
OpenIsHeld == \A s \in Scope : Opened(s) => scope[s].disposed \/ Holds(scope[s].owner, s)

RootsAreOwn ==
  \A s \in Scope : Opened(s) => scope[scope[s].collection].owner = scope[s].owner

(* Contexts are disposed of by the Dispose of the scope that created them. *)
DisposedByOwner ==
  \A s \in Scope : Opened(s) /\ collection[s].disposed =>
    \/ scope[s].disposed
    \/ flow[scope[s].owner].pc \in {"pop", "mark"} /\ flow[scope[s].owner].at = s

TrackedIsOpen ==
  \A s \in instances :
    ~scope[s].disposed /\ ~(flow[scope[s].owner].pc = "mark" /\ flow[scope[s].owner].at = s)

Tidy == OpenIsHeld /\ RootsAreOwn /\ DisposedByOwner /\ TrackedIsOpen

Anchored(q, sc, sc2) ==
  \A i \in 1 .. Len(q) : q[i].kind = "scope" =>
    sc2[q[i].scope].parent = sc[q[i].scope].parent
    /\ sc2[q[i].scope].collection = sc[q[i].scope].collection

LEMMA SecludedStays ==
  ASSUME NEW fs, NEW fs2, NEW sc, NEW sc2, fs.held \in Seq(Handle), Secluded(fs, sc),
         fs2.held = fs.held, fs2.ambient = fs.ambient, Inner(fs2) = Inner(fs),
         Anchored(fs.held, sc, sc2)
  PROVE  Secluded(fs2, sc2)
<1> DEFINE q == fs.held
<1>1. \A i \in 1 .. Len(q) : Outer(q[i], sc2) = Outer(q[i], sc)
  BY DEF Anchored, Outer
<1>2. \A i \in 1 .. Len(q) : q[i].kind = "scope" =>
        sc2[q[i].scope].collection = sc[q[i].scope].collection
  BY DEF Anchored
<1> QED
  BY <1>1, <1>2 DEF Secluded

LEMMA SecludedOneMore ==
  ASSUME NEW fs, NEW fs2, NEW sc, NEW sc2, NEW h \in Handle,
         fs.held \in Seq(Handle), Secluded(fs, sc), fs.pc = "run", fs2.pc = "run",
         fs2.held = Append(fs.held, h), Anchored(fs.held, sc, sc2),
         fs2.ambient = IF h.kind = "scope" THEN h.scope ELSE NoScope,
         Outer(h, sc2) = fs.ambient,
         h.kind = "scope" => \/ h = ScopeHandle(sc2[h.scope].collection)
                             \/ \E j \in 1 .. Len(fs.held) :
                                  fs.held[j] = ScopeHandle(sc2[h.scope].collection)
  PROVE  Secluded(fs2, sc2)
<1> DEFINE q == fs.held
           n == Len(q)
           r == fs2.held
<1>1. /\ n \in Nat /\ r \in Seq(Handle) /\ Len(r) = n + 1 /\ r[n + 1] = h
      /\ \A i \in 1 .. n : r[i] = q[i]
  <2>1. n \in Nat
    BY HeldLength
  <2> QED
    BY <2>1
<1>2. Inner(fs2) = n + 1 /\ Inner(fs) = n
  BY <1>1 DEF Inner
<1> HIDE DEF r
<1>3. \A k \in 0 .. n : Expected(r, k) = Expected(q, k)
  <2> TAKE k \in 0 .. n
  <2>1. k > 0 => r[k] = q[k]
    BY <1>1
  <2> QED
    BY <2>1 DEF Expected
<1>4. fs2.ambient = Expected(r, n + 1)
  <2>1. n + 1 > 0
    BY <1>1
  <2> QED
    BY <1>1, <2>1 DEF Expected
<1>5. ASSUME NEW i \in 1 .. n + 1 PROVE Outer(r[i], sc2) = Expected(r, i - 1)
  <2>1. CASE i = n + 1
    <3>1. i - 1 = n /\ n \in 0 .. n /\ r[i] = h
      BY <1>1, <2>1
    <3>2. Expected(r, n) = fs.ambient
      BY <1>2, <1>3, <3>1 DEF Secluded
    <3> QED
      BY <3>1, <3>2
  <2>2. CASE i \in 1 .. n
    <3>1. i - 1 \in 0 .. n /\ r[i] = q[i]
      BY <1>1, <2>2
    <3>2. Outer(q[i], sc) = Expected(q, i - 1)
      BY <2>2 DEF Secluded
    <3>3. Outer(q[i], sc2) = Outer(q[i], sc)
      BY <2>2 DEF Anchored, Outer
    <3> QED
      BY <1>3, <3>1, <3>2, <3>3
  <2> QED
    BY <1>1, <2>1, <2>2
<1>6. ASSUME NEW i \in 1 .. n + 1, r[i].kind = "scope"
      PROVE  \E j \in 1 .. i : r[j] = ScopeHandle(sc2[r[i].scope].collection)
  <2>1. CASE i = n + 1
    <3>1. r[i] = h /\ h.kind = "scope"
      BY <1>1, <1>6, <2>1
    <3>2. CASE h = ScopeHandle(sc2[h.scope].collection)
      <4>1. i \in 1 .. i
        OBVIOUS
      <4> QED
        BY <3>1, <3>2, <4>1
    <3>3. ASSUME NEW j \in 1 .. n, q[j] = ScopeHandle(sc2[h.scope].collection)
          PROVE  \E k \in 1 .. i : r[k] = ScopeHandle(sc2[r[i].scope].collection)
      <4>1. j \in 1 .. i /\ r[j] = q[j]
        BY <1>1, <2>1
      <4> QED
        BY <3>1, <3>3, <4>1
    <3> QED
      BY <3>1, <3>2, <3>3
  <2>2. CASE i \in 1 .. n
    <3>1. r[i] = q[i] /\ q[i].kind = "scope"
      BY <1>1, <1>6, <2>2
    <3>2. PICK j \in 1 .. i : q[j] = ScopeHandle(sc[q[i].scope].collection)
      BY <2>2, <3>1 DEF Secluded
    <3>3. sc2[q[i].scope].collection = sc[q[i].scope].collection
      BY <2>2, <3>1 DEF Anchored
    <3>4. r[j] = q[j]
      BY <1>1, <2>2
    <3> QED
      BY <3>1, <3>2, <3>3, <3>4
  <2> QED
    BY <1>1, <2>1, <2>2
<1> QED
  BY <1>1, <1>2, <1>4, <1>5, <1>6 DEF Secluded, r

LEMMA SecludedOneLess ==
  ASSUME NEW fs, NEW fs2, NEW sc, NEW sc2,
         fs.held \in Seq(Handle), Secluded(fs, sc), fs2.pc = "run", Len(fs.held) > 0,
         fs2.held \in Seq(Handle), Len(fs2.held) = Len(fs.held) - 1,
         \A i \in 1 .. Len(fs.held) - 1 : fs2.held[i] = fs.held[i],
         Anchored(fs2.held, sc, sc2),
         fs2.ambient = Expected(fs.held, Len(fs.held) - 1)
  PROVE  Secluded(fs2, sc2)
<1> DEFINE q == fs.held
           n == Len(q)
           r == fs2.held
<1>1. n \in Nat /\ n > 0 /\ Len(r) = n - 1 /\ n - 1 \in Nat
      /\ \A i \in 1 .. n - 1 : r[i] = q[i] /\ i \in 1 .. n
  BY HeldLength
<1>2. Inner(fs2) = n - 1
  BY <1>1 DEF Inner
<1> HIDE DEF r
<1>3. \A k \in 0 .. n - 1 : Expected(r, k) = Expected(q, k)
  <2> TAKE k \in 0 .. n - 1
  <2>1. k > 0 => r[k] = q[k]
    BY <1>1
  <2> QED
    BY <2>1 DEF Expected
<1>4. fs2.ambient = Expected(r, n - 1)
  BY <1>1, <1>3
<1>5. ASSUME NEW i \in 1 .. n - 1 PROVE Outer(r[i], sc2) = Expected(r, i - 1)
  <2>1. i - 1 \in 0 .. n - 1 /\ r[i] = q[i] /\ i \in 1 .. n
    BY <1>1
  <2>2. Outer(q[i], sc) = Expected(q, i - 1)
    BY <2>1 DEF Secluded
  <2>3. Outer(r[i], sc2) = Outer(r[i], sc)
    BY <1>1 DEF Anchored, Outer, r
  <2> QED
    BY <1>3, <2>1, <2>2, <2>3
<1>6. ASSUME NEW i \in 1 .. n - 1, r[i].kind = "scope"
      PROVE  \E j \in 1 .. i : r[j] = ScopeHandle(sc2[r[i].scope].collection)
  <2>1. r[i] = q[i] /\ i \in 1 .. n
    BY <1>1
  <2>2. PICK j \in 1 .. i : q[j] = ScopeHandle(sc[q[i].scope].collection)
    BY <1>6, <2>1 DEF Secluded
  <2>3. j \in 1 .. n - 1
    BY <1>1
  <2>4. sc2[r[i].scope].collection = sc[r[i].scope].collection
    BY <1>1, <1>6 DEF Anchored, r
  <2> QED
    BY <1>1, <2>1, <2>2, <2>3, <2>4
<1> QED
  BY <1>1, <1>2, <1>4, <1>5, <1>6 DEF Secluded, r

LEMMA OneFlowSecluded ==
  ASSUME IInv, AllSecluded, NEW f \in Flow, \A g \in Flow \ {f} : flow'[g] = flow[g],
         \A s \in Scope : Opened(s) => /\ scope'[s].parent = scope[s].parent
                                       /\ scope'[s].collection = scope[s].collection,
         Secluded(flow'[f], scope')
  PROVE  AllSecluded'
<1> SUFFICES ASSUME NEW g \in Flow PROVE Secluded(flow'[g], scope')
  BY DEF AllSecluded
<1>1. CASE g = f
  BY <1>1
<1>2. CASE g # f
  <2>1. flow'[g] = flow[g] /\ flow[g].held \in Seq(Handle) /\ Secluded(flow[g], scope)
    BY <1>2, HeldIs DEF AllSecluded
  <2>2. Anchored(flow[g].held, scope, scope')
    BY HeldScopes DEF Anchored
  <2> HIDE DEF Anchored
  <2> QED
    BY <2>1, <2>2, SecludedStays
<1> QED
  BY <1>1, <1>2

LEMMA TidyStays ==
  ASSUME IInv, Tidy, NEW f \in Flow, \A g \in Flow \ {f} : flow'[g] = flow[g],
         \A x \in Scope : SameFields(x),
         \A s \in Scope : Holds(f, s) => Holds(f, s)',
         flow[f].pc \notin {"pop", "mark"}, flow'[f].pc # "mark", instances' = instances,
         \A x \in Scope : collection'[x].disposed =>
           \/ collection[x].disposed
           \/ scope[x].owner = f /\ flow'[f].pc = "pop" /\ flow'[f].at = x
  PROVE  Tidy'
<1>1. \A x \in Scope : Opened(x)' <=> Opened(x)
  BY DEF SameFields, Opened
<1>2. \A x \in Scope : Opened(x) => scope[x].owner \in Flow /\ scope[x].collection \in Scope
  BY DEF IInv, TypeOK, ScopeFields, Opened
<1>3. OpenIsHeld'
  <2> SUFFICES ASSUME NEW x \in Scope, Opened(x), ~scope[x].disposed
               PROVE  Holds(scope[x].owner, x)'
    BY <1>1 DEF OpenIsHeld, SameFields
  <2>1. Holds(scope[x].owner, x)
    BY DEF Tidy, OpenIsHeld
  <2>2. scope'[x].owner = scope[x].owner
    BY DEF SameFields
  <2>3. CASE scope[x].owner = f
    BY <2>1, <2>2, <2>3 DEF Holds
  <2>4. CASE scope[x].owner # f
    BY <2>1, <2>2, <2>4, <1>2 DEF Holds
  <2> QED
    BY <2>3, <2>4
<1>4. RootsAreOwn'
  BY <1>1, <1>2 DEF Tidy, RootsAreOwn, SameFields
<1>5. DisposedByOwner'
  <2> SUFFICES ASSUME NEW x \in Scope, Opened(x), collection'[x].disposed, ~scope[x].disposed
               PROVE  flow'[scope[x].owner].pc \in {"pop", "mark"} /\ flow'[scope[x].owner].at = x
    BY <1>1 DEF DisposedByOwner, SameFields
  <2>1. CASE collection[x].disposed
    <3>1. flow[scope[x].owner].pc \in {"pop", "mark"} /\ flow[scope[x].owner].at = x
      BY <2>1 DEF Tidy, DisposedByOwner
    <3> QED
      BY <3>1, <1>2
  <2> QED
    BY <2>1
<1>6. TrackedIsOpen'
  <2> SUFFICES ASSUME NEW x \in instances
               PROVE  ~scope[x].disposed /\ ~(flow'[scope[x].owner].pc = "mark" /\ flow'[scope[x].owner].at = x)
    <3>1. instances \subseteq Scope
      BY DEF IInv, TypeOK
    <3> QED
      BY <3>1 DEF TrackedIsOpen, SameFields
  <2>1. x \in Scope /\ Opened(x)
    BY DEF IInv, TypeOK, HandlesAreOwned
  <2> QED
    BY <2>1, <1>2 DEF Tidy, TrackedIsOpen
<1> QED
  BY <1>3, <1>4, <1>5, <1>6 DEF Tidy

(* What is ambient in a flow is the last scope it is in. *)
LEMMA AmbientIsExpected ==
  ASSUME IInv, NEW f \in Flow, Nests(flow[f], scope, instances), Secluded(flow[f], scope),
         flow[f].pc \in {"run", "commit", "pop"}
  PROVE  /\ GetAmbientScope(f) = flow[f].ambient
         /\ flow[f].ambient = Expected(flow[f].held, Len(flow[f].held))
<1> DEFINE q == flow[f].held
           n == Len(q)
<1>1. n \in Nat /\ instances \subseteq Scope /\ Inner(flow[f]) = n
  BY HeldIs DEF Inner
<1>2. flow[f].ambient = Expected(q, n)
  BY <1>1 DEF Secluded
<1>3. n > 0 => n \in 1 .. n
  BY <1>1
<1>4. n > 0 /\ q[n].kind = "scope" => q[n].scope \in instances
  BY <1>3 DEF Nests
<1> HIDE DEF n, q
<1>5. flow[f].ambient = NoScope \/ flow[f].ambient \in instances
  BY <1>2, <1>4 DEF Expected
<1> QED
  BY <1>2, <1>5 DEF GetAmbientScope, q, n

-------------------------------------------------------------------------------
(* Seclusion: one lemma per action. *)

(* A step that opens and closes nothing. *)
LEMMA QuietSecluded ==
  ASSUME IInv, AllSecluded, Tidy, NEW f \in Flow, \A g \in Flow \ {f} : flow'[g] = flow[g],
         flow'[f].held = flow[f].held, flow'[f].ambient = flow[f].ambient,
         flow[f].pc \in {"run", "commit"}, flow'[f].pc \in {"run", "commit", "pop"},
         instances' = instances,
         \A x \in Scope : SameFields(x),
         \A x \in Scope : collection'[x].disposed =>
           \/ collection[x].disposed
           \/ scope[x].owner = f /\ flow'[f].pc = "pop" /\ flow'[f].at = x
  PROVE  AllSecluded' /\ Tidy'
<1>1. flow[f].held \in Seq(Handle) /\ Secluded(flow[f], scope)
  BY HeldIs DEF AllSecluded
<1>2. Anchored(flow[f].held, scope, scope')
  BY HeldScopes DEF Anchored, SameFields
<1>3. Inner(flow'[f]) = Inner(flow[f])
  BY DEF Inner
<1>4. Secluded(flow'[f], scope')
  <2> HIDE DEF Anchored
  <2> QED
    BY <1>1, <1>2, <1>3, SecludedStays
<1>5. \A s \in Scope : Holds(f, s) => Holds(f, s)'
  BY DEF Holds
<1>6. AllSecluded'
  <2>1. \A s \in Scope : Opened(s) => /\ scope'[s].parent = scope[s].parent
                                      /\ scope'[s].collection = scope[s].collection
    BY DEF SameFields
  <2> QED
    BY <2>1, <1>4, OneFlowSecluded
<1> QED
  BY <1>5, <1>6, TidyStays

LEMMA CallsSecluded ==
  ASSUME IInv, AllSecluded, Tidy, NEW f \in Flow,
         \/ \E s \in Scope, t \in CtxType, change \in BOOLEAN : UseContext(f, s, t, change)
         \/ \E s \in Scope : SaveNested(f, s) \/ BeginCommit(f, s)
         \/ \E t \in CtxType, ok \in BOOLEAN : CommitContext(f, t, ok)
         \/ CommitInvalidated(f) \/ EndCommit(f)
  PROVE  AllSecluded' /\ Tidy'
<1>1. /\ instances' = instances /\ \A g \in Flow \ {f} : flow'[g] = flow[g]
      /\ flow'[f].held = flow[f].held /\ flow'[f].ambient = flow[f].ambient
      /\ flow[f].pc \in {"run", "commit"} /\ flow'[f].pc \in {"run", "commit"}
      /\ \A x \in Scope : SameFields(x)
      /\ \A x \in Scope : collection'[x].disposed = collection[x].disposed
  BY CallsAreQuiet
<1> QED
  BY <1>1, QuietSecluded

LEMMA BeginDisposeSecluded ==
  ASSUME IInv, AllSecluded, Tidy, NEW f \in Flow, NEW i, BeginDispose(f, i)
  PROVE  AllSecluded' /\ Tidy'
<1> DEFINE s == flow[f].held[i].scope
           new == [flow[f] EXCEPT !.pc = "pop", !.at = s]
<1>1. TypeOK /\ flow[f] \in FlowState /\ ScopesAreRooted
  BY HeldIs DEF IInv
<1>2. i \in 1 .. Len(flow[f].held) /\ flow[f].held[i].kind = "scope" /\ flow[f].pc = "run"
  BY HeldIs, HeldLength DEF BeginDispose, Disposable, Running
<1>3. s \in Scope /\ Opened(s) /\ scope[s].owner = f
  BY <1>2, HeldScopes
<1>4. /\ flow' = [flow EXCEPT ![f] = new] /\ instances' = instances
      /\ scope' = scope \/ scope' = [scope EXCEPT ![s].completed = TRUE]
      /\ collection' # collection => ~Nested(s)
           /\ collection' = [collection EXCEPT ![scope[s].collection] = DisposeCollection(@)]
  BY DEF BeginDispose
<1> HIDE DEF s
<1>5. /\ new.pc = "pop" /\ new.at = s /\ new.held = flow[f].held
      /\ new.ambient = flow[f].ambient
  BY <1>1 DEF FlowState
<1> HIDE DEF new
<1>6. flow'[f] = new /\ \A g \in Flow \ {f} : flow'[g] = flow[g]
  BY <1>1, <1>4 DEF TypeOK
<1>7. \A x \in Scope : SameFields(x)
  BY <1>3, <1>4, SameFieldsOf DEF SameFields
<1>8. \A x \in Scope : collection'[x].disposed => collection[x].disposed \/ x = s
  BY <1>1, <1>3, <1>4 DEF ScopesAreRooted, TypeOK
<1> QED
  BY <1>2, <1>3, <1>4, <1>5, <1>6, <1>7, <1>8, QuietSecluded

(* A handle more loses none of the others. *)
LEMMA StillHeld ==
  ASSUME IInv, NEW f \in Flow, NEW h \in Handle, NEW x \in Scope, Holds(f, x),
         NEW r, r = Append(flow[f].held, h)
  PROVE  \E k \in DOMAIN r : r[k] = ScopeHandle(x)
<1>1. flow[f].held \in Seq(Handle) /\ Len(flow[f].held) \in Nat
  BY HeldIs
<1>2. PICK k \in DOMAIN flow[f].held : flow[f].held[k] = ScopeHandle(x)
  BY DEF Holds
<1>3. k \in DOMAIN r /\ r[k] = flow[f].held[k]
  BY <1>1, <1>2
<1> QED
  BY <1>2, <1>3

(* The last handle less loses only what it held. *)
LEMMA HeldBelow ==
  ASSUME IInv, NEW f \in Flow, NEW x \in Scope, Holds(f, x), Len(flow[f].held) > 0,
         flow[f].held[Len(flow[f].held)] # ScopeHandle(x),
         NEW r, r = WithoutIndex(flow[f].held, Len(flow[f].held))
  PROVE  \E k \in DOMAIN r : r[k] = ScopeHandle(x)
<1> DEFINE q == flow[f].held
           n == Len(q)
<1>1. q \in Seq(Handle) /\ n \in Nat /\ DOMAIN q = 1 .. n
  BY HeldIs, HeldLength
<1>2. r \in Seq(Handle) /\ Len(r) = n - 1 /\ \A k \in 1 .. n - 1 : r[k] = q[k]
  <2> HIDE DEF q
  <2>1. q = flow[f].held
    BY DEF q
  <2> QED
    BY <1>1, <2>1, WithoutLast
<1>3. PICK k \in 1 .. n : q[k] = ScopeHandle(x)
  BY <1>1 DEF Holds
<1>4. k \in 1 .. n - 1
  BY <1>1, <1>3
<1>5. DOMAIN r = 1 .. n - 1
  BY <1>2, HeldLength
<1> QED
  BY <1>2, <1>3, <1>4, <1>5

LEMMA SuppressSecluded ==
  ASSUME IInv, BlocksNest, AllSecluded, Tidy, NEW f \in Flow, Suppress(f)
  PROVE  AllSecluded' /\ Tidy'
<1> DEFINE h == [kind |-> "suppressor", scope |-> GetAmbientScope(f)]
           new == [flow[f] EXCEPT !.ambient = NoScope, !.held = Append(@, h)]
<1>1. TypeOK /\ flow[f] \in FlowState /\ flow[f].held \in Seq(Handle)
      /\ Nests(flow[f], scope, instances) /\ Secluded(flow[f], scope)
  BY HeldIs DEF IInv, BlocksNest, AllSecluded
<1>2. /\ flow' = [flow EXCEPT ![f] = new] /\ scope' = scope /\ collection' = collection
      /\ instances' = instances /\ flow[f].pc = "run"
  BY DEF Suppress, Running, AmbientAfterHide, InstancesAfterHide
<1>3. h \in Handle /\ h.kind = "suppressor" /\ h.scope = GetAmbientScope(f)
  <2>1. GetAmbientScope(f) \in MaybeScope
    BY <1>1 DEF GetAmbientScope, MaybeScope, TypeOK
  <2> QED
    BY <2>1 DEF Handle
<1> HIDE DEF h
<1>4. new.pc = "run" /\ new.held = Append(flow[f].held, h) /\ new.ambient = NoScope
  BY <1>1, <1>2 DEF FlowState
<1> HIDE DEF new
<1>5. flow'[f] = new /\ \A g \in Flow \ {f} : flow'[g] = flow[g]
  BY <1>1, <1>2 DEF TypeOK
<1>6. Outer(h, scope) = flow[f].ambient
  BY <1>1, <1>2, <1>3, AmbientIsExpected DEF Outer
<1>7. Secluded(new, scope)
  <2>1. Anchored(flow[f].held, scope, scope)
    BY DEF Anchored
  <2>2. new.ambient = IF h.kind = "scope" THEN h.scope ELSE NoScope
    BY <1>3, <1>4
  <2> QED
    BY <1>1, <1>2, <1>3, <1>4, <1>6, <2>1, <2>2, SecludedOneMore
<1>8. AllSecluded'
  BY <1>2, <1>5, <1>7, OneFlowSecluded
<1>9. \A x \in Scope : Holds(f, x) => Holds(f, x)'
  BY <1>3, <1>4, <1>5, StillHeld DEF Holds
<1>10. \A x \in Scope : SameFields(x)
  BY <1>2 DEF SameFields
<1> QED
  BY <1>2, <1>4, <1>5, <1>8, <1>9, <1>10, TidyStays

LEMMA ForkSecluded ==
  ASSUME SuppressBeforeFork, IInv, BlocksNest, AllSecluded, Tidy,
         NEW f \in Flow, NEW g \in Flow, Fork(f, g)
  PROVE  AllSecluded' /\ Tidy'
<1> DEFINE new == [flow[g] EXCEPT !.pc = "run", !.ambient = flow[f].ambient]
<1>1. TypeOK /\ flow[g] \in FlowState /\ Nests(flow[g], scope, instances)
      /\ Nests(flow[f], scope, instances) /\ Secluded(flow[f], scope)
  BY HeldIs DEF IInv, BlocksNest, AllSecluded
<1>2. /\ flow' = [flow EXCEPT ![g] = new] /\ flow[g].pc = "unborn" /\ flow[f].pc = "run"
      /\ instances' = instances /\ scope' = scope /\ collection' = collection
  BY DEF Fork, Running
<1>3. flow[f].ambient = NoScope
  <2>1. flow[f].ambient = Expected(flow[f].held, Len(flow[f].held))
    BY <1>1, <1>2, AmbientIsExpected
  <2>2. Len(flow[f].held) > 0 => flow[f].held[Len(flow[f].held)].kind = "suppressor"
    BY HeldIs DEF Fork, SuppressesNow
  <2> QED
    BY <2>1, <2>2 DEF Expected
<1>4. new.pc = "run" /\ new.held = flow[g].held /\ new.ambient = NoScope
  BY <1>1, <1>3 DEF FlowState
<1> HIDE DEF new
<1>5. Len(flow[g].held) = 0
  BY <1>1, <1>2 DEF Nests
<1>6. flow'[g] = new /\ \A x \in Flow \ {g} : flow'[x] = flow[x]
  BY <1>1, <1>2 DEF TypeOK
<1>7. Secluded(flow'[g], scope')
  BY <1>4, <1>5, <1>6 DEF Secluded, Inner, Expected
<1>8. AllSecluded'
  BY <1>2, <1>6, <1>7, OneFlowSecluded
<1>9. \A x \in Scope : Holds(g, x) => Holds(g, x)'
  BY <1>4, <1>6 DEF Holds
<1>10. \A x \in Scope : SameFields(x)
  BY <1>2 DEF SameFields
<1> QED
  BY <1>2, <1>4, <1>6, <1>8, <1>9, <1>10, TidyStays

LEMMA UnsuppressSecluded ==
  ASSUME UsingBlocks, IInv, BlocksNest, AllSecluded, Tidy, NEW f \in Flow, NEW i, Unsuppress(f, i)
  PROVE  AllSecluded' /\ Tidy'
<1> DEFINE q == flow[f].held
           n == Len(q)
           s == q[n].scope
           a == IF s = NoScope THEN flow[f].ambient ELSE s
           rest == WithoutIndex(q, n)
           new == [flow[f] EXCEPT !.ambient = a, !.held = rest]
<1>1. TypeOK /\ flow[f] \in FlowState /\ q \in Seq(Handle) /\ n \in Nat
      /\ Nests(flow[f], scope, instances) /\ Secluded(flow[f], scope)
  BY HeldIs DEF IInv, BlocksNest, AllSecluded
<1>2. i = n /\ n > 0 /\ n \in 1 .. n /\ q[n].kind = "suppressor" /\ flow[f].pc = "run"
  BY <1>1, HeldLength DEF Unsuppress, Disposable, Running
<1>3. /\ flow' = [flow EXCEPT ![f] = new] /\ scope' = scope /\ collection' = collection
      /\ instances' = instances \/ instances' = instances \cup Tracked(s)
  BY <1>2 DEF Unsuppress
<1>4. s = Expected(q, n - 1)
  <2>1. Outer(q[n], scope) = Expected(q, n - 1)
    BY <1>1, <1>2 DEF Secluded
  <2> QED
    BY <1>2, <2>1 DEF Outer
<1>5. s # NoScope => s \in instances
  <2>1. ASSUME n - 1 > 0, q[n - 1].kind = "scope" PROVE q[n - 1].scope \in instances
    <3>1. n - 1 \in 1 .. n
      BY <1>1, <2>1
    <3> QED
      BY <1>1, <1>2, <2>1, <3>1 DEF Nests
  <2> QED
    BY <1>4, <2>1 DEF Expected
<1>6. instances' = instances
  BY <1>3, <1>5 DEF Tracked
<1>7. a = Expected(q, n - 1)
  <2>1. flow[f].ambient = Expected(q, n)
    BY <1>1, <1>2, AmbientIsExpected
  <2>2. Expected(q, n) = NoScope
    BY <1>2 DEF Expected
  <2> QED
    BY <1>4, <2>1, <2>2
<1>8. /\ rest \in Seq(Handle) /\ Len(rest) = n - 1 /\ \A k \in 1 .. n - 1 : rest[k] = q[k]
  <2> HIDE DEF q
  <2> QED
    BY <1>1, <1>2, WithoutLast
<1> HIDE DEF rest, a
<1>9. new.pc = "run" /\ new.ambient = a /\ new.held = rest
  BY <1>1, <1>2 DEF FlowState
<1> HIDE DEF new
<1>10. flow'[f] = new /\ \A g \in Flow \ {f} : flow'[g] = flow[g]
  BY <1>1, <1>3 DEF TypeOK
<1>11. Secluded(new, scope)
  <2>1. Anchored(rest, scope, scope)
    BY DEF Anchored
  <2> QED
    BY <1>1, <1>2, <1>7, <1>8, <1>9, <2>1, SecludedOneLess
<1>12. AllSecluded'
  BY <1>3, <1>10, <1>11, OneFlowSecluded
<1>13. \A x \in Scope : Holds(f, x) => Holds(f, x)'
  <2>1. \A x \in Scope : q[n] # ScopeHandle(x)
    BY <1>2 DEF ScopeHandle
  <2>2. rest = WithoutIndex(q, n)
    BY DEF rest
  <2>3. \A x \in Scope : Holds(f, x) => \E k \in DOMAIN rest : rest[k] = ScopeHandle(x)
    BY <1>2, <2>1, <2>2, HeldBelow
  <2> QED
    BY <1>9, <1>10, <2>3 DEF Holds
<1>14. \A x \in Scope : SameFields(x)
  BY <1>3 DEF SameFields
<1> QED
  BY <1>2, <1>3, <1>6, <1>9, <1>10, <1>12, <1>13, <1>14, TidyStays

LEMMA OpenSecluded ==
  ASSUME IInv, BlocksNest, AllSecluded, Tidy, NEW f \in Flow, NEW s \in Scope, NEW ro \in BOOLEAN,
         Open(f, s, ro)
  PROVE  AllSecluded' /\ Tidy'
<1> DEFINE q == flow[f].held
           n == Len(q)
           p == GetAmbientScope(f)
           h == ScopeHandle(s)
           root == IF p = NoScope THEN s ELSE scope[p].collection
           new == [flow[f] EXCEPT !.ambient = s, !.held = Append(@, h)]
           fields == [owner |-> f, readOnly |-> ro, parent |-> p, collection |-> root,
                      completed |-> FALSE, disposed |-> FALSE]
<1>1. TypeOK /\ flow[f] \in FlowState /\ q \in Seq(Handle) /\ n \in Nat
      /\ Nests(flow[f], scope, instances) /\ Secluded(flow[f], scope) /\ ScopesAreRooted
  BY HeldIs DEF IInv, BlocksNest, AllSecluded
<1>2. /\ flow' = [flow EXCEPT ![f] = new] /\ scope' = [scope EXCEPT ![s] = fields]
      /\ instances' = instances \cup {s} /\ flow[f].pc = "run" /\ ~Opened(s)
      /\ collection' = collection \/ collection' = [collection EXCEPT ![s] = NewCollection(ro)]
  BY DEF Open, Running
<1>3. h \in Handle /\ h.kind = "scope" /\ h.scope = s
  BY DEF Handle, ScopeHandle, MaybeScope
<1>4. p = flow[f].ambient /\ p = Expected(q, n)
  BY <1>1, <1>2, AmbientIsExpected
<1>5. root = s \/ \E j \in 1 .. n : q[j] = ScopeHandle(root)
  <2>1. CASE p = NoScope
    BY <2>1
  <2>2. CASE p # NoScope
    <3>1. n \in 1 .. n /\ q[n].kind = "scope" /\ q[n].scope = p
      BY <1>1, <1>4, <2>2 DEF Expected
    <3> QED
      BY <1>1, <2>2, <3>1 DEF Secluded
  <2> QED
    BY <2>1, <2>2
<1>6. fields.disposed = FALSE /\ fields.parent = p /\ fields.collection = root /\ fields.owner = f
  OBVIOUS
<1> HIDE DEF fields, h, root, p
<1>7. scope'[s] = fields /\ \A x \in Scope \ {s} : scope'[x] = scope[x]
  BY <1>1, <1>2 DEF TypeOK
<1>8. new.pc = "run" /\ new.ambient = s /\ new.held = Append(q, h)
  BY <1>1, <1>2 DEF FlowState
<1> HIDE DEF new
<1>9. flow'[f] = new /\ \A g \in Flow \ {f} : flow'[g] = flow[g]
  BY <1>1, <1>2 DEF TypeOK
<1>10. \A x \in Scope : Opened(x) => scope'[x] = scope[x] /\ x # s
  BY <1>2, <1>7
<1>11. Secluded(flow'[f], scope')
  <2> DEFINE sc == scope'
  <2>1. Anchored(flow[f].held, scope, sc)
    BY <1>10, HeldScopes DEF Anchored
  <2>2. sc[s] = fields
    BY <1>7
  <2> HIDE DEF sc, Anchored
  <2>3. Outer(h, sc) = flow[f].ambient
    BY <1>3, <1>4, <1>6, <2>2 DEF Outer
  <2>4. h.kind = "scope" => \/ h = ScopeHandle(sc[h.scope].collection)
                            \/ \E j \in 1 .. Len(q) : q[j] = ScopeHandle(sc[h.scope].collection)
    BY <1>3, <1>5, <1>6, <2>2 DEF h
  <2>5. new.ambient = IF h.kind = "scope" THEN h.scope ELSE NoScope
    BY <1>3, <1>8
  <2>6. flow[f].pc = "run"
    BY <1>2
  <2>7. Secluded(new, sc)
    BY <1>1, <1>3, <1>8, <2>1, <2>3, <2>4, <2>5, <2>6, SecludedOneMore
  <2> QED
    BY <1>9, <2>7 DEF sc
<1>12. AllSecluded'
  BY <1>9, <1>10, <1>11, OneFlowSecluded
<1>13. \A x \in Scope : Opened(x)' => x = s \/ Opened(x)
  BY <1>7 DEF Opened
<1>14. \A x \in Scope : Opened(x) => scope[x].owner \in Flow /\ scope[x].collection \in Scope
  BY <1>1 DEF TypeOK, ScopeFields, Opened
<1>15. OpenIsHeld'
  <2> SUFFICES ASSUME NEW x \in Scope, Opened(x)', ~scope'[x].disposed
               PROVE  \E k \in DOMAIN flow'[scope'[x].owner].held :
                        flow'[scope'[x].owner].held[k] = ScopeHandle(x)
    BY DEF OpenIsHeld, Holds
  <2>1. CASE x = s
    <3>1. Len(Append(q, h)) = n + 1 /\ Append(q, h)[n + 1] = h /\ n + 1 \in DOMAIN Append(q, h)
      BY <1>1, <1>3
    <3> QED
      BY <1>6, <1>7, <1>8, <1>9, <2>1, <3>1 DEF Holds, h
  <2>2. CASE x # s
    <3>1. Opened(x) /\ scope'[x] = scope[x] /\ Holds(scope[x].owner, x) /\ scope[x].owner \in Flow
      BY <1>10, <1>13, <1>14, <2>2 DEF Tidy, OpenIsHeld
    <3>2. CASE scope[x].owner = f
      <4>1. \E k \in DOMAIN new.held : new.held[k] = ScopeHandle(x)
        BY <1>3, <1>8, <3>1, <3>2, StillHeld
      <4> QED
        BY <1>9, <3>1, <3>2, <4>1 DEF Holds
    <3>3. CASE scope[x].owner # f
      BY <1>9, <3>1, <3>3 DEF Holds
    <3> QED
      BY <3>2, <3>3
  <2> QED
    BY <2>1, <2>2
<1>16. RootsAreOwn'
  <2> SUFFICES ASSUME NEW x \in Scope, Opened(x)'
               PROVE  scope'[scope'[x].collection].owner = scope'[x].owner
    BY DEF RootsAreOwn
  <2>1. CASE x = s
    <3>1. CASE root = s
      BY <1>6, <1>7, <2>1, <3>1
    <3>2. ASSUME NEW j \in 1 .. n, q[j] = ScopeHandle(root)
          PROVE  scope'[root].owner = f
      <4>1. q[j].kind = "scope" /\ q[j].scope = root
        BY <3>2 DEF ScopeHandle
      <4>2. root \in Scope /\ Opened(root) /\ scope[root].owner = f
        BY <4>1, HeldScopes
      <4> QED
        BY <1>10, <4>2
    <3> QED
      BY <1>5, <1>6, <1>7, <2>1, <3>1, <3>2
  <2>2. CASE x # s
    <3>1. Opened(x) /\ scope'[x] = scope[x]
      BY <1>10, <1>13, <2>2
    <3>2. scope[x].collection \in Scope /\ Opened(scope[x].collection)
      BY <1>1, <1>14, <3>1 DEF ScopesAreRooted
    <3> QED
      BY <1>10, <3>1, <3>2 DEF Tidy, RootsAreOwn
  <2> QED
    BY <2>1, <2>2
<1>17. DisposedByOwner'
  <2> SUFFICES ASSUME NEW x \in Scope, Opened(x)', collection'[x].disposed, ~scope'[x].disposed
               PROVE  flow'[scope'[x].owner].pc \in {"pop", "mark"} /\ flow'[scope'[x].owner].at = x
    BY DEF DisposedByOwner
  <2>1. x # s
    <3>1. ~collection[s].disposed /\ ~NewCollection(ro).disposed
      BY <1>1, <1>2 DEF ScopesAreRooted, NewCollection
    <3> QED
      BY <1>1, <1>2, <3>1 DEF TypeOK
  <2>2. Opened(x) /\ scope'[x] = scope[x] /\ collection'[x] = collection[x]
    BY <1>1, <1>2, <1>10, <1>13, <2>1 DEF TypeOK
  <2>3. flow[scope[x].owner].pc \in {"pop", "mark"} /\ flow[scope[x].owner].at = x
    BY <2>2 DEF Tidy, DisposedByOwner
  <2>4. scope[x].owner # f /\ scope[x].owner \in Flow
    BY <1>2, <1>14, <2>2, <2>3
  <2> QED
    BY <1>9, <2>2, <2>3, <2>4
<1>18. TrackedIsOpen'
  <2> SUFFICES ASSUME NEW x \in instances'
               PROVE  /\ ~scope'[x].disposed
                      /\ ~(flow'[scope'[x].owner].pc = "mark" /\ flow'[scope'[x].owner].at = x)
    BY DEF TrackedIsOpen
  <2>1. CASE x = s
    BY <1>6, <1>7, <1>8, <1>9, <2>1
  <2>2. CASE x # s
    <3>1. x \in instances /\ x \in Scope /\ Opened(x)
      BY <1>1, <1>2, <2>2 DEF IInv, HandlesAreOwned, TypeOK
    <3>2. scope'[x] = scope[x] /\ scope[x].owner \in Flow
      BY <1>10, <1>14, <3>1
    <3>3. ~scope[x].disposed /\ ~(flow[scope[x].owner].pc = "mark" /\ flow[scope[x].owner].at = x)
      BY <3>1 DEF Tidy, TrackedIsOpen
    <3>4. CASE scope[x].owner = f
      BY <1>8, <1>9, <3>2, <3>3, <3>4
    <3>5. CASE scope[x].owner # f
      BY <1>9, <3>2, <3>3, <3>5
    <3> QED
      BY <3>4, <3>5
  <2> QED
    BY <2>1, <2>2
<1> QED
  BY <1>12, <1>15, <1>16, <1>17, <1>18 DEF Tidy

LEMMA PopSecluded ==
  ASSUME IInv, BlocksNest, AllSecluded, Tidy, NEW f \in Flow, Pop(f)
  PROVE  AllSecluded' /\ Tidy'
<1> DEFINE q == flow[f].held
           n == Len(q)
           s == flow[f].at
           p == ParentToRestore(s)
           new == [flow[f] EXCEPT !.pc = "mark", !.ambient = p]
<1>1. TypeOK /\ flow[f] \in FlowState /\ q \in Seq(Handle) /\ n \in Nat /\ BusyOnOwn(f)
      /\ Nests(flow[f], scope, instances) /\ Secluded(flow[f], scope) /\ flow[f].pc = "pop"
  BY HeldIs DEF IInv, BlocksNest, AllSecluded, BusyOnOwnScope, Pop
<1>2. s \in Scope /\ scope[s].owner = f
  BY <1>1 DEF BusyOnOwn, FlowState, MaybeScope
<1>3. n > 0 /\ n \in 1 .. n /\ q[n] = ScopeHandle(s)
  BY <1>1 DEF Nests
<1>4. scope[s].parent = Expected(q, n - 1)
  <2>1. Outer(q[n], scope) = Expected(q, n - 1)
    BY <1>1, <1>3 DEF Secluded
  <2> QED
    BY <1>3, <2>1 DEF Outer, ScopeHandle
<1>5. p = Expected(q, n - 1) /\ (p # NoScope => p \in instances /\ p # s)
  <2>1. CASE n - 1 > 0 /\ q[n - 1].kind = "scope"
    <3>1. n - 1 \in 1 .. n
      BY <1>1, <2>1
    <3>2. ~scope[q[n - 1].scope].disposed /\ q[n - 1].scope \in instances
      BY <1>1, <2>1, <3>1 DEF Nests
    <3>3. q[n - 1].scope # s
      <4>1. q[n].kind = "scope" /\ q[n].scope = s /\ n - 1 # n
        BY <1>1, <1>3 DEF ScopeHandle
      <4> QED
        BY <1>1, <1>3, <2>1, <3>1, <4>1 DEF Nests
    <3>4. scope[s].parent = q[n - 1].scope /\ q[n - 1].scope \in Scope
      BY <1>4, <2>1, <3>1, HeldScopes DEF Expected
    <3> QED
      BY <1>4, <3>2, <3>3, <3>4, ScopeAssumption DEF ParentToRestore
  <2>2. CASE ~(n - 1 > 0 /\ q[n - 1].kind = "scope")
    <3>1. Expected(q, n - 1) = NoScope
      BY <2>2 DEF Expected
    <3> QED
      BY <1>4, <3>1 DEF ParentToRestore
  <2> QED
    BY <2>1, <2>2
<1>6. /\ flow' = [flow EXCEPT ![f] = new] /\ scope' = scope /\ collection' = collection
      /\ instances' = (instances \ {s}) \cup Tracked(p)
  BY DEF Pop, InstancesAfterRemove
<1>7. instances' = instances \ {s}
  BY <1>5, <1>6 DEF Tracked
<1> HIDE DEF p
<1>8. new.pc = "mark" /\ new.at = s /\ new.held = q /\ new.ambient = p
  BY <1>1 DEF FlowState
<1> HIDE DEF new
<1>9. flow'[f] = new /\ \A g \in Flow \ {f} : flow'[g] = flow[g]
  BY <1>1, <1>6 DEF TypeOK
<1>10. Secluded(flow'[f], scope')
  <2>1. Inner(new) = n - 1
    BY <1>8 DEF Inner
  <2>2. /\ \A i \in 1 .. Len(q) : Outer(q[i], scope) = Expected(q, i - 1)
        /\ \A i \in 1 .. Len(q) : q[i].kind = "scope" =>
             \E j \in 1 .. i : q[j] = ScopeHandle(scope[q[i].scope].collection)
    BY <1>1 DEF Secluded
  <2>3. new.ambient = Expected(new.held, Inner(new))
    BY <1>5, <1>8, <2>1
  <2>4. Secluded(new, scope)
    BY <1>8, <2>2, <2>3 DEF Secluded
  <2> QED
    BY <1>6, <1>9, <2>4
<1>11. AllSecluded'
  BY <1>6, <1>9, <1>10, OneFlowSecluded
<1>12. \A x \in Scope : Opened(x) => scope[x].owner \in Flow
  BY <1>1 DEF TypeOK, ScopeFields, Opened
<1>13. OpenIsHeld'
  <2>1. \A g \in Flow, x \in Scope : Holds(g, x) => Holds(g, x)'
    BY <1>8, <1>9 DEF Holds
  <2> QED
    BY <1>6, <1>12, <2>1 DEF Tidy, OpenIsHeld, Opened
<1>14. RootsAreOwn'
  BY <1>6 DEF Tidy, RootsAreOwn, Opened
<1>15. DisposedByOwner'
  <2> SUFFICES ASSUME NEW x \in Scope, Opened(x), collection[x].disposed, ~scope[x].disposed
               PROVE  flow'[scope[x].owner].pc \in {"pop", "mark"} /\ flow'[scope[x].owner].at = x
    BY <1>6 DEF DisposedByOwner, Opened
  <2>1. flow[scope[x].owner].pc \in {"pop", "mark"} /\ flow[scope[x].owner].at = x
    BY DEF Tidy, DisposedByOwner
  <2>2. CASE scope[x].owner = f
    BY <1>8, <1>9, <2>1, <2>2
  <2>3. CASE scope[x].owner # f
    BY <1>9, <1>12, <2>1, <2>3
  <2> QED
    BY <2>2, <2>3
<1>16. TrackedIsOpen'
  <2> SUFFICES ASSUME NEW x \in instances \ {s}
               PROVE  /\ ~scope[x].disposed
                      /\ ~(flow'[scope[x].owner].pc = "mark" /\ flow'[scope[x].owner].at = x)
    BY <1>6, <1>7 DEF TrackedIsOpen
  <2>1. x \in Scope /\ scope[x].owner \in Flow
    BY <1>1, <1>12 DEF IInv, HandlesAreOwned, TypeOK
  <2>2. ~scope[x].disposed /\ ~(flow[scope[x].owner].pc = "mark" /\ flow[scope[x].owner].at = x)
    BY DEF Tidy, TrackedIsOpen
  <2>3. CASE scope[x].owner = f
    BY <1>8, <1>9, <2>2, <2>3
  <2>4. CASE scope[x].owner # f
    BY <1>9, <2>1, <2>2, <2>4
  <2> QED
    BY <2>3, <2>4
<1> QED
  BY <1>11, <1>13, <1>14, <1>15, <1>16 DEF Tidy

LEMMA EndDisposeSecluded ==
  ASSUME IInv, BlocksNest, AllSecluded, Tidy, NEW f \in Flow, EndDispose(f)
  PROVE  AllSecluded' /\ Tidy'
<1> DEFINE q == flow[f].held
           n == Len(q)
           s == flow[f].at
           rest == WithoutIndex(q, n)
           new == [Returned(flow[f]) EXCEPT !.held = rest]
<1>1. TypeOK /\ flow[f] \in FlowState /\ q \in Seq(Handle) /\ n \in Nat /\ BusyOnOwn(f)
      /\ Nests(flow[f], scope, instances) /\ Secluded(flow[f], scope) /\ flow[f].pc = "mark"
  BY HeldIs DEF IInv, BlocksNest, AllSecluded, BusyOnOwnScope, EndDispose
<1>2. n > 0 /\ n \in 1 .. n /\ q[n] = ScopeHandle(s) /\ DOMAIN q = 1 .. n
  BY <1>1, HeldLength DEF Nests
<1>3. s \in Scope /\ scope[s].owner = f
  BY <1>1 DEF BusyOnOwn, FlowState, MaybeScope
<1>4. /\ flow' = [flow EXCEPT ![f] = new] /\ instances' = instances /\ collection' = collection
      /\ scope' = [scope EXCEPT ![s].disposed = TRUE]
  BY <1>1, <1>2, EndsLast DEF EndDispose
<1>5. /\ rest \in Seq(Handle) /\ Len(rest) = n - 1 /\ \A k \in 1 .. n - 1 : rest[k] = q[k]
  <2> HIDE DEF q
  <2> QED
    BY <1>1, <1>2, WithoutLast
<1>6. rest = WithoutIndex(flow[f].held, Len(flow[f].held))
  OBVIOUS
<1> HIDE DEF rest
<1>7. new.pc = "run" /\ new.ambient = flow[f].ambient /\ new.held = rest
  BY <1>1 DEF Returned, FlowState
<1> HIDE DEF new
<1>8. flow'[f] = new /\ \A g \in Flow \ {f} : flow'[g] = flow[g]
  BY <1>1, <1>4 DEF TypeOK
<1>9. \A x \in Scope : /\ scope'[x].parent = scope[x].parent /\ scope'[x].owner = scope[x].owner
                       /\ scope'[x].collection = scope[x].collection
                       /\ scope'[x].disposed <=> x = s \/ scope[x].disposed
  <2>1. scope'[s] = [scope[s] EXCEPT !.disposed = TRUE] /\ \A x \in Scope \ {s} : scope'[x] = scope[x]
    BY <1>1, <1>3, <1>4 DEF TypeOK
  <2>2. scope[s] \in ScopeFields
    BY <1>1, <1>3 DEF TypeOK
  <2>3. /\ scope'[s].parent = scope[s].parent /\ scope'[s].owner = scope[s].owner
        /\ scope'[s].collection = scope[s].collection /\ scope'[s].disposed
    BY <2>1, <2>2 DEF ScopeFields
  <2> QED
    BY <2>1, <2>3
<1>10. \A x \in Scope : (Opened(x)' <=> Opened(x)) /\ (Opened(x) => scope[x].owner \in Flow)
  BY <1>1, <1>9 DEF TypeOK, ScopeFields, Opened
<1>11. AllSecluded'
  <2>1. new.ambient = Expected(q, n - 1)
    <3>1. Inner(flow[f]) = n - 1
      BY <1>1 DEF Inner
    <3> QED
      BY <1>1, <1>7, <3>1 DEF Secluded
  <2>2. \A i \in 1 .. Len(rest) : rest[i].kind = "scope" => rest[i].scope \in Scope
    <3> SUFFICES ASSUME NEW i \in 1 .. n - 1, q[i].kind = "scope" PROVE q[i].scope \in Scope
      BY <1>5
    <3>1. i \in 1 .. n
      BY <1>1
    <3> QED
      BY <3>1, HeldScopes
  <2> DEFINE sc == scope'
  <2>3. Anchored(rest, scope, sc)
    BY <1>9, <2>2 DEF Anchored
  <2> HIDE DEF sc, Anchored
  <2>4. Secluded(new, sc)
    BY <1>1, <1>2, <1>5, <1>7, <2>1, <2>3, SecludedOneLess
  <2>5. Secluded(flow'[f], scope')
    BY <1>8, <2>4 DEF sc
  <2> QED
    BY <1>8, <1>9, <2>5, OneFlowSecluded
<1>12. OpenIsHeld'
  <2> SUFFICES ASSUME NEW x \in Scope, Opened(x)', ~scope'[x].disposed
               PROVE  \E k \in DOMAIN flow'[scope'[x].owner].held :
                        flow'[scope'[x].owner].held[k] = ScopeHandle(x)
    BY DEF OpenIsHeld, Holds
  <2>0. Opened(x) /\ ~scope[x].disposed /\ x # s /\ scope'[x].owner = scope[x].owner
    BY <1>9, <1>10
  <2>1. Holds(scope[x].owner, x) /\ scope[x].owner \in Flow
    BY <1>10, <2>0 DEF Tidy, OpenIsHeld
  <2>2. CASE scope[x].owner = f
    <3>1. q[n] # ScopeHandle(x)
      BY <1>2, <2>0 DEF ScopeHandle
    <3>2. \E k \in DOMAIN rest : rest[k] = ScopeHandle(x)
      BY <1>2, <1>6, <2>1, <2>2, <3>1, HeldBelow
    <3> QED
      BY <1>7, <1>8, <2>0, <2>2, <3>2
  <2>3. CASE scope[x].owner # f
    BY <1>8, <2>0, <2>1, <2>3 DEF Holds
  <2> QED
    BY <2>2, <2>3
<1>13. RootsAreOwn'
  <2>1. \A x \in Scope : scope[x].collection \in Scope
    BY <1>1 DEF TypeOK, ScopeFields
  <2> QED
    BY <1>9, <1>10, <2>1 DEF Tidy, RootsAreOwn
<1>14. DisposedByOwner'
  <2> SUFFICES ASSUME NEW x \in Scope, Opened(x), collection[x].disposed, ~scope[x].disposed, x # s
               PROVE  flow'[scope[x].owner].pc \in {"pop", "mark"} /\ flow'[scope[x].owner].at = x
    BY <1>4, <1>9, <1>10 DEF DisposedByOwner
  <2>1. flow[scope[x].owner].pc \in {"pop", "mark"} /\ flow[scope[x].owner].at = x
    BY DEF Tidy, DisposedByOwner
  <2> QED
    BY <1>8, <1>10, <2>1
<1>15. TrackedIsOpen'
  <2> SUFFICES ASSUME NEW x \in instances
               PROVE  /\ ~scope'[x].disposed
                      /\ ~(flow'[scope'[x].owner].pc = "mark" /\ flow'[scope'[x].owner].at = x)
    BY <1>4 DEF TrackedIsOpen
  <2>1. x \in Scope /\ Opened(x)
    BY <1>1 DEF IInv, HandlesAreOwned, TypeOK
  <2>2. ~scope[x].disposed /\ ~(flow[scope[x].owner].pc = "mark" /\ flow[scope[x].owner].at = x)
    BY DEF Tidy, TrackedIsOpen
  <2>3. x # s
    BY <1>1, <1>3, <2>2
  <2>4. ~scope'[x].disposed /\ scope'[x].owner = scope[x].owner
    BY <1>9, <2>1, <2>2, <2>3
  <2>5. CASE scope[x].owner = f
    BY <1>7, <1>8, <2>4, <2>5
  <2>6. CASE scope[x].owner # f
    BY <1>8, <1>10, <2>1, <2>2, <2>4, <2>6
  <2> QED
    BY <2>4, <2>5, <2>6
<1> QED
  BY <1>11, <1>12, <1>13, <1>14, <1>15 DEF Tidy

LEMMA InitSecluded == Init => AllSecluded /\ Tidy
<1> SUFFICES ASSUME Init PROVE AllSecluded /\ Tidy
  OBVIOUS
<1>1. \A f \in Flow : /\ flow[f].held = <<>> /\ Len(<<>>) = 0 /\ flow[f].ambient = NoScope
                      /\ flow[f].pc \in {"run", "unborn"}
  BY EmptySeq DEF Init
<1>2. AllSecluded
  BY <1>1 DEF AllSecluded, Secluded, Inner, Expected
<1> QED
  BY <1>2 DEF Init, Opened, Tidy, OpenIsHeld, RootsAreOwn, DisposedByOwner, TrackedIsOpen

LEMMA NextSecluded ==
  ASSUME UsingBlocks, SuppressBeforeFork, IInv, BlocksNest, AllSecluded, Tidy, [Next]_vars
  PROVE  AllSecluded' /\ Tidy'
<1>1. ASSUME NEW f \in Flow, Call(f) PROVE AllSecluded' /\ Tidy'
  BY <1>1, OpenSecluded, CallsSecluded, SuppressSecluded, ForkSecluded DEF Call
<1>2. ASSUME NEW f \in Flow, Proceed(f) PROVE AllSecluded' /\ Tidy'
  <2>1. ~PopThrows(f)
    BY PopIsInOrder DEF PopThrows
  <2> QED
    BY <1>2, <2>1, CallsSecluded, PopSecluded, EndDisposeSecluded DEF Proceed
<1>3. ASSUME NEW f \in Flow, NEW i \in 1 .. MaxHeld, Close(f, i) PROVE AllSecluded' /\ Tidy'
  BY <1>3, BeginDisposeSecluded, UnsuppressSecluded DEF Close
<1>4. CASE UNCHANGED vars
  <2>1. AllSecluded'
    BY <1>4 DEF vars, AllSecluded
  <2>2. OpenIsHeld'
    BY <1>4 DEF vars, Tidy, OpenIsHeld, Opened, Holds
  <2> QED
    BY <1>4, <2>1, <2>2 DEF vars, Tidy, RootsAreOwn, DisposedByOwner, TrackedIsOpen, Opened
<1> QED
  BY <1>1, <1>2, <1>3, <1>4 DEF Next

LEMMA AlwaysSecluded ==
  UsingBlocks /\ SuppressBeforeFork
    => (Spec => [](IInv /\ BlocksNest /\ AllSecluded /\ Tidy))
<1> DEFINE Safe == UsingBlocks /\ SuppressBeforeFork /\ IInv /\ BlocksNest /\ AllSecluded /\ Tidy
<1>1. UsingBlocks /\ SuppressBeforeFork /\ Init => Safe
  BY InitKeeps, InitNests, InitSecluded
<1>2. Safe /\ [Next]_vars => Safe'
  <2> SUFFICES ASSUME Safe, [Next]_vars PROVE Safe'
    OBVIOUS
  <2>1. IInv' /\ BlocksNest'
    BY NextKeeps, NextNests
  <2>2. AllSecluded' /\ Tidy'
    BY NextSecluded
  <2> QED
    BY <2>1, <2>2
<1>3. Safe => IInv /\ BlocksNest /\ AllSecluded /\ Tidy
  OBVIOUS
<1> HIDE DEF Safe
<1> QED
  BY <1>1, <1>2, <1>3, PTL DEF Spec

(* The ambient scope of a flow is the innermost scope it has open, or none *)
(* inside a suppressor: nothing leaks in or out of a nested block.         *)
THEOREM AmbientFollowsTheBlocks ==
  UsingBlocks /\ SuppressBeforeFork => (Spec => []AmbientIsInnermost)
<1>1. IInv /\ BlocksNest /\ AllSecluded => AmbientIsInnermost
  <2> SUFFICES ASSUME IInv, BlocksNest, AllSecluded, NEW f \in Flow, Running(f)
               PROVE  LET n == Len(flow[f].held)
                      IN GetAmbientScope(f) =
                           IF n = 0 \/ SuppressesNow(f) THEN NoScope ELSE flow[f].held[n].scope
    BY DEF AmbientIsInnermost
  <2> DEFINE q == flow[f].held
             n == Len(q)
  <2>1. n \in Nat /\ (n > 0 => q[n].kind \in {"scope", "suppressor"})
    <3>1. q \in Seq(Handle) /\ n \in Nat
      BY HeldIs
    <3>2. n > 0 => n \in 1 .. n
      BY <3>1
    <3> HIDE DEF q
    <3> QED
      BY <3>1, <3>2, HeldLength
  <2>2. GetAmbientScope(f) = Expected(q, n)
    BY AmbientIsExpected DEF BlocksNest, AllSecluded, Running
  <2> QED
    BY <2>1, <2>2 DEF Expected, SuppressesNow
<1> QED
  BY <1>1, AlwaysSecluded, PTL

(* No DbContext is reachable from two flows: scopes that share contexts    *)
(* belong to one flow.                                                     *)
THEOREM ContextsAreNotShared ==
  UsingBlocks /\ SuppressBeforeFork => (Spec => []ContextsStayInTheirFlow)
<1>1. Tidy => ContextsStayInTheirFlow
  BY DEF Tidy, RootsAreOwn, ContextsStayInTheirFlow
<1> QED
  BY <1>1, AlwaysSecluded, PTL

(* While a scope is open nobody disposes of the contexts it works on: the  *)
(* scope that created them is held below it and must be closed later.      *)
THEOREM OpenScopesKeepTheirContexts ==
  UsingBlocks /\ SuppressBeforeFork => (Spec => []OpenScopeHasContexts)
<1>1. IInv /\ BlocksNest /\ AllSecluded /\ Tidy => OpenScopeHasContexts
  <2> SUFFICES ASSUME IInv, BlocksNest, AllSecluded, Tidy, NEW s \in Scope, Opened(s),
                      ~scope[s].disposed, flow[scope[s].owner].at # s,
                      collection[scope[s].collection].disposed
               PROVE  FALSE
    BY DEF OpenScopeHasContexts, CollectionOf
  <2> DEFINE f == scope[s].owner
             r == scope[s].collection
             q == flow[f].held
             n == Len(q)
  <2>1. f \in Flow /\ r \in Scope
    BY DEF IInv, TypeOK, ScopeFields, Opened
  <2>2. Holds(f, s) /\ q \in Seq(Handle) /\ n \in Nat /\ DOMAIN q = 1 .. n
    BY <2>1, HeldIs, HeldLength DEF Tidy, OpenIsHeld
  <2>3. PICK i \in 1 .. n : q[i] = ScopeHandle(s)
    BY <2>2 DEF Holds
  <2>4. Nests(flow[f], scope, instances) /\ Secluded(flow[f], scope)
    BY <2>1 DEF BlocksNest, AllSecluded
  <2>5. PICK j \in 1 .. i : q[j] = ScopeHandle(r)
    <3>1. q[i].kind = "scope" /\ q[i].scope = s
      BY <2>3 DEF ScopeHandle
    <3> QED
      BY <2>3, <2>4, <3>1 DEF Secluded
  <2>6. j \in 1 .. n /\ q[j].kind = "scope" /\ q[j].scope = r
    BY <2>2, <2>3, <2>5 DEF ScopeHandle
  <2>7. Opened(r) /\ scope[r].owner = f /\ ~scope[r].disposed
    <3>1. ~scope[r].disposed
      BY <2>4, <2>6 DEF Nests
    <3>2. Opened(r) /\ scope[r].owner = f
      BY <2>1, <2>6, HeldScopes
    <3> QED
      BY <3>1, <3>2
  <2>8. flow[f].pc \in {"pop", "mark"} /\ flow[f].at = r
    BY <2>1, <2>7 DEF Tidy, DisposedByOwner
  <2>9. n \in 1 .. n /\ q[n] = ScopeHandle(r)
    <3>1. q[n] = ScopeHandle(flow[f].at)
      BY <2>4, <2>8 DEF Nests
    <3> HIDE DEF n
    <3> QED
      BY <2>2, <2>6, <2>8, <3>1
  <2>10. j = n
    <3>1. q[n].kind = "scope" /\ q[n].scope = r
      BY <2>9 DEF ScopeHandle
    <3> QED
      BY <2>4, <2>6, <2>9, <3>1 DEF Nests
  <2>11. i = n
    BY <2>2, <2>3, <2>5, <2>10
  <2>12. s = r
    BY <2>3, <2>9, <2>11 DEF ScopeHandle
  <2> QED
    BY <2>8, <2>12
<1> QED
  BY <1>1, AlwaysSecluded, PTL

(* The table of ambient scopes holds no disposed scope: none is leaked,    *)
(* none comes back.                                                        *)
THEOREM TableHoldsOpenScopes ==
  UsingBlocks /\ SuppressBeforeFork => (Spec => []TrackedIsNotDisposed)
<1>1. Tidy => TrackedIsNotDisposed
  BY DEF Tidy, TrackedIsOpen, TrackedIsNotDisposed
<1> QED
  BY <1>1, AlwaysSecluded, PTL
================================================================================
