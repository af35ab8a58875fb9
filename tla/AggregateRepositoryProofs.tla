----------------------- MODULE AggregateRepositoryProofs -----------------------
(***************************************************************************)
(* Proofs about AggregateRepository, for any number of clients, changes,   *)
(* batches and any interval.  The first part, about what is loaded and     *)
(* stored, is about clients that pass the version they loaded and a store  *)
(* without a bus of its own.  The second, about what handlers hear, is     *)
(* about any clients, as long as only one of store and repository          *)
(* publishes.  The third, the refinement, has the conditions of the first. *)
(***************************************************************************)
EXTENDS AggregateRepositoryRefinement, SequenceTheorems, FiniteSetTheorems, WellFoundedInduction, TLAPS

(* A state in memory whose first v changes are stored in st, the others    *)
(* being made on what precedes them, when m changes were made, on sn.      *)
Built(state, v, st, sn, m) ==
  /\ v <= Len(state) /\ v <= Len(st)
  /\ \A x \in 1 .. Len(state) : state[x] <= m
  /\ \A i \in v + 1 .. Len(state) :
       /\ Len(sn[state[i]]) = i - 1
       /\ \A j \in 1 .. i - 1 : sn[state[i]][j] = state[j]
  /\ \A j \in 1 .. v : state[j] = st[j].change

Fits(a, st, sn, m) ==
  Len(a.state) = a.version + a.fresh /\ Built(a.state, a.version, st, sn, m)

(* A stored history. *)
Sound(st, sn, m) ==
  \A i \in 1 .. Len(st) :
    /\ st[i].version = i /\ st[i].change <= m
    /\ Len(sn[st[i].change]) = i - 1
    /\ \A j \in 1 .. i - 1 : sn[st[i].change][j] = st[j].change

(* What IInv says while no snapshot misleads. *)
Good ==
  /\ TypeOK
  /\ Sound(stream, seen, made)
  /\ snapshot.fresh = 0 /\ Fits(snapshot, stream, seen, made)
  /\ \A c \in Client : Fits(client[c].aggregate, stream, seen, made)

Checked == Expect /\ ~StorePublishes

-------------------------------------------------------------------------------
(* Sequences. *)

LEMMA Lens ==
  ASSUME NEW S, NEW s \in Seq(S)
  PROVE  Len(s) \in Nat /\ \A i \in 1 .. Len(s) : s[i] \in S
OBVIOUS

LEMMA Appended ==
  ASSUME NEW S, NEW s \in Seq(S), NEW e \in S
  PROVE  /\ Append(s, e) \in Seq(S) /\ Len(Append(s, e)) = Len(s) + 1 /\ Len(s) \in Nat
         /\ \A i \in 1 .. Len(s) : Append(s, e)[i] = s[i]
         /\ Append(s, e)[Len(s) + 1] = e
OBVIOUS

LEMMA Joined ==
  ASSUME NEW S, NEW s \in Seq(S), NEW t \in Seq(S)
  PROVE  /\ s \o t \in Seq(S) /\ Len(s \o t) = Len(s) + Len(t)
         /\ \A i \in 1 .. Len(s) : (s \o t)[i] = s[i]
         /\ \A i \in Len(s) + 1 .. Len(s) + Len(t) : (s \o t)[i] = t[i - Len(s)]
<1>1. Len(s) \in Nat /\ Len(t) \in Nat
  BY LenProperties
<1> QED
  BY <1>1, ConcatProperties

-------------------------------------------------------------------------------
(* Built is kept as the history grows, and as others make changes. *)

LEMMA BuiltStays ==
  ASSUME NEW state \in Seq(Change), NEW v \in Nat,
         NEW st \in Seq(Event), NEW st2 \in Seq(Event), NEW sn, NEW sn2,
         NEW m \in Nat, NEW m2 \in Nat,
         Built(state, v, st, sn, m),
         Len(st) <= Len(st2), \A i \in 1 .. Len(st) : st2[i] = st[i],
         m <= m2, \A x \in Change : x <= m => sn2[x] = sn[x]
  PROVE  Built(state, v, st2, sn2, m2)
<1>1. /\ Len(state) \in Nat /\ Len(st) \in Nat /\ Len(st2) \in Nat
      /\ \A x \in 1 .. Len(state) : state[x] \in Change
  BY Lens
<1>2. v <= Len(state) /\ v <= Len(st2)
  BY <1>1 DEF Built
<1>3. ASSUME NEW x \in 1 .. Len(state) PROVE state[x] <= m2 /\ sn2[state[x]] = sn[state[x]]
  <2>1. state[x] \in Change /\ state[x] <= m
    BY <1>1 DEF Built
  <2>2. state[x] \in Nat
    BY <2>1, RepositoryAssumption DEF Change
  <2> QED
    BY <2>1, <2>2
<1>4. ASSUME NEW i \in v + 1 .. Len(state)
      PROVE  Len(sn2[state[i]]) = i - 1 /\ \A j \in 1 .. i - 1 : sn2[state[i]][j] = state[j]
  <2>1. i \in 1 .. Len(state)
    BY <1>1
  <2>2. sn2[state[i]] = sn[state[i]]
    BY <2>1, <1>3
  <2>3. Len(sn[state[i]]) = i - 1 /\ \A j \in 1 .. i - 1 : sn[state[i]][j] = state[j]
    BY DEF Built
  <2> QED
    BY <2>2, <2>3
<1>5. ASSUME NEW j \in 1 .. v PROVE state[j] = st2[j].change
  <2>1. j \in 1 .. Len(st)
    BY <1>1 DEF Built
  <2> QED
    BY <2>1 DEF Built
<1> QED
  BY <1>2, <1>3, <1>4, <1>5 DEF Built

LEMMA FitsStays ==
  ASSUME NEW a \in Aggregate,
         NEW st \in Seq(Event), NEW st2 \in Seq(Event), NEW sn, NEW sn2,
         NEW m \in Nat, NEW m2 \in Nat,
         Fits(a, st, sn, m),
         Len(st) <= Len(st2), \A i \in 1 .. Len(st) : st2[i] = st[i],
         m <= m2, \A x \in Change : x <= m => sn2[x] = sn[x]
  PROVE  Fits(a, st2, sn2, m2)
<1>1. a.state \in Seq(Change) /\ a.version \in Nat
  BY DEF Aggregate
<1> QED
  BY <1>1, BuiltStays DEF Fits

LEMMA NewFits ==
  ASSUME NEW st \in Seq(Event), NEW sn, NEW m
  PROVE  NewAggregate \in Aggregate /\ Fits(NewAggregate, st, sn, m)
<1>1. Len(st) \in Nat /\ Len(<<>>) = 0 /\ <<>> \in Seq(Change)
  BY Lens, EmptySeq
<1> QED
  BY <1>1 DEF NewAggregate, Aggregate, Fits, Built

(* One more change, the newest of all, made on this very state. *)
LEMMA ChangeFits ==
  ASSUME NEW a \in Aggregate, NEW st \in Seq(Event), NEW sn \in [Change -> Seq(Change)],
         NEW m \in Nat, m < MaxMade, Fits(a, st, sn, m),
         NEW b, b = [a EXCEPT !.state = Append(@, m + 1), !.fresh = @ + 1]
  PROVE  b \in Aggregate /\ Fits(b, st, [sn EXCEPT ![m + 1] = a.state], m + 1)
<1> DEFINE sn2 == [sn EXCEPT ![m + 1] = a.state]
<1>1. /\ a.state \in Seq(Change) /\ a.version \in Nat /\ a.fresh \in Nat
      /\ m + 1 \in Change /\ MaxMade \in Nat
  BY RepositoryAssumption DEF Aggregate, Change
<1>2. /\ b = [version |-> a.version, state |-> Append(a.state, m + 1), fresh |-> a.fresh + 1]
      /\ b.state = Append(a.state, m + 1) /\ b.version = a.version /\ b.fresh = a.fresh + 1
  BY DEF Aggregate
<1>3. /\ Append(a.state, m + 1) \in Seq(Change) /\ Len(Append(a.state, m + 1)) = Len(a.state) + 1
      /\ Len(a.state) \in Nat
      /\ \A i \in 1 .. Len(a.state) : b.state[i] = a.state[i]
      /\ b.state[Len(a.state) + 1] = m + 1
  BY <1>1, <1>2, Appended
<1>4. b \in Aggregate
  <2>1. a.fresh + 1 \in Nat /\ Append(a.state, m + 1) \in Seq(Change)
    BY <1>1, <1>3
  <2> QED
    BY <1>1, <1>2, <2>1 DEF Aggregate
<1>5. Len(b.state) = b.version + b.fresh /\ Len(b.state) = Len(a.state) + 1
  BY <1>1, <1>2, <1>3 DEF Fits
<1>6. Built(a.state, a.version, st, sn, m)
  BY DEF Fits
<1>7. Built(a.state, a.version, st, sn2, m)
  <2>1. \A x \in Change : x <= m => sn2[x] = sn[x]
    BY <1>1 DEF Change
  <2> HIDE DEF sn2
  <2>2. Len(st) \in Nat /\ m <= m /\ Len(st) <= Len(st)
    BY Lens
  <2> QED
    BY <1>1, <1>6, <2>1, <2>2, BuiltStays
<1>8. sn2[m + 1] = a.state
  BY <1>1
<1> HIDE DEF sn2
<1>9. ASSUME NEW x \in 1 .. Len(b.state) PROVE b.state[x] <= m + 1
  <2>1. CASE x = Len(a.state) + 1
    BY <2>1, <1>3
  <2>2. CASE x \in 1 .. Len(a.state)
    <3>1. a.state[x] \in Change /\ a.state[x] <= m /\ b.state[x] = a.state[x]
      BY <2>2, <1>1, <1>3, <1>6, Lens DEF Built
    <3> QED
      BY <3>1 DEF Change
  <2> QED
    BY <2>1, <2>2, <1>3, <1>5
<1>10. ASSUME NEW i \in b.version + 1 .. Len(b.state)
       PROVE  Len(sn2[b.state[i]]) = i - 1 /\ \A j \in 1 .. i - 1 : sn2[b.state[i]][j] = b.state[j]
  <2>1. CASE i = Len(a.state) + 1
    <3>1. sn2[b.state[i]] = a.state /\ i - 1 = Len(a.state)
      BY <2>1, <1>3, <1>8
    <3> QED
      BY <3>1, <1>3
  <2>2. CASE i \in a.version + 1 .. Len(a.state)
    <3>1. i \in 1 .. Len(a.state) /\ b.state[i] = a.state[i]
      BY <2>2, <1>1, <1>3
    <3>2. \A j \in 1 .. i - 1 : b.state[j] = a.state[j]
      BY <3>1, <1>3
    <3>3. Len(sn2[a.state[i]]) = i - 1 /\ \A j \in 1 .. i - 1 : sn2[a.state[i]][j] = a.state[j]
      BY <2>2, <1>7 DEF Built
    <3> QED
      BY <3>1, <3>2, <3>3
  <2>3. i \in a.version + 1 .. Len(a.state) + 1
    BY <1>2, <1>5
  <2>4. i = Len(a.state) + 1 \/ i \in a.version + 1 .. Len(a.state)
    BY <2>3, <1>1, <1>3
  <2> QED
    BY <2>1, <2>2, <2>4
<1>11. b.version <= Len(b.state) /\ b.version <= Len(st)
  BY <1>1, <1>2, <1>3, <1>5, <1>6 DEF Built
<1>12. ASSUME NEW j \in 1 .. b.version PROVE b.state[j] = st[j].change
  <2>1. j \in 1 .. a.version /\ j \in 1 .. Len(a.state)
    BY <1>1, <1>2, <1>3, <1>6 DEF Built
  <2> QED
    BY <2>1, <1>3, <1>6 DEF Built
<1>13. Built(b.state, b.version, st, sn2, m + 1)
  BY <1>9, <1>10, <1>11, <1>12 DEF Built
<1> QED
  BY <1>4, <1>5, <1>13 DEF Fits, sn2

-------------------------------------------------------------------------------
(* Newer *)

(* What the store returns of a history without gaps: all behind v. *)
LEMMA NewerIsTheRest ==
  ASSUME stream \in Seq(Event), \A i \in 1 .. Len(stream) : stream[i].version = i,
         NEW v \in Nat, v <= Len(stream)
  PROVE  Newer(v) = [n \in 1 .. Len(stream) - v |-> stream[v + n]]
<1> DEFINE later == {i \in 1 .. Len(stream) : stream[i].version > v}
           Before(i) == {j \in later : j < i}
           Nth(n) == CHOOSE i \in later : Cardinality(Before(i)) = n - 1
<1>1. Len(stream) \in Nat
  BY Lens
<1>2. later = v + 1 .. Len(stream)
  BY <1>1
<1> HIDE DEF later
<1>3. Cardinality(later) = Len(stream) - v
  <2>1. v + 1 \in Int /\ Len(stream) \in Int
    BY <1>1
  <2>2. Cardinality(v + 1 .. Len(stream)) =
          IF v + 1 > Len(stream) THEN 0 ELSE Len(stream) - (v + 1) + 1
    BY <2>1, FS_Interval
  <2> QED
    BY <2>2, <1>1, <1>2
<1>4. ASSUME NEW i \in later PROVE Cardinality(Before(i)) = i - v - 1
  <2>1. Before(i) = v + 1 .. i - 1 /\ v + 1 \in Int /\ i - 1 \in Int /\ i \in Nat /\ i > v
    BY <1>1, <1>2
  <2> HIDE DEF Before
  <2>2. Cardinality(v + 1 .. i - 1) = IF v + 1 > i - 1 THEN 0 ELSE i - 1 - (v + 1) + 1
    BY <2>1, FS_Interval
  <2>3. (IF v + 1 > i - 1 THEN 0 ELSE i - 1 - (v + 1) + 1) = i - v - 1
    BY <2>1
  <2> QED
    BY <2>1, <2>2, <2>3
<1>5. ASSUME NEW n \in 1 .. Len(stream) - v PROVE Nth(n) = v + n
  <2>1. v + n \in later /\ v + n - v - 1 = n - 1
    BY <1>1, <1>2
  <2>2. Cardinality(Before(v + n)) = n - 1
    BY <2>1, <1>4
  <2>3. ASSUME NEW i \in later, Cardinality(Before(i)) = n - 1 PROVE i = v + n
    <3>1. i - v - 1 = n - 1 /\ i \in Nat
      BY <2>3, <1>1, <1>2, <1>4
    <3> QED
      BY <3>1
  <2> HIDE DEF Before
  <2> QED
    BY <2>1, <2>2, <2>3
<1>6. Newer(v) = [n \in 1 .. Cardinality(later) |-> stream[Nth(n)]]
  BY DEF Newer, later
<1> HIDE DEF Nth
<1> QED
  BY <1>3, <1>5, <1>6

LEMMA NewerLength ==
  ASSUME stream \in Seq(Event), \A i \in 1 .. Len(stream) : stream[i].version = i,
         NEW v \in Nat, v <= Len(stream)
  PROVE  /\ Newer(v) \in Seq(Event) /\ Len(Newer(v)) = Len(stream) - v
         /\ \A n \in 1 .. Len(stream) - v : Newer(v)[n] = stream[v + n]
<1>1. Len(stream) \in Nat /\ Len(stream) - v \in Nat
  BY Lens
<1>2. \A n \in 1 .. Len(stream) - v : stream[v + n] \in Event
  <2> TAKE n \in 1 .. Len(stream) - v
  <2>1. v + n \in 1 .. Len(stream)
    BY <1>1
  <2> QED
    BY <2>1, ElementOfSeq
<1>3. Newer(v) \in [1 .. Len(stream) - v -> Event]
  BY <1>2, NewerIsTheRest
<1>4. Newer(v) \in Seq(Event)
  BY <1>1, <1>3, SeqDef
<1>5. Len(Newer(v)) = Len(stream) - v
  BY <1>1, <1>3
<1> QED
  BY <1>4, <1>5, NewerIsTheRest

(* Without a newer event, the version is the last one. *)
LEMMA NoConflict ==
  ASSUME stream \in Seq(Event), \A i \in 1 .. Len(stream) : stream[i].version = i,
         NEW a \in Aggregate, a.version <= Len(stream), ~Conflict(a)
  PROVE  a.version = Len(stream)
<1>1. a.version \in Nat
  BY DEF Aggregate
<1>2. Newer(a.version) = <<>> /\ Len(<<>>) = 0
  BY EmptySeq DEF Conflict
<1>3. Len(Newer(a.version)) = Len(stream) - a.version
  BY <1>1, NewerLength
<1> QED
  BY <1>1, <1>2, <1>3, Lens

-------------------------------------------------------------------------------
(* Load and Save *)

LEMMA Continued ==
  ASSUME NEW a \in Aggregate, NEW v \in Nat, NEW x \in Seq(Change),
         NEW b, b = [a EXCEPT !.version = v, !.state = x]
  PROVE  b = [version |-> v, state |-> x, fresh |-> a.fresh]
BY DEF Aggregate

LEMMA Committed ==
  ASSUME NEW a \in Aggregate, NEW v \in Nat, NEW b, b = [a EXCEPT !.version = v, !.fresh = 0]
  PROVE  b = [version |-> v, state |-> a.state, fresh |-> 0]
BY DEF Aggregate

(* What follows a committed state in the history, replayed on it, is the   *)
(* whole history.                                                          *)
LEMMA ReplayFits ==
  ASSUME stream \in Seq(Event), NEW sn, NEW m \in Nat, Sound(stream, sn, m),
         NEW a \in Aggregate, a.fresh = 0, Fits(a, stream, sn, m)
  PROVE  /\ Replayed(a, Newer(a.version)) \in Aggregate
         /\ Fits(Replayed(a, Newer(a.version)), stream, sn, m)
<1> DEFINE events == Newer(a.version)
           r == Replayed(a, events)
<1>1. /\ a.state \in Seq(Change) /\ a.version \in Nat /\ Len(a.state) = a.version
      /\ a.version <= Len(stream) /\ Len(stream) \in Nat
  BY Lens DEF Aggregate, Fits, Built
<1>2. \A i \in 1 .. Len(stream) : stream[i].version = i
  BY DEF Sound
<1>3. /\ events \in Seq(Event) /\ Len(events) = Len(stream) - a.version
      /\ \A n \in 1 .. Len(stream) - a.version : events[n] = stream[a.version + n]
  BY <1>1, <1>2, NewerLength
<1> HIDE DEF events
<1>4. /\ ChangesOf(events) \in Seq(Change) /\ Len(ChangesOf(events)) = Len(stream) - a.version
      /\ \A n \in 1 .. Len(stream) - a.version : ChangesOf(events)[n] = stream[a.version + n].change
  <2>1. Len(events) \in Nat /\ \A i \in 1 .. Len(events) : events[i].change \in Change
    <3>1. Len(events) \in Nat /\ \A i \in 1 .. Len(events) : events[i] \in Event
      BY <1>3, Lens
    <3> QED
      BY <3>1 DEF Event
  <2>2. ChangesOf(events) \in [1 .. Len(events) -> Change]
    BY <2>1 DEF ChangesOf
  <2>3. ChangesOf(events) \in Seq(Change)
    BY <2>1, <2>2, SeqDef
  <2>4. Len(ChangesOf(events)) = Len(events)
    BY <2>1, <2>2
  <2>5. \A n \in 1 .. Len(events) : ChangesOf(events)[n] = events[n].change
    BY DEF ChangesOf
  <2>6. 1 .. Len(events) = 1 .. Len(stream) - a.version
    BY <1>3
  <2>7. Len(ChangesOf(events)) = Len(stream) - a.version
    BY <2>4, <1>3
  <2>8. \A n \in 1 .. Len(events) : ChangesOf(events)[n] = stream[a.version + n].change
    BY <2>5, <2>6, <1>3, Zenon
  <2> QED
    BY <2>3, <2>6, <2>7, <2>8, Zenon
<1>5. /\ a.state \o ChangesOf(events) \in Seq(Change)
      /\ Len(a.state \o ChangesOf(events)) = Len(stream)
      /\ \A i \in 1 .. a.version : (a.state \o ChangesOf(events))[i] = a.state[i]
      /\ \A i \in a.version + 1 .. Len(stream) :
           (a.state \o ChangesOf(events))[i] = ChangesOf(events)[i - a.version]
  <2>1. a.version + (Len(stream) - a.version) = Len(stream)
    BY <1>1
  <2> DEFINE t == ChangesOf(events)
  <2> HIDE DEF t
  <2>2. t \in Seq(Change) /\ Len(t) = Len(stream) - a.version
    BY <1>4 DEF t
  <2>3. /\ a.state \o t \in Seq(Change) /\ Len(a.state \o t) = Len(a.state) + Len(t)
        /\ \A i \in 1 .. Len(a.state) : (a.state \o t)[i] = a.state[i]
        /\ \A i \in Len(a.state) + 1 .. Len(a.state) + Len(t) : (a.state \o t)[i] = t[i - Len(a.state)]
    BY <2>2, <1>1, Joined
  <2>4. Len(a.state) + Len(t) = Len(stream) /\ Len(a.state) = a.version
    BY <2>1, <2>2, <1>1
  <2> QED
    BY <2>3, <2>4, Zenon DEF t
<1>6. r = [version |-> a.version + Len(events), state |-> a.state \o ChangesOf(events),
           fresh |-> a.fresh]
  <2>1. a.version + Len(events) \in Nat
    BY <1>1, <1>3
  <2>2. a.state \o ChangesOf(events) \in Seq(Change)
    BY <1>5
  <2> DEFINE v == a.version + Len(events)
             x == a.state \o ChangesOf(events)
  <2> HIDE DEF v, x
  <2>3. r = [a EXCEPT !.version = v, !.state = x]
    BY DEF Replayed, v, x
  <2>4. r = [version |-> v, state |-> x, fresh |-> a.fresh]
    <3> HIDE DEF r
    <3> QED
      BY <2>1, <2>2, <2>3, Continued DEF v, x
  <2> QED
    BY <2>4 DEF v, x
<1>7. r.version = Len(stream) /\ r.fresh = 0 /\ r.state = a.state \o ChangesOf(events)
  <2>1. a.version + Len(events) = Len(stream)
    BY <1>1, <1>3
  <2> DEFINE t == a.state \o ChangesOf(events)
  <2> HIDE DEF t
  <2>2. r = [version |-> a.version + Len(events), state |-> t, fresh |-> a.fresh]
    BY <1>6 DEF t
  <2> HIDE DEF r
  <2>3. r.version = a.version + Len(events) /\ r.fresh = a.fresh /\ r.state = t
    BY <2>2
  <2> QED
    BY <2>1, <2>3 DEF t
<1> HIDE DEF r
<1>8. \A j \in 1 .. Len(stream) : r.state[j] = stream[j].change
  <2> TAKE j \in 1 .. Len(stream)
  <2>1. CASE j \in 1 .. a.version
    <3>1. a.state[j] = stream[j].change
      BY <2>1 DEF Fits, Built
    <3> QED
      BY <2>1, <3>1, <1>5, <1>7
  <2>2. CASE j \in a.version + 1 .. Len(stream)
    <3>1. j - a.version \in 1 .. Len(stream) - a.version /\ a.version + (j - a.version) = j
      BY <2>2, <1>1
    <3> QED
      BY <2>2, <3>1, <1>4, <1>5, <1>7
  <2>3. j \in 1 .. a.version \/ j \in a.version + 1 .. Len(stream)
    BY <1>1
  <2> QED
    BY <2>1, <2>2, <2>3
<1>9. r \in Aggregate
  <2>1. Len(stream) \in Nat /\ 0 \in Nat
    BY <1>1
  <2>2. r = [version |-> Len(stream), state |-> a.state \o ChangesOf(events), fresh |-> 0]
    <3>1. a.version + Len(events) = Len(stream)
      BY <1>1, <1>3
    <3> QED
      BY <3>1, <1>6 DEF r
  <2> QED
    BY <2>1, <2>2, <1>5 DEF Aggregate
<1>10. Fits(r, stream, sn, m)
  <2>1. Len(r.state) = Len(stream) /\ Len(r.state) = r.version + r.fresh
    BY <1>1, <1>5, <1>7
  <2>2. \A x \in 1 .. Len(r.state) : r.state[x] <= m
    BY <2>1, <1>8 DEF Sound
  <2>3. r.version + 1 .. Len(r.state) = {}
    <3>1. Len(stream) + 1 .. Len(stream) = {}
      BY <1>1
    <3> QED
      BY <3>1, <2>1, <1>7, Zenon
  <2>4. r.version <= Len(r.state) /\ r.version <= Len(stream)
    <3>1. Len(stream) <= Len(stream)
      BY <1>1
    <3> QED
      BY <3>1, <2>1, <1>7, Zenon
  <2>5. \A j \in 1 .. r.version : r.state[j] = stream[j].change
    BY <1>7, <1>8
  <2>6. Built(r.state, r.version, stream, sn, m)
    BY <2>2, <2>3, <2>4, <2>5 DEF Built
  <2> QED
    BY <2>1, <2>6 DEF Fits
<1> QED
  BY <1>9, <1>10 DEF r, events

(* The uncommitted changes of an aggregate, as the flush numbers them. *)
LEMMA UncommittedIs ==
  ASSUME NEW a \in Aggregate, NEW st \in Seq(Event), NEW sn, NEW m, Fits(a, st, sn, m)
  PROVE  /\ Uncommitted(a) \in Seq(Event) /\ Len(Uncommitted(a)) = a.fresh
         /\ a.version \in Nat /\ a.fresh \in Nat
         /\ \A i \in 1 .. a.fresh :
              /\ Uncommitted(a)[i].version = a.version + i
              /\ Uncommitted(a)[i].change = a.state[a.version + i]
<1>1. /\ a.state \in Seq(Change) /\ a.version \in Nat /\ a.fresh \in Nat
      /\ Len(a.state) = a.version + a.fresh
  BY DEF Aggregate, Fits
<1>2. ASSUME NEW i \in 1 .. a.fresh
      PROVE  /\ Len(a.state) - a.fresh + i = a.version + i
             /\ a.version + i \in Nat /\ a.state[a.version + i] \in Change
  <2>1. a.version + i \in 1 .. Len(a.state) /\ Len(a.state) - a.fresh + i = a.version + i
    BY <1>1
  <2> QED
    BY <2>1, <1>1, ElementOfSeq
<1>3. Uncommitted(a) = [i \in 1 .. a.fresh |->
                          [version |-> a.version + i, change |-> a.state[a.version + i]]]
  BY <1>2 DEF Uncommitted
<1>4. \A i \in 1 .. a.fresh :
        [version |-> a.version + i, change |-> a.state[a.version + i]] \in Event
  BY <1>2 DEF Event
<1>5. Uncommitted(a) \in [1 .. a.fresh -> Event]
  BY <1>3, <1>4
<1>6. Uncommitted(a) \in Seq(Event)
  BY <1>1, <1>5, SeqDef
<1>7. Len(Uncommitted(a)) = a.fresh
  BY <1>1, <1>5
<1> QED
  BY <1>1, <1>3, <1>6, <1>7

(* Saved where nothing is newer, they continue the history. *)
LEMMA SavedFits ==
  ASSUME NEW a \in Aggregate, NEW st \in Seq(Event), NEW sn, NEW m \in Nat,
         Sound(st, sn, m), Fits(a, st, sn, m), a.version = Len(st)
  PROVE  /\ st \o Uncommitted(a) \in Seq(Event)
         /\ Len(st) <= Len(st \o Uncommitted(a))
         /\ \A i \in 1 .. Len(st) : (st \o Uncommitted(a))[i] = st[i]
         /\ Sound(st \o Uncommitted(a), sn, m)
         /\ Flushed(a) \in Aggregate
         /\ Fits(Flushed(a), st \o Uncommitted(a), sn, m)
<1> DEFINE u == Uncommitted(a)
           st2 == st \o Uncommitted(a)
           all == Len(a.state)
<1>1. /\ u \in Seq(Event) /\ Len(u) = a.fresh
      /\ a.version \in Nat /\ a.fresh \in Nat
      /\ \A i \in 1 .. a.fresh : u[i].version = a.version + i /\ u[i].change = a.state[a.version + i]
  BY UncommittedIs
<1>2. all = a.version + a.fresh /\ all \in Nat /\ Len(st) \in Nat /\ a.state \in Seq(Change)
  BY <1>1 DEF Fits, Aggregate
<1> HIDE DEF u, all
<1>3. /\ st2 \in Seq(Event) /\ Len(st2) = all
      /\ \A i \in 1 .. Len(st) : st2[i] = st[i]
      /\ \A i \in Len(st) + 1 .. all : st2[i] = u[i - Len(st)]
  <2>1. st2 = st \o u
    BY DEF u
  <2> HIDE DEF st2
  <2>2. /\ st2 \in Seq(Event) /\ Len(st2) = Len(st) + Len(u)
        /\ \A i \in 1 .. Len(st) : st2[i] = st[i]
        /\ \A i \in Len(st) + 1 .. Len(st) + Len(u) : st2[i] = u[i - Len(st)]
    <3>1. u \in Seq(Event)
      BY <1>1
    <3> QED
      BY <2>1, <3>1, Joined
  <2>3. Len(st) + Len(u) = all
    BY <1>1, <1>2
  <2> QED
    BY <2>2, <2>3, Zenon
<1> HIDE DEF st2
<1>4. \A i \in 1 .. all : st2[i].version = i /\ st2[i].change = a.state[i]
  <2> TAKE i \in 1 .. all
  <2>1. CASE i \in 1 .. Len(st)
    <3>1. st2[i] = st[i] /\ st[i].version = i
      BY <2>1, <1>3 DEF Sound
    <3>2. st[i].change = a.state[i]
      BY <2>1 DEF Fits, Built
    <3> QED
      BY <3>1, <3>2
  <2>2. CASE i \in Len(st) + 1 .. all
    <3>1. i - Len(st) \in 1 .. a.fresh /\ a.version + (i - Len(st)) = i
      BY <2>2, <1>1, <1>2
    <3>2. st2[i] = u[i - Len(st)]
      BY <2>2, <1>3
    <3> QED
      BY <3>1, <3>2, <1>1
  <2>3. i \in 1 .. Len(st) \/ i \in Len(st) + 1 .. all
    BY <1>2
  <2> QED
    BY <2>1, <2>2, <2>3
<1>5. \A i \in 1 .. all : a.state[i] <= m
  BY DEF Fits, Built, all
<1>6. \A i \in 1 .. all : /\ Len(sn[a.state[i]]) = i - 1
                         /\ \A j \in 1 .. i - 1 : sn[a.state[i]][j] = a.state[j]
  <2> TAKE i \in 1 .. all
  <2>1. CASE i \in 1 .. Len(st)
    <3>1. /\ st[i].change = a.state[i] /\ Len(sn[st[i].change]) = i - 1
          /\ \A j \in 1 .. i - 1 : sn[st[i].change][j] = st[j].change
      BY <2>1 DEF Sound, Fits, Built
    <3>2. \A j \in 1 .. i - 1 : st[j].change = a.state[j]
      <4> TAKE j \in 1 .. i - 1
      <4>1. j \in 1 .. a.version
        BY <2>1, <1>2
      <4> QED
        BY <4>1 DEF Fits, Built
    <3> QED
      BY <3>1, <3>2
  <2>2. CASE i \in a.version + 1 .. all
    BY <2>2 DEF Fits, Built, all
  <2>3. i \in 1 .. Len(st) \/ i \in a.version + 1 .. all
    BY <1>2
  <2> QED
    BY <2>1, <2>2, <2>3
<1>7. Sound(st2, sn, m)
  <2> SUFFICES ASSUME NEW i \in 1 .. all
               PROVE  /\ st2[i].version = i /\ st2[i].change <= m
                      /\ Len(sn[st2[i].change]) = i - 1
                      /\ \A j \in 1 .. i - 1 : sn[st2[i].change][j] = st2[j].change
    BY <1>3 DEF Sound
  <2>1. \A j \in 1 .. i - 1 : st2[j].change = a.state[j]
    BY <1>2, <1>4
  <2> QED
    BY <2>1, <1>4, <1>5, <1>6
<1>8. /\ Flushed(a) = [version |-> all, state |-> a.state, fresh |-> 0]
      /\ Flushed(a) \in Aggregate
  <2>1. Flushed(a) = [version |-> a.version + a.fresh, state |-> a.state, fresh |-> 0]
    <3>1. a.version + a.fresh \in Nat /\ Flushed(a) = [a EXCEPT !.version = a.version + a.fresh, !.fresh = 0]
      BY <1>1 DEF Flushed
    <3> QED
      BY <3>1, Committed
  <2> QED
    BY <2>1, <1>2 DEF Aggregate
<1>9. Fits(Flushed(a), st2, sn, m)
  <2>1. /\ Flushed(a).version = all /\ Flushed(a).state = a.state /\ Flushed(a).fresh = 0
        /\ all + 1 .. all = {} /\ all + 0 = all
    BY <1>2, <1>8
  <2>2. Built(a.state, all, st2, sn, m)
    BY <2>1, <1>2, <1>3, <1>4, <1>5 DEF Built, all
  <2> QED
    BY <2>1, <2>2 DEF Fits, all
<1>10. Len(st) <= Len(st2)
  BY <1>1, <1>2, <1>3
<1> QED
  BY <1>3, <1>7, <1>8, <1>9, <1>10 DEF st2

-------------------------------------------------------------------------------
(* The steps *)

LEMMA InitGood == Init => Good
<1> SUFFICES ASSUME Init PROVE Good
  OBVIOUS
<1>1. /\ <<>> \in Seq(Event) /\ Len(<<>>) = 0 /\ <<>> \in Seq(Change)
      /\ 0 \in 0 .. MaxMade
  BY EmptySeq, RepositoryAssumption
<1>2. NewAggregate \in Aggregate /\ Fits(NewAggregate, stream, seen, made)
  BY <1>1, NewFits DEF Init
<1>3. TypeOK
  BY <1>1, <1>2 DEF Init, TypeOK, Idle
<1>4. Sound(stream, seen, made)
  BY <1>1 DEF Init, Sound
<1>5. snapshot.fresh = 0 /\ Fits(snapshot, stream, seen, made)
  BY <1>2 DEF Init, NewAggregate
<1>6. \A c \in Client : Fits(client[c].aggregate, stream, seen, made)
  BY <1>2 DEF Init, Idle
<1> QED
  BY <1>3, <1>4, <1>5, <1>6 DEF Good

LEMMA Types ==
  ASSUME TypeOK
  PROVE  /\ stream \in Seq(Event) /\ snapshot \in Aggregate /\ made \in Nat
         /\ seen \in [Change -> Seq(Change)]
         /\ \A c \in Client : client[c].aggregate \in Aggregate
BY RepositoryAssumption DEF TypeOK

(* A step that only gives one client another aggregate, one that fits. *)
LEMMA ClientStep ==
  ASSUME Good, NEW c \in Client, NEW pc \in {"idle", "work", "saving"}, NEW a \in Aggregate,
         Fits(a, stream, seen, made),
         client' = [client EXCEPT ![c] = [pc |-> pc, aggregate |-> a]],
         UNCHANGED <<stream, snapshot, saves, made, seen, told, misled>>
  PROVE  Good'
<1>1. TypeOK'
  <2>1. [pc |-> pc, aggregate |-> a] \in [pc : {"idle", "work", "saving"}, aggregate : Aggregate]
    OBVIOUS
  <2>2. client' \in [Client -> [pc : {"idle", "work", "saving"}, aggregate : Aggregate]]
    BY <2>1 DEF Good, TypeOK
  <2> QED
    BY <2>2 DEF Good, TypeOK
<1>2. Sound(stream, seen, made)' /\ snapshot'.fresh = 0 /\ Fits(snapshot, stream, seen, made)'
  BY DEF Good
<1>3. ASSUME NEW d \in Client PROVE Fits(client[d].aggregate, stream, seen, made)'
  <2>1. client'[d] = IF d = c THEN [pc |-> pc, aggregate |-> a] ELSE client[d]
    BY DEF Good, TypeOK
  <2>2. Fits(client'[d].aggregate, stream, seen, made)
    BY <2>1 DEF Good
  <2> QED
    BY <2>2
<1> QED
  BY <1>1, <1>2, <1>3 DEF Good

LEMMA LoadStep ==
  ASSUME Good, NEW c \in Client, NEW start \in {NewAggregate, snapshot}, Load(c, start)
  PROVE  Good'
<1>1. /\ start \in Aggregate /\ start.fresh = 0 /\ Fits(start, stream, seen, made)
      /\ stream \in Seq(Event) /\ made \in Nat /\ Sound(stream, seen, made)
  <2>1. NewAggregate \in Aggregate /\ Fits(NewAggregate, stream, seen, made) /\ NewAggregate.fresh = 0
    BY NewFits, Types DEF Good, NewAggregate
  <2> QED
    BY <2>1, Types DEF Good
<1> DEFINE a == Replayed(start, Newer(start.version))
<1>2. a \in Aggregate /\ Fits(a, stream, seen, made)
  BY <1>1, ReplayFits
<1> HIDE DEF a
<1>3. /\ client' = [client EXCEPT ![c] = [pc |-> "work", aggregate |-> a]]
      /\ UNCHANGED <<stream, snapshot, saves, made, seen, told, misled>>
  BY DEF Load, a
<1> QED
  BY <1>2, <1>3, ClientStep

LEMMA MakeChangeStep ==
  ASSUME Good, NEW c \in Client, MakeChange(c)
  PROVE  Good'
<1> DEFINE a == client[c].aggregate
           b == [a EXCEPT !.state = Append(@, made + 1), !.fresh = @ + 1]
<1>1. /\ stream \in Seq(Event) /\ snapshot \in Aggregate /\ made \in Nat
      /\ seen \in [Change -> Seq(Change)] /\ a \in Aggregate /\ made < MaxMade
      /\ Fits(a, stream, seen, made) /\ MaxMade \in Nat
      /\ \A d \in Client : client[d].aggregate \in Aggregate
  BY Types, RepositoryAssumption DEF Good, MakeChange
<1>2. /\ made' = made + 1 /\ seen' = [seen EXCEPT ![made + 1] = a.state]
      /\ client' = [client EXCEPT ![c].aggregate = b] /\ client[c].pc = "work"
      /\ UNCHANGED <<stream, snapshot, saves, told, misled>>
  BY DEF MakeChange
<1>3. b \in Aggregate /\ Fits(b, stream, seen', made')
  <2> DEFINE k == b
  <2>1. k = [a EXCEPT !.state = Append(@, made + 1), !.fresh = @ + 1]
    OBVIOUS
  <2> HIDE DEF k, a
  <2>2. k \in Aggregate /\ Fits(k, stream, [seen EXCEPT ![made + 1] = a.state], made + 1)
    BY <1>1, <2>1, ChangeFits
  <2> QED
    BY <2>2, <1>2 DEF k
<1> HIDE DEF b
<1>4. /\ \A x \in Change : x <= made => seen'[x] = seen[x]
      /\ made <= made' /\ made' \in Nat /\ made' \in 0 .. MaxMade
      /\ Len(stream) <= Len(stream)
  BY <1>1, <1>2, Lens DEF Change
<1>5. seen' \in [Change -> Seq(Change)]
  BY <1>1, <1>2 DEF Aggregate
<1>6. client' = [client EXCEPT ![c] = [pc |-> "work", aggregate |-> b]]
  <2> DEFINE q == [client[c] EXCEPT !.aggregate = b]
  <2>1. client[c] \in [pc : {"idle", "work", "saving"}, aggregate : Aggregate]
    BY DEF Good, TypeOK
  <2>2. q = [pc |-> client[c].pc, aggregate |-> b]
    <3>1. q = [client[c] EXCEPT !.aggregate = b]
      OBVIOUS
    <3> HIDE DEF q
    <3> QED
      BY <2>1, <3>1, <1>3
  <2>3. client' = [client EXCEPT ![c] = q]
    BY <1>2
  <2> HIDE DEF q
  <2> QED
    BY <2>2, <2>3, <1>2
<1>7. TypeOK'
  <2>1. [pc |-> "work", aggregate |-> b] \in [pc : {"idle", "work", "saving"}, aggregate : Aggregate]
    BY <1>3
  <2>2. client' \in [Client -> [pc : {"idle", "work", "saving"}, aggregate : Aggregate]]
    BY <2>1, <1>6 DEF Good, TypeOK
  <2> QED
    BY <2>2, <1>2, <1>4, <1>5 DEF Good, TypeOK
<1>8. ASSUME NEW d \in Client PROVE Fits(client'[d].aggregate, stream, seen', made')
  <2>1. CASE d = c
    <3>1. client'[d].aggregate = b
      BY <2>1, <1>6 DEF Good, TypeOK
    <3> QED
      BY <3>1, <1>3
  <2>2. CASE d # c
    <3>1. client'[d] = client[d]
      BY <2>2, <1>6 DEF Good, TypeOK
    <3>2. Fits(client[d].aggregate, stream, seen, made) /\ client[d].aggregate \in Aggregate
      BY <1>1 DEF Good
    <3>3. Fits(client[d].aggregate, stream, seen', made')
      BY <1>1, <1>4, <3>2, FitsStays
    <3> QED
      BY <3>1, <3>3
  <2> QED
    BY <2>1, <2>2
<1>9. Fits(snapshot, stream, seen', made')
  <2>1. Fits(snapshot, stream, seen, made)
    BY DEF Good
  <2> QED
    BY <1>1, <1>4, <2>1, FitsStays
<1>10. Sound(stream, seen', made')
  <2> SUFFICES ASSUME NEW i \in 1 .. Len(stream)
               PROVE  /\ stream[i].version = i /\ stream[i].change <= made'
                      /\ Len(seen'[stream[i].change]) = i - 1
                      /\ \A j \in 1 .. i - 1 : seen'[stream[i].change][j] = stream[j].change
    BY DEF Sound
  <2>1. /\ stream[i].version = i /\ stream[i].change <= made
        /\ Len(seen[stream[i].change]) = i - 1
        /\ \A j \in 1 .. i - 1 : seen[stream[i].change][j] = stream[j].change
    BY DEF Good, Sound
  <2>2. stream[i] \in Event
    BY <1>1, Lens
  <2>3. stream[i].change \in Change
    BY <2>2 DEF Event
  <2>4. seen'[stream[i].change] = seen[stream[i].change]
    BY <1>4, <2>1, <2>3
  <2>5. stream[i].change <= made'
    BY <1>1, <1>4, <2>1, <2>3 DEF Change
  <2> QED
    BY <2>1, <2>4, <2>5
<1> QED
  BY <1>2, <1>7, <1>8, <1>9, <1>10 DEF Good

LEMMA CreateDiscardStep ==
  ASSUME Good, NEW c \in Client, Create(c) \/ Discard(c)
  PROVE  Good'
<1>1. NewAggregate \in Aggregate /\ Fits(NewAggregate, stream, seen, made)
  BY NewFits, Types DEF Good
<1>2. \E pc \in {"idle", "work"} :
        client' = [client EXCEPT ![c] = [pc |-> pc, aggregate |-> NewAggregate]]
  BY DEF Create, Discard, Idle
<1>3. UNCHANGED <<stream, snapshot, saves, made, seen, told, misled>>
  BY DEF Create, Discard
<1> QED
  BY <1>1, <1>2, <1>3, ClientStep

(* A refused Save changes nothing, unless it leaves a snapshot that misleads. *)
LEMMA SaveRefusedStep ==
  ASSUME Good, ~misled, NEW c \in Client, NEW withSnapshot \in BOOLEAN,
         SaveRefused(c, withSnapshot), ~misled'
  PROVE  Good'
<1>1. /\ UNCHANGED <<stream, saves, made, seen, told>>
      /\ snapshot' = snapshot
      /\ misled' = misled /\ misled \in BOOLEAN
  <2>1. misled' = (misled \/ (withSnapshot /\ ShouldMakeSnapshot(client[c].aggregate)))
    BY DEF SaveRefused
  <2>2. ~(withSnapshot /\ ShouldMakeSnapshot(client[c].aggregate))
    BY <2>1
  <2>3. misled' = misled /\ misled \in BOOLEAN
    BY <2>1, <2>2 DEF Good, TypeOK
  <2> QED
    BY <2>2, <2>3 DEF SaveRefused, TryMakeSnapshot
<1>2. CASE withSnapshot
  <2>1. client' = [client EXCEPT ![c] = [pc |-> "idle", aggregate |-> NewAggregate]]
    BY <1>2 DEF SaveRefused, Idle
  <2>2. NewAggregate \in Aggregate /\ Fits(NewAggregate, stream, seen, made)
    BY NewFits, Types DEF Good
  <2> QED
    BY <1>1, <2>1, <2>2, ClientStep
<1>3. CASE ~withSnapshot
  <2>1. client' = client
    BY <1>3 DEF SaveRefused
  <2> QED
    BY <1>1, <2>1 DEF Good, TypeOK
<1> QED
  BY <1>2, <1>3

LEMMA SaveStep ==
  ASSUME Checked, Good, NEW c \in Client, NEW withSnapshot \in BOOLEAN, Save(c, withSnapshot)
  PROVE  Good'
<1> DEFINE a == client[c].aggregate
           f == Flushed(a)
<1>1. /\ stream \in Seq(Event) /\ snapshot \in Aggregate /\ made \in Nat
      /\ Sound(stream, seen, made) /\ a \in Aggregate /\ Fits(a, stream, seen, made)
      /\ \A d \in Client : client[d].aggregate \in Aggregate
  BY Types DEF Good
<1>2. ~Conflict(a) /\ stream' = stream \o Uncommitted(a) /\ UNCHANGED <<made, seen, told, misled>>
  BY DEF Checked, Save
<1>3. a.version = Len(stream)
  <2>1. \A i \in 1 .. Len(stream) : stream[i].version = i
    BY <1>1 DEF Sound
  <2>2. a.version <= Len(stream)
    BY <1>1 DEF Fits, Built
  <2> HIDE DEF a
  <2> QED
    BY <1>1, <1>2, <2>1, <2>2, NoConflict
<1>4. /\ stream' \in Seq(Event) /\ Len(stream) <= Len(stream')
      /\ \A i \in 1 .. Len(stream) : stream'[i] = stream[i]
      /\ Sound(stream', seen, made)
      /\ f \in Aggregate /\ Fits(f, stream', seen, made)
  <2> HIDE DEF a
  <2> QED
    BY <1>1, <1>2, <1>3, SavedFits
<1>5. f.fresh = 0
  <2>1. f = [version |-> a.version + a.fresh, state |-> a.state, fresh |-> 0]
    <3> HIDE DEF a
    <3>1. a.version + a.fresh \in Nat /\ f = [a EXCEPT !.version = a.version + a.fresh, !.fresh = 0]
      BY <1>1 DEF Flushed, Aggregate
    <3> HIDE DEF f
    <3> QED
      BY <1>1, <3>1, Committed
  <2> HIDE DEF a, f
  <2> QED
    BY <2>1
<1>6. snapshot' = f \/ snapshot' = snapshot
  BY DEF Save, TryMakeSnapshot, SnapshotOf, Flushed
<1>7. client' = [client EXCEPT ![c] = [pc |-> "idle", aggregate |-> NewAggregate]]
      \/ client' = [client EXCEPT ![c] = [pc |-> "saving", aggregate |-> f]]
  BY DEF Save, Idle
<1>8. NewAggregate \in Aggregate /\ Fits(NewAggregate, stream', seen, made)
  BY <1>4, NewFits
<1>9. saves' \in SUBSET SaveCall
  <2>1. Uncommitted(a) \in Seq(Event)
    <3> HIDE DEF a
    <3> QED
      BY <1>1, UncommittedIs
  <2>2. [by |-> c, awaited |-> ~withSnapshot, events |-> Uncommitted(a), told |-> 0] \in SaveCall
    <3> HIDE DEF a
    <3> QED
      BY <2>1 DEF SaveCall
  <2>3. saves' = saves \cup
          {[by |-> c, awaited |-> ~withSnapshot, events |-> Uncommitted(a), told |-> 0]}
    BY DEF Save
  <2> QED
    BY <2>2, <2>3 DEF Good, TypeOK
<1> HIDE DEF f, a
<1>10. ASSUME NEW b \in Aggregate, Fits(b, stream, seen, made)
       PROVE  Fits(b, stream', seen, made)
  <2>1. made <= made /\ \A x \in Change : x <= made => seen[x] = seen[x]
    BY <1>1
  <2> QED
    BY <1>1, <1>4, <1>10, <2>1, FitsStays
<1>11. /\ snapshot' \in Aggregate /\ snapshot'.fresh = 0
       /\ Fits(snapshot', stream', seen, made)
  <2>1. Fits(snapshot, stream, seen, made) /\ snapshot.fresh = 0
    BY DEF Good
  <2> QED
    BY <2>1, <1>1, <1>4, <1>5, <1>6, <1>10
<1>12. \E pc \in {"idle", "saving"}, b \in Aggregate :
         /\ Fits(b, stream', seen, made)
         /\ client' = [client EXCEPT ![c] = [pc |-> pc, aggregate |-> b]]
  BY <1>4, <1>7, <1>8
<1>13. PICK pc \in {"idle", "saving"}, b \in Aggregate :
         /\ Fits(b, stream', seen, made)
         /\ client' = [client EXCEPT ![c] = [pc |-> pc, aggregate |-> b]]
  BY <1>12
<1>14. client' \in [Client -> [pc : {"idle", "work", "saving"}, aggregate : Aggregate]]
  <2>1. [pc |-> pc, aggregate |-> b] \in [pc : {"idle", "work", "saving"}, aggregate : Aggregate]
    OBVIOUS
  <2> QED
    BY <2>1, <1>13 DEF Good, TypeOK
<1>15. ASSUME NEW d \in Client PROVE Fits(client'[d].aggregate, stream', seen, made)
  <2>1. client'[d] = IF d = c THEN [pc |-> pc, aggregate |-> b] ELSE client[d]
    BY <1>13 DEF Good, TypeOK
  <2>2. Fits(client[d].aggregate, stream, seen, made)
    BY DEF Good
  <2>3. CASE d = c
    BY <2>1, <2>3, <1>13
  <2>4. CASE d # c
    <3>1. Fits(client[d].aggregate, stream', seen, made)
      BY <2>2, <1>1, <1>10
    <3> QED
      BY <2>1, <2>4, <3>1
  <2> QED
    BY <2>3, <2>4
<1>16. TypeOK'
  BY <1>2, <1>4, <1>9, <1>11, <1>14 DEF Good, TypeOK
<1>17. seen' = seen /\ made' = made
  BY <1>2
<1> QED
  BY <1>4, <1>11, <1>15, <1>16, <1>17 DEF Good

(* Waiting for handlers only lets a client wait or work. *)
LEMMA Resumed ==
  ASSUME Good, NEW s \in saves
  PROVE  /\ Resume(s) \in [Client -> [pc : {"idle", "work", "saving"}, aggregate : Aggregate]]
         /\ \A d \in Client : Resume(s)[d].aggregate = client[d].aggregate
<1>1. /\ client \in [Client -> [pc : {"idle", "work", "saving"}, aggregate : Aggregate]]
      /\ s.by \in Client
  BY DEF Good, TypeOK, SaveCall
<1>2. CASE s.awaited
  <2> DEFINE q == [client[s.by] EXCEPT !.pc = "work"]
  <2>1. q \in [pc : {"idle", "work", "saving"}, aggregate : Aggregate]
        /\ q.aggregate = client[s.by].aggregate
    BY <1>1
  <2>2. Resume(s) = [client EXCEPT ![s.by] = q]
    BY <1>2 DEF Resume
  <2> HIDE DEF q
  <2> QED
    BY <1>1, <2>1, <2>2
<1>3. CASE ~s.awaited
  BY <1>1, <1>3 DEF Resume
<1> QED
  BY <1>2, <1>3

LEMMA PublishStep ==
  ASSUME Checked, Good, NEW s \in saves, Publish(s) \/ PublishFails(s)
  PROVE  Good'
<1>1. UNCHANGED <<stream, snapshot, made, seen, misled>>
  BY DEF Checked, Publish, PublishFails
<1>2. client' = client \/ client' = Resume(s)
  BY DEF Publish, PublishFails
<1>3. /\ client' \in [Client -> [pc : {"idle", "work", "saving"}, aggregate : Aggregate]]
      /\ \A d \in Client : client'[d].aggregate = client[d].aggregate
  BY <1>2, Resumed DEF Good, TypeOK
<1>4. saves' \in SUBSET SaveCall
  <2>1. s \in SaveCall /\ saves \in SUBSET SaveCall
    BY DEF Good, TypeOK
  <2>2. [s EXCEPT !.told = s.told + 1] \in SaveCall
    BY <2>1 DEF SaveCall
  <2> QED
    BY <2>1, <2>2 DEF Publish, PublishFails
<1>5. told' \in [Change -> Nat]
  <2>1. told \in [Change -> Nat]
    BY DEF Good, TypeOK
  <2>2. told' = told \/ \E x : told' = [told EXCEPT ![x] = @ + 1]
    BY DEF Publish, PublishFails
  <2>3. ASSUME NEW x, told' = [told EXCEPT ![x] = @ + 1] PROVE told' \in [Change -> Nat]
    <3>1. CASE x \in Change
      <4>1. told[x] + 1 \in Nat
        BY <2>1, <3>1
      <4> DEFINE more == told[x] + 1
      <4> HIDE DEF more
      <4>2. told' = [told EXCEPT ![x] = more]
        BY <2>3 DEF more
      <4> QED
        BY <2>1, <4>1, <4>2 DEF more
    <3>2. CASE x \notin Change
      BY <2>1, <2>3, <3>2
    <3> QED
      BY <3>1, <3>2
  <2> QED
    BY <2>1, <2>2, <2>3
<1>6. TypeOK'
  BY <1>1, <1>3, <1>4, <1>5 DEF Good, TypeOK
<1> QED
  BY <1>1, <1>3, <1>6 DEF Good

LEMMA MisledForGood == [Next]_vars => (misled => misled')
<1> SUFFICES ASSUME [Next]_vars, misled PROVE misled'
  OBVIOUS
<1> QED
  BY DEF Next, vars, Create, Load, MakeChange, Discard, Save, SaveRefused, Publish, PublishFails

LEMMA GoodStep == Checked /\ Good /\ ~misled /\ [Next]_vars /\ ~misled' => Good'
<1> SUFFICES ASSUME Checked, Good, ~misled, [Next]_vars, ~misled' PROVE Good'
  OBVIOUS
<1>1. ASSUME NEW c \in Client, Create(c) \/ Discard(c) PROVE Good'
  BY <1>1, CreateDiscardStep
<1>2. ASSUME NEW c \in Client, MakeChange(c) PROVE Good'
  BY <1>2, MakeChangeStep
<1>3. ASSUME NEW c \in Client, NEW start \in {NewAggregate, snapshot}, Load(c, start) PROVE Good'
  BY <1>3, LoadStep
<1>4. ASSUME NEW c \in Client, NEW withSnapshot \in BOOLEAN, Save(c, withSnapshot) PROVE Good'
  BY <1>4, SaveStep
<1>5. ASSUME NEW c \in Client, NEW withSnapshot \in BOOLEAN, SaveRefused(c, withSnapshot)
      PROVE  Good'
  BY <1>5, SaveRefusedStep
<1>6. ASSUME NEW s \in saves, Publish(s) \/ PublishFails(s) PROVE Good'
  BY <1>6, PublishStep
<1>7. CASE UNCHANGED vars
  BY <1>7 DEF vars, Good, TypeOK
<1> QED
  BY <1>1, <1>2, <1>3, <1>4, <1>5, <1>6, <1>7 DEF Next

-------------------------------------------------------------------------------
(* What it amounts to. *)

LEMMA FitsFollows ==
  ASSUME TypeOK, NEW a \in Aggregate, Fits(a, stream, seen, made)
  PROVE  Follows(a)
<1> DEFINE t == SubSeq(a.state, 1, a.version)
<1>1. /\ a.state \in Seq(Change) /\ a.version \in Nat /\ Len(a.state) = a.version + a.fresh
      /\ a.version <= Len(a.state) /\ a.version <= Len(stream)
      /\ \A j \in 1 .. a.version : a.state[j] = stream[j].change
  BY DEF Aggregate, Fits, Built
<1>2. \A i \in 1 .. a.version : a.state[i] \in Change
  <2> TAKE i \in 1 .. a.version
  <2>1. i \in 1 .. Len(a.state)
    BY <1>1
  <2> QED
    BY <2>1, <1>1, ElementOfSeq
<1>3. /\ Len(t) = IF 1 <= a.version THEN a.version - 1 + 1 ELSE 0
      /\ \A i \in 1 .. a.version - 1 + 1 : t[i] = a.state[1 + i - 1]
  BY <1>1, <1>2, SubSeqProperties
<1> HIDE DEF t
<1>4. Len(t) = a.version
  BY <1>1, <1>3
<1>5. ASSUME NEW j \in 1 .. a.version PROVE t[j] = stream[j].change
  <2>1. j \in 1 .. a.version - 1 + 1 /\ 1 + j - 1 = j
    BY <1>1
  <2>2. t[j] = a.state[1 + j - 1]
    BY <2>1, <1>3
  <2> QED
    BY <2>1, <2>2, <1>1
<1>6. LeadTo(a.version, t)
  BY <1>1, <1>4, <1>5 DEF LeadTo
<1>7. /\ \A x \in 1 .. Len(a.state) : a.state[x] <= made
      /\ \A i \in a.version + 1 .. Len(a.state) :
           /\ Len(seen[a.state[i]]) = i - 1
           /\ \A j \in 1 .. i - 1 : seen[a.state[i]][j] = a.state[j]
  BY DEF Fits, Built
<1> QED
  BY <1>1, <1>6, <1>7 DEF Follows, t

LEMMA GoodImplies == Good => IInv
<1> SUFFICES ASSUME Good PROVE IInv
  OBVIOUS
<1>1. /\ TypeOK /\ stream \in Seq(Event) /\ Len(stream) \in Nat
      /\ DOMAIN stream = 1 .. Len(stream) /\ snapshot \in Aggregate
      /\ \A c \in Client : client[c].aggregate \in Aggregate
  BY Types, LenProperties DEF Good
<1>2. ClientsFollow
  BY <1>1, FitsFollows DEF Good, ClientsFollow
<1>3. StreamIsMade /\ HistoryIsContiguous
  BY <1>1 DEF Good, Sound, StreamIsMade, HistoryIsContiguous
<1>4. NoLostUpdate
  <2> SUFFICES ASSUME NEW i \in 1 .. Len(stream) PROVE LeadTo(i - 1, seen[stream[i].change])
    BY <1>1 DEF NoLostUpdate
  <2>1. i - 1 <= Len(stream)
    BY <1>1
  <2> QED
    BY <2>1 DEF Good, Sound, LeadTo
<1>5. SnapshotAgrees /\ SnapshotIsClean
  <2>1. /\ Len(snapshot.state) = snapshot.version + snapshot.fresh
        /\ snapshot.fresh = 0 /\ snapshot.version \in Nat
        /\ snapshot.version <= Len(stream)
        /\ \A j \in 1 .. snapshot.version : snapshot.state[j] = stream[j].change
    BY <1>1 DEF Good, Fits, Built, Aggregate
  <2>2. Len(snapshot.state) = snapshot.version
    BY <2>1
  <2> QED
    BY <2>1, <2>2 DEF SnapshotAgrees, SnapshotIsClean, LeadTo
<1> QED
  BY <1>1, <1>2, <1>3, <1>4, <1>5 DEF IInv

-------------------------------------------------------------------------------
(* With expected versions, until a refused Save leaves its snapshot behind: *)
(* the inductive invariant holds.                                          *)
THEOREM Invariance == Expect /\ ~StorePublishes => (Spec => [](misled \/ IInv))
<1> DEFINE Safe == Checked /\ (misled \/ Good)
<1>1. Expect /\ ~StorePublishes /\ Init => Safe
  BY InitGood DEF Checked
<1>2. Safe /\ [Next]_vars => Safe'
  <2> SUFFICES ASSUME Safe, [Next]_vars PROVE Safe'
    OBVIOUS
  <2>1. Checked'
    BY DEF Checked
  <2>2. misled' \/ Good'
    BY GoodStep, MisledForGood
  <2> QED
    BY <2>1, <2>2
<1>3. Safe => misled \/ IInv
  BY GoodImplies
<1> HIDE DEF Safe
<1> QED
  BY <1>1, <1>2, <1>3, PTL DEF Spec

(* The events of an aggregate keep the versions 1, 2, 3 ..., so that it can *)
(* always be loaded (AggregateRoot.LoadFromHistory throws otherwise).      *)
THEOREM LoadsForever == Expect /\ ~StorePublishes => (Spec => []HistoryIsContiguous)
<1>1. misled \/ IInv => HistoryIsContiguous
  BY DEF IInv, HistoryIsContiguous
<1> QED
  BY <1>1, Invariance, PTL

(* Nobody decides on a stale aggregate: every stored change was made on    *)
(* exactly the state that the changes stored before it lead to.            *)
THEOREM NothingLost == Expect /\ ~StorePublishes => (Spec => []NoLostUpdate)
<1>1. misled \/ IInv => NoLostUpdate
  BY DEF IInv, NoLostUpdate
<1> QED
  BY <1>1, Invariance, PTL

(* A snapshot is the state that the history up to its version leads to.    *)
THEOREM SnapshotIsHistory == Expect /\ ~StorePublishes => (Spec => []SnapshotAgrees)
<1>1. misled \/ IInv => SnapshotAgrees
  BY DEF IInv, SnapshotAgrees
<1> QED
  BY <1>1, Invariance, PTL

-------------------------------------------------------------------------------
(* Types, whatever clients, stores and handlers do. *)

LEMMA SmallestOf ==
  ASSUME NEW T, T \subseteq Nat, T # {}
  PROVE  \E x \in T : \A y \in T : x <= y
<1> DEFINE R == OpToRel(<, Nat)
<1>1. IsWellFoundedOn(R, Nat)
  BY NatLessThanWellFounded DEF OpToRel
<1>2. \A x, y \in Nat : y < x => <<y, x>> \in R
  BY DEF OpToRel
<1> HIDE DEF R
<1>3. PICK x \in T : \A y \in T : ~ (<<y, x>> \in R)
  BY <1>1, WFMin
<1>4. \A y \in T : ~(y < x)
  BY <1>2, <1>3
<1>5. x \in Nat /\ \A y \in T : y \in Nat
  OBVIOUS
<1> QED
  BY <1>4, <1>5

(* The n-th smallest of a finite set of numbers: Newer picks them so. *)
LEMMA NthSmallest ==
  ASSUME NEW T, T \subseteq Nat, IsFiniteSet(T), NEW n \in 1 .. Cardinality(T)
  PROVE  \E i \in T : Cardinality({j \in T : j < i}) = n - 1
<1> DEFINE Below(i) == {j \in T : j < i}
           Has(k) == \E i \in T : Cardinality(Below(i)) = k - 1
           Bad == {k \in 1 .. Cardinality(T) : ~Has(k)}
<1>1. Cardinality(T) \in Nat
  BY FS_CardinalityType
<1>2. SUFFICES ASSUME Bad # {} PROVE FALSE
  BY <1>2
<1>3. PICK k \in Bad : \A y \in Bad : k <= y
  <2>1. Bad \subseteq Nat
    BY <1>1
  <2> HIDE DEF Bad
  <2> QED
    BY <1>2, <2>1, SmallestOf
<1>4. k \in 1 .. Cardinality(T) /\ ~Has(k) /\ T # {}
  BY <1>3, <1>1, FS_EmptySet
<1>5. CASE k = 1
  <2>1. PICK i \in T : \A y \in T : i <= y
    BY <1>4, SmallestOf
  <2>2. Below(i) = {}
    <3>1. \A y \in T : i <= y /\ y \in Nat /\ i \in Nat
      BY <2>1
    <3>2. \A y \in T : ~(y < i)
      BY <3>1
    <3> QED
      BY <3>2
  <2>3. Cardinality(Below(i)) = k - 1
    BY <2>2, <1>5, FS_EmptySet
  <2> QED
    BY <2>3, <1>4
<1>6. CASE k # 1
  <2>1. k - 1 \in 1 .. Cardinality(T) /\ k - 1 \notin Bad
    <3>1. k - 1 \in 1 .. Cardinality(T) /\ ~(k <= k - 1)
      BY <1>1, <1>4, <1>6
    <3> HIDE DEF Bad
    <3> QED
      BY <3>1, <1>3
  <2>2. PICK i \in T : Cardinality(Below(i)) = k - 1 - 1
    BY <2>1
  <2> DEFINE U == Below(i) \cup {i}
  <2>3. IsFiniteSet(Below(i)) /\ i \notin Below(i)
    BY FS_Subset
  <2>4. Cardinality(U) = k - 1 /\ IsFiniteSet(U) /\ U \subseteq T
    <3>1. Cardinality(U) = Cardinality(Below(i)) + 1 /\ IsFiniteSet(U)
      BY <2>3, FS_AddElement
    <3> QED
      BY <3>1, <2>2, <1>1, <1>4
  <2>5. T \ U # {}
    <3>1. Cardinality(U) # Cardinality(T)
      BY <2>4, <1>1, <1>4
    <3> HIDE DEF U
    <3>2. T # U
      BY <3>1
    <3> QED
      BY <3>2, <2>4
  <2>6. PICK m \in T \ U : \A y \in T \ U : m <= y
    <3> HIDE DEF U
    <3> QED
      BY <2>5, SmallestOf
  <2>7. Below(m) = U
    <3>1. m \in Nat /\ i \in Nat /\ m > i /\ \A j \in T : j \in Nat
      BY <2>6
    <3>2. ASSUME NEW j \in T, j < m PROVE j \in U
      <4>1. ~(m <= j)
        BY <3>1, <3>2
      <4> HIDE DEF U
      <4> QED
        BY <4>1, <2>6
    <3>3. ASSUME NEW j \in U PROVE j \in T /\ j < m
      BY <3>1
    <3> QED
      BY <3>2, <3>3
  <2>8. Cardinality(Below(m)) = k - 1
    BY <2>4, <2>7
  <2> QED
    BY <2>6, <2>8, <1>4
<1> QED
  BY <1>5, <1>6

LEMMA NewerType ==
  ASSUME stream \in Seq(Event), NEW v
  PROVE  Newer(v) \in Seq(Event)
<1> DEFINE later == {i \in 1 .. Len(stream) : stream[i].version > v}
           Nth(n) == CHOOSE i \in later : Cardinality({j \in later : j < i}) = n - 1
<1>1. Len(stream) \in Nat
  BY Lens
<1>2. IsFiniteSet(later) /\ later \subseteq 1 .. Len(stream) /\ later \subseteq Nat
  <2>1. IsFiniteSet(1 .. Len(stream))
    BY <1>1, FS_Interval
  <2> QED
    BY <2>1, <1>1, FS_Subset
<1>3. Newer(v) = [n \in 1 .. Cardinality(later) |-> stream[Nth(n)]]
  BY DEF Newer
<1>4. Cardinality(later) \in Nat
  BY <1>2, FS_CardinalityType
<1> HIDE DEF later
<1>5. ASSUME NEW n \in 1 .. Cardinality(later) PROVE stream[Nth(n)] \in Event
  <2>1. \E i \in later : Cardinality({j \in later : j < i}) = n - 1
    BY <1>2, NthSmallest
  <2>2. Nth(n) \in later
    BY <2>1
  <2> HIDE DEF Nth
  <2> QED
    BY <2>2, <1>2, ElementOfSeq
<1> HIDE DEF Nth
<1>6. Newer(v) \in [1 .. Cardinality(later) -> Event]
  BY <1>3, <1>5
<1> QED
  BY <1>4, <1>6, SeqDef

LEMMA ReplayedType ==
  ASSUME NEW a \in Aggregate, NEW events \in Seq(Event)
  PROVE  Replayed(a, events) \in Aggregate /\ Replayed(a, events).fresh = a.fresh
<1>1. Len(events) \in Nat /\ \A i \in 1 .. Len(events) : events[i].change \in Change
  <2>1. Len(events) \in Nat /\ \A i \in 1 .. Len(events) : events[i] \in Event
    BY Lens
  <2> QED
    BY <2>1 DEF Event
<1>2. ChangesOf(events) \in Seq(Change)
  <2>1. ChangesOf(events) \in [1 .. Len(events) -> Change]
    BY <1>1 DEF ChangesOf
  <2> QED
    BY <2>1, <1>1, SeqDef
<1> DEFINE v == a.version + Len(events)
           x == a.state \o ChangesOf(events)
<1>3. v \in Nat /\ x \in Seq(Change) /\ a.fresh \in Nat
  <2>1. a.version \in Nat /\ a.state \in Seq(Change) /\ a.fresh \in Nat
    BY DEF Aggregate
  <2> QED
    BY <2>1, <1>1, <1>2, ConcatProperties
<1> HIDE DEF v, x
<1>4. Replayed(a, events) = [a EXCEPT !.version = v, !.state = x]
  BY DEF Replayed, v, x
<1>5. Replayed(a, events) = [version |-> v, state |-> x, fresh |-> a.fresh]
  <2> DEFINE r == Replayed(a, events)
  <2>1. r = [a EXCEPT !.version = v, !.state = x]
    BY <1>4
  <2> HIDE DEF r
  <2>2. r = [version |-> v, state |-> x, fresh |-> a.fresh]
    BY <2>1, <1>3, Continued
  <2> QED
    BY <2>2 DEF r
<1> QED
  BY <1>3, <1>5 DEF Aggregate

-------------------------------------------------------------------------------
(* What handlers hear: with one bus, each event goes to them once.         *)

OneBus == ~(StorePublishes /\ RepoPublishes)

(* The uncommitted changes of an aggregate, those a Save has yet to tell   *)
(* of, and those in the history.                                           *)
FreshPlaces(a) == Len(a.state) - a.fresh + 1 .. Len(a.state)
Fresh(a) == {a.state[i] : i \in FreshPlaces(a)}
Waiting(s) == {s.events[i].change : i \in s.told + 1 .. Len(s.events)}
Stored(st) == {st[i].change : i \in 1 .. Len(st)}

Distinct(a) ==
  /\ a.fresh <= Len(a.state)
  /\ \A i, j \in FreshPlaces(a) : a.state[i] = a.state[j] => i = j

Announces(s, st) ==
  /\ s.told < Len(s.events)
  /\ \A i, j \in 1 .. Len(s.events) : s.events[i].change = s.events[j].change => i = j
  /\ \A i \in 1 .. Len(s.events) :
       (StorePublishes => i <= s.told + 1) => s.events[i].change \in Stored(st)

Untold(X, m, t) == \A x \in X : x <= m /\ t[x] = 0

(* Every change nobody was told of is with one client, with one Save, or   *)
(* gone for good.                                                          *)
HeldOnce ==
  /\ \A c \in Client : Distinct(client[c].aggregate) /\ Untold(Fresh(client[c].aggregate), made, told)
  /\ \A c, d \in Client :
       c # d => Fresh(client[c].aggregate) \cap Fresh(client[d].aggregate) = {}
  /\ \A s \in saves : Announces(s, stream) /\ Untold(Waiting(s), made, told)
  /\ \A s, t \in saves : s # t => Waiting(s) \cap Waiting(t) = {}
  /\ \A s \in saves, c \in Client : Waiting(s) \cap Fresh(client[c].aggregate) = {}

Heard ==
  /\ TypeOK /\ snapshot.fresh = 0
  /\ \A x \in Stored(stream) : x <= made
  /\ \A x \in Change : told[x] > 0 => told[x] = 1 /\ x \in Stored(stream)
  /\ HeldOnce

LEMMA ScriptIs ==
  ASSUME OneBus, NEW s \in SaveCall
  PROVE  Script(s) = s.events
<1>1. s.events \in Seq(Event)
  BY DEF SaveCall
<1>2. (StorePublishes /\ ~RepoPublishes) \/ (~StorePublishes /\ RepoPublishes)
  BY RepositoryAssumption DEF OneBus
<1> QED
  BY <1>1, <1>2, ConcatEmptySeq DEF Script

LEMMA NothingFresh ==
  ASSUME NEW a \in Aggregate, a.fresh = 0
  PROVE  Fresh(a) = {} /\ Distinct(a)
<1>1. Len(a.state) \in Nat
  BY Lens DEF Aggregate
<1>2. FreshPlaces(a) = {}
  BY <1>1 DEF FreshPlaces
<1> QED
  BY <1>1, <1>2 DEF Fresh, Distinct

LEMMA NewIsClean == NewAggregate \in Aggregate /\ NewAggregate.fresh = 0
<1>1. <<>> \in Seq(Change)
  BY EmptySeq
<1> QED
  BY <1>1 DEF NewAggregate, Aggregate

(* The change in a place of the tail is a change. *)
LEMMA FreshIsChange ==
  ASSUME NEW a \in Aggregate, a.fresh <= Len(a.state)
  PROVE  Fresh(a) \subseteq Change
<1>1. a.state \in Seq(Change) /\ Len(a.state) \in Nat /\ a.fresh \in Nat
  BY Lens DEF Aggregate
<1>2. ASSUME NEW i \in FreshPlaces(a) PROVE a.state[i] \in Change
  <2>1. i \in 1 .. Len(a.state)
    BY <1>1 DEF FreshPlaces
  <2> QED
    BY <2>1, <1>1, ElementOfSeq
<1> QED
  BY <1>2 DEF Fresh

LEMMA InitHeard == Init => Heard
<1> SUFFICES ASSUME Init PROVE Heard
  OBVIOUS
<1>1. TypeOK /\ snapshot.fresh = 0
  BY InitGood DEF Good
<1>2. Stored(stream) = {}
  BY EmptySeq DEF Stored, Init
<1>3. \A c \in Client : /\ Distinct(client[c].aggregate)
                        /\ Fresh(client[c].aggregate) = {}
  BY NothingFresh, NewIsClean DEF Init, Idle
<1>4. \A x \in Change : told[x] = 0
  BY DEF Init
<1>5. HeldOnce
  BY <1>3 DEF HeldOnce, Untold, Init
<1> QED
  BY <1>1, <1>2, <1>4, <1>5 DEF Heard

LEMMA HeardTypes ==
  ASSUME Heard
  PROVE  /\ stream \in Seq(Event) /\ snapshot \in Aggregate /\ made \in 0 .. MaxMade /\ made \in Nat
         /\ MaxMade \in Nat
         /\ seen \in [Change -> Seq(Change)] /\ told \in [Change -> Nat] /\ misled \in BOOLEAN
         /\ saves \in SUBSET SaveCall
         /\ client \in [Client -> [pc : {"idle", "work", "saving"}, aggregate : Aggregate]]
         /\ \A c \in Client : client[c].aggregate \in Aggregate
BY Types, RepositoryAssumption DEF Heard, TypeOK

-------------------------------------------------------------------------------
(* A client gets another aggregate, without uncommitted changes, or keeps  *)
(* its own.                                                                *)
LEMMA ClientHeard ==
  ASSUME Heard, NEW c \in Client, NEW pc \in {"idle", "work", "saving"},
         NEW a \in Aggregate, a.fresh = 0,
         client' = [client EXCEPT ![c] = [pc |-> pc, aggregate |-> a]] \/ client' = client,
         snapshot' \in Aggregate, snapshot'.fresh = 0, misled' \in BOOLEAN,
         UNCHANGED <<stream, saves, made, seen, told>>
  PROVE  Heard'
<1>1. client' \in [Client -> [pc : {"idle", "work", "saving"}, aggregate : Aggregate]]
  <2>1. [pc |-> pc, aggregate |-> a] \in [pc : {"idle", "work", "saving"}, aggregate : Aggregate]
    OBVIOUS
  <2> QED
    BY <2>1, HeardTypes
<1>2. TypeOK'
  BY <1>1 DEF Heard, TypeOK
<1>3. ASSUME NEW d \in Client
      PROVE  \/ client'[d].aggregate = client[d].aggregate
             \/ Fresh(client'[d].aggregate) = {} /\ Distinct(client'[d].aggregate)
  <2>1. client'[d] = client[d] \/ client'[d].aggregate = a
    BY HeardTypes
  <2> QED
    BY <2>1, NothingFresh
<1>4. \A s \in saves : Announces(s, stream') <=> Announces(s, stream)
  OBVIOUS
<1>6. HeldOnce'
  <2>1. HeldOnce
    BY DEF Heard
  <2>2. \A d \in Client : Distinct(client'[d].aggregate) /\ Fresh(client'[d].aggregate) \subseteq Fresh(client[d].aggregate)
    BY <1>3, <2>1 DEF HeldOnce
  <2>3. \A d \in Client : Untold(Fresh(client'[d].aggregate), made, told)
    BY <2>1, <2>2 DEF HeldOnce, Untold
  <2>4. \A b, d \in Client : b # d => Fresh(client'[b].aggregate) \cap Fresh(client'[d].aggregate) = {}
    <3> SUFFICES ASSUME NEW b \in Client, NEW d \in Client, b # d
                 PROVE  Fresh(client'[b].aggregate) \cap Fresh(client'[d].aggregate) = {}
      OBVIOUS
    <3>1. Fresh(client[b].aggregate) \cap Fresh(client[d].aggregate) = {}
      BY <2>1 DEF HeldOnce
    <3> QED
      BY <3>1, <2>2
  <2>5. \A s \in saves, d \in Client : Waiting(s) \cap Fresh(client'[d].aggregate) = {}
    <3> SUFFICES ASSUME NEW s \in saves, NEW d \in Client
                 PROVE  Waiting(s) \cap Fresh(client'[d].aggregate) = {}
      OBVIOUS
    <3>1. Waiting(s) \cap Fresh(client[d].aggregate) = {}
      BY <2>1 DEF HeldOnce
    <3> QED
      BY <3>1, <2>2
  <2>6. saves' = saves /\ stream' = stream /\ made' = made /\ told' = told
    OBVIOUS
  <2>7. /\ \A d \in Client : Distinct(client'[d].aggregate) /\ Untold(Fresh(client'[d].aggregate), made, told)
        /\ \A s \in saves : Announces(s, stream) /\ Untold(Waiting(s), made, told)
    BY <2>1, <2>2, <2>3 DEF HeldOnce, Untold
  <2> QED
    BY <2>1, <2>4, <2>5, <2>6, <2>7 DEF HeldOnce
<1> QED
  BY <1>2, <1>6 DEF Heard

LEMMA LoadHeard ==
  ASSUME Heard, NEW c \in Client, NEW start \in {NewAggregate, snapshot}, Load(c, start)
  PROVE  Heard'
<1> DEFINE a == Replayed(start, Newer(start.version))
<1>1. start \in Aggregate /\ start.fresh = 0
  BY HeardTypes, NewIsClean DEF Heard
<1>2. a \in Aggregate /\ a.fresh = 0
  BY <1>1, HeardTypes, NewerType, ReplayedType
<1>3. /\ client' = [client EXCEPT ![c] = [pc |-> "work", aggregate |-> a]]
      /\ UNCHANGED <<stream, snapshot, saves, made, seen, told, misled>>
  BY DEF Load
<1> HIDE DEF a
<1>4. snapshot' \in Aggregate /\ snapshot'.fresh = 0 /\ misled' \in BOOLEAN
  BY <1>3, HeardTypes DEF Heard
<1> QED
  BY <1>2, <1>3, <1>4, ClientHeard

LEMMA CreateDiscardHeard ==
  ASSUME Heard, NEW c \in Client, Create(c) \/ Discard(c)
  PROVE  Heard'
<1>1. PICK pc \in {"idle", "work"} :
        client' = [client EXCEPT ![c] = [pc |-> pc, aggregate |-> NewAggregate]]
  BY DEF Create, Discard, Idle
<1>2. UNCHANGED <<stream, snapshot, saves, made, seen, told, misled>>
  BY DEF Create, Discard
<1>3. snapshot' \in Aggregate /\ snapshot'.fresh = 0 /\ misled' \in BOOLEAN
  <2>1. snapshot' = snapshot /\ misled' = misled
    BY <1>2
  <2> QED
    BY <2>1, HeardTypes DEF Heard
<1> QED
  BY <1>1, <1>2, <1>3, NewIsClean, ClientHeard

(* A snapshot, whether it misleads or not, has no uncommitted changes. *)
LEMMA SnapshotType ==
  ASSUME Heard, NEW a \in Aggregate, NEW withSnapshot, TryMakeSnapshot(a, withSnapshot)
  PROVE  snapshot' \in Aggregate /\ snapshot'.fresh = 0
<1>1. a.version + a.fresh \in Nat /\ a.state \in Seq(Change)
  BY DEF Aggregate
<1>2. SnapshotOf(a) = [version |-> a.version + a.fresh, state |-> a.state, fresh |-> 0]
  <2> DEFINE v == a.version + a.fresh
             s == SnapshotOf(a)
  <2>1. s = [a EXCEPT !.version = v, !.fresh = 0]
    BY DEF SnapshotOf
  <2>2. v \in Nat
    BY <1>1
  <2> HIDE DEF v, s
  <2>3. s = [version |-> v, state |-> a.state, fresh |-> 0]
    BY <2>1, <2>2, Committed
  <2> QED
    BY <2>3 DEF v, s
<1>3. SnapshotOf(a) \in Aggregate /\ SnapshotOf(a).fresh = 0
  BY <1>1, <1>2 DEF Aggregate
<1>4. snapshot' = SnapshotOf(a) \/ snapshot' = snapshot
  BY DEF TryMakeSnapshot
<1> QED
  BY <1>3, <1>4, HeardTypes DEF Heard

LEMMA SaveRefusedHeard ==
  ASSUME Heard, NEW c \in Client, NEW withSnapshot \in BOOLEAN, SaveRefused(c, withSnapshot)
  PROVE  Heard'
<1> DEFINE a == client[c].aggregate
<1>1. UNCHANGED <<stream, saves, made, seen, told>> /\ TryMakeSnapshot(a, withSnapshot)
  BY DEF SaveRefused
<1>2. snapshot' \in Aggregate /\ snapshot'.fresh = 0
  BY <1>1, HeardTypes, SnapshotType
<1>3. misled' \in BOOLEAN
  BY HeardTypes DEF SaveRefused
<1>4. \/ client' = [client EXCEPT ![c] = [pc |-> "idle", aggregate |-> NewAggregate]]
      \/ client' = client
  BY DEF SaveRefused, Idle
<1> QED
  BY <1>1, <1>2, <1>3, <1>4, NewIsClean, ClientHeard

-------------------------------------------------------------------------------
LEMMA WaitingIsChange ==
  ASSUME NEW s \in SaveCall
  PROVE  Waiting(s) \subseteq Change /\ \A i \in 1 .. Len(s.events) : s.events[i].change \in Change
<1>1. s.events \in Seq(Event) /\ s.told \in Nat
  BY DEF SaveCall
<1>2. Len(s.events) \in Nat /\ \A i \in 1 .. Len(s.events) : s.events[i] \in Event
  BY <1>1, Lens
<1>3. \A i \in 1 .. Len(s.events) : s.events[i].change \in Change
  BY <1>2 DEF Event
<1>4. \A i \in s.told + 1 .. Len(s.events) : i \in 1 .. Len(s.events)
  BY <1>1, <1>2
<1> QED
  BY <1>3, <1>4 DEF Waiting

LEMMA StoredIsChange ==
  ASSUME NEW st \in Seq(Event)
  PROVE  Stored(st) \subseteq Change
<1>1. \A i \in 1 .. Len(st) : st[i] \in Event
  BY Lens
<1> QED
  BY <1>1 DEF Stored, Event

LEMMA Grown ==
  ASSUME NEW a \in Aggregate, NEW m \in Nat, m + 1 \in Change, Distinct(a),
         \A x \in Fresh(a) : x <= m,
         NEW b, b = [a EXCEPT !.state = Append(@, m + 1), !.fresh = @ + 1]
  PROVE  b \in Aggregate /\ Distinct(b) /\ Fresh(b) = Fresh(a) \cup {m + 1}
<1> DEFINE n == Len(a.state)
<1>1. a.state \in Seq(Change) /\ a.version \in Nat /\ a.fresh \in Nat /\ n \in Nat /\ a.fresh <= n
  BY Lens DEF Aggregate, Distinct
<1>2. /\ b = [version |-> a.version, state |-> Append(a.state, m + 1), fresh |-> a.fresh + 1]
      /\ b.state = Append(a.state, m + 1) /\ b.fresh = a.fresh + 1
  BY DEF Aggregate
<1>3. /\ Append(a.state, m + 1) \in Seq(Change) /\ Len(b.state) = n + 1
      /\ \A i \in 1 .. n : b.state[i] = a.state[i]
      /\ b.state[n + 1] = m + 1
  BY <1>1, <1>2, Appended
<1>4. b \in Aggregate
  <2>1. a.fresh + 1 \in Nat
    BY <1>1
  <2> QED
    BY <1>1, <1>2, <1>3, <2>1 DEF Aggregate
<1>5. FreshPlaces(b) = FreshPlaces(a) \cup {n + 1}
  <2>1. FreshPlaces(b) = Len(b.state) - b.fresh + 1 .. Len(b.state)
    BY DEF FreshPlaces
  <2>2. Len(b.state) - b.fresh + 1 = n - a.fresh + 1 /\ Len(b.state) = n + 1
    BY <1>1, <1>2, <1>3
  <2>3. n - a.fresh + 1 .. n + 1 = (n - a.fresh + 1 .. n) \cup {n + 1}
    BY <1>1
  <2> QED
    BY <2>1, <2>2, <2>3 DEF FreshPlaces
<1>6. \A i \in FreshPlaces(a) : b.state[i] = a.state[i] /\ i \in 1 .. n /\ a.state[i] \in Fresh(a)
  <2>1. \A i \in FreshPlaces(a) : i \in 1 .. n
    BY <1>1 DEF FreshPlaces
  <2> QED
    BY <2>1, <1>3 DEF Fresh
<1>7. Fresh(b) = Fresh(a) \cup {m + 1}
  BY <1>3, <1>5, <1>6 DEF Fresh
<1>8. ASSUME NEW i \in FreshPlaces(b), NEW j \in FreshPlaces(b), b.state[i] = b.state[j]
      PROVE  i = j
  <2>1. \A x \in Fresh(a) : x # m + 1
    <3>1. \A x \in Fresh(a) : x <= m /\ x \in Nat
      BY <1>1, FreshIsChange DEF Distinct, Change
    <3> QED
      BY <3>1
  <2>2. CASE i = n + 1 /\ j = n + 1
    BY <2>2
  <2>3. CASE i \in FreshPlaces(a) /\ j \in FreshPlaces(a)
    BY <2>3, <1>6, <1>8 DEF Distinct
  <2>4. ASSUME NEW k \in FreshPlaces(a) PROVE b.state[k] # b.state[n + 1]
    BY <2>1, <1>3, <1>6
  <2> QED
    BY <2>2, <2>3, <2>4, <1>5, <1>8
<1>9. b.fresh <= Len(b.state)
  BY <1>1, <1>2, <1>3
<1> QED
  BY <1>4, <1>7, <1>8, <1>9 DEF Distinct

LEMMA MakeChangeHeard ==
  ASSUME Heard, NEW c \in Client, MakeChange(c)
  PROVE  Heard'
<1> DEFINE a == client[c].aggregate
           b == [a EXCEPT !.state = Append(@, made + 1), !.fresh = @ + 1]
<1>0. HeldOnce /\ \A x \in Stored(stream) : x <= made
  BY DEF Heard
<1>1. /\ made' = made + 1 /\ seen' = [seen EXCEPT ![made + 1] = a.state] /\ made < MaxMade
      /\ client' = [client EXCEPT ![c].aggregate = b] /\ client[c].pc = "work"
      /\ UNCHANGED <<stream, snapshot, saves, told, misled>>
  BY DEF MakeChange
<1>2. made + 1 \in Change /\ made' \in 0 .. MaxMade /\ made \in Nat /\ a \in Aggregate
  BY <1>1, HeardTypes DEF Change
<1>3. b \in Aggregate /\ Distinct(b) /\ Fresh(b) = Fresh(a) \cup {made + 1}
  <2>1. Distinct(a) /\ \A x \in Fresh(a) : x <= made
    BY <1>0 DEF HeldOnce, Untold
  <2> DEFINE k == b
  <2>2. k = [a EXCEPT !.state = Append(@, made + 1), !.fresh = @ + 1]
    OBVIOUS
  <2> HIDE DEF a, k
  <2>3. k \in Aggregate /\ Distinct(k) /\ Fresh(k) = Fresh(a) \cup {made + 1}
    BY <2>1, <2>2, <1>2, Grown
  <2> QED
    BY <2>3 DEF k
<1> HIDE DEF b
<1>4. TypeOK'
  <2>1. seen' \in [Change -> Seq(Change)]
    <3>1. a.state \in Seq(Change)
      BY <1>2 DEF Aggregate
    <3> QED
      BY <3>1, <1>1, <1>2, HeardTypes
  <2>2. client' \in [Client -> [pc : {"idle", "work", "saving"}, aggregate : Aggregate]]
    <3> DEFINE q == [client[c] EXCEPT !.aggregate = b]
    <3>1. q \in [pc : {"idle", "work", "saving"}, aggregate : Aggregate]
      BY <1>3, HeardTypes
    <3>2. client' = [client EXCEPT ![c] = q]
      BY <1>1
    <3> HIDE DEF q
    <3> QED
      BY <3>1, <3>2, HeardTypes
  <2> QED
    BY <2>1, <2>2, <1>1, <1>2 DEF Heard, TypeOK
<1>5. ASSUME NEW d \in Client
      PROVE  client'[d].aggregate = IF d = c THEN b ELSE client[d].aggregate
  BY <1>1, HeardTypes
<1>6. told[made + 1] = 0
  <2>1. made + 1 \notin Stored(stream)
    BY <1>0, <1>2
  <2>2. told[made + 1] \in Nat
    BY <1>2, HeardTypes
  <2> QED
    BY <2>1, <2>2, <1>2 DEF Heard
<1>7. ASSUME NEW X, X \subseteq Change, Untold(X, made, told)
      PROVE  made + 1 \notin X /\ Untold(X, made', told') /\ Untold(X \cup {made + 1}, made', told')
  <2>1. \A x \in X : x \in Nat /\ x <= made /\ told[x] = 0
    BY <1>7 DEF Untold, Change
  <2>2. made + 1 \notin X /\ \A x \in X : x <= made + 1
    BY <2>1, <1>2
  <2>3. made + 1 <= made + 1
    BY <1>2
  <2> QED
    BY <2>1, <2>2, <2>3, <1>1, <1>6 DEF Untold
<1>8. ASSUME NEW d \in Client
      PROVE  Fresh(client[d].aggregate) \subseteq Change
  BY <1>0, HeardTypes, FreshIsChange DEF HeldOnce, Distinct
<1>9. ASSUME NEW s \in saves
      PROVE  Waiting(s) \subseteq Change
  BY HeardTypes, WaitingIsChange
<1>10. ASSUME NEW d \in Client
       PROVE  /\ Distinct(client'[d].aggregate) /\ Untold(Fresh(client'[d].aggregate), made', told')
              /\ Fresh(client'[d].aggregate) =
                   IF d = c THEN Fresh(client[d].aggregate) \cup {made + 1} ELSE Fresh(client[d].aggregate)
  <2>1. Distinct(client[d].aggregate) /\ Untold(Fresh(client[d].aggregate), made, told)
    BY <1>0 DEF HeldOnce
  <2>2. CASE d = c
    <3>1. client'[d].aggregate = b
      BY <2>2, <1>5
    <3>2. Untold(Fresh(a) \cup {made + 1}, made', told')
      BY <2>1, <2>2, <1>7, <1>8
    <3> QED
      BY <2>2, <3>1, <3>2, <1>3
  <2>3. CASE d # c
    <3>1. client'[d].aggregate = client[d].aggregate
      BY <2>3, <1>5
    <3> QED
      BY <2>1, <2>3, <3>1, <1>7, <1>8
  <2> QED
    BY <2>2, <2>3
<1>11. ASSUME NEW d \in Client
       PROVE  made + 1 \notin Fresh(client[d].aggregate)
  BY <1>0, <1>7, <1>8 DEF HeldOnce
<1>12. ASSUME NEW s \in saves
       PROVE  made + 1 \notin Waiting(s) /\ Untold(Waiting(s), made', told') /\ Announces(s, stream)
  BY <1>0, <1>7, <1>9 DEF HeldOnce
<1> HIDE DEF a
<1>13. HeldOnce'
  <2>1. \A d, e \in Client :
          d # e => Fresh(client'[d].aggregate) \cap Fresh(client'[e].aggregate) = {}
    <3> SUFFICES ASSUME NEW d \in Client, NEW e \in Client, d # e
                 PROVE  Fresh(client'[d].aggregate) \cap Fresh(client'[e].aggregate) = {}
      OBVIOUS
    <3>1. Fresh(client[d].aggregate) \cap Fresh(client[e].aggregate) = {}
      BY <1>0 DEF HeldOnce
    <3> QED
      BY <3>1, <1>10, <1>11
  <2>2. \A s \in saves, d \in Client : Waiting(s) \cap Fresh(client'[d].aggregate) = {}
    <3> SUFFICES ASSUME NEW s \in saves, NEW d \in Client
                 PROVE  Waiting(s) \cap Fresh(client'[d].aggregate) = {}
      OBVIOUS
    <3>1. Waiting(s) \cap Fresh(client[d].aggregate) = {}
      BY <1>0 DEF HeldOnce
    <3> QED
      BY <3>1, <1>10, <1>12
  <2>3. \A s, t \in saves : s # t => Waiting(s) \cap Waiting(t) = {}
    BY <1>0 DEF HeldOnce
  <2>4. saves' = saves /\ stream' = stream
    BY <1>1
  <2>5. /\ \A d \in Client : Distinct(client'[d].aggregate) /\ Untold(Fresh(client'[d].aggregate), made', told')
        /\ \A s \in saves : Announces(s, stream) /\ Untold(Waiting(s), made', told')
    BY <1>10, <1>12
  <2> QED
    BY <2>1, <2>2, <2>3, <2>4, <2>5 DEF HeldOnce
<1>14. \A x \in Stored(stream) : x <= made'
  <2>1. Stored(stream) \subseteq Change
    BY HeardTypes, StoredIsChange
  <2> QED
    BY <2>1, <1>0, <1>1, <1>2 DEF Change
<1> QED
  BY <1>1, <1>4, <1>13, <1>14 DEF Heard

-------------------------------------------------------------------------------
LEMMA StoredJoined ==
  ASSUME NEW st \in Seq(Event), NEW t \in Seq(Event)
  PROVE  st \o t \in Seq(Event) /\ Stored(st \o t) = Stored(st) \cup Stored(t)
<1>1. /\ st \o t \in Seq(Event) /\ Len(st \o t) = Len(st) + Len(t)
      /\ \A i \in 1 .. Len(st) : (st \o t)[i] = st[i]
      /\ \A i \in Len(st) + 1 .. Len(st) + Len(t) : (st \o t)[i] = t[i - Len(st)]
      /\ Len(st) \in Nat /\ Len(t) \in Nat
  BY Joined, Lens
<1> DEFINE j == st \o t
<1> HIDE DEF j
<1>2. ASSUME NEW i \in 1 .. Len(j) PROVE j[i].change \in Stored(st) \cup Stored(t)
  <2>1. CASE i \in 1 .. Len(st)
    BY <2>1, <1>1 DEF Stored, j
  <2>2. CASE i \in Len(st) + 1 .. Len(st) + Len(t)
    <3>1. i - Len(st) \in 1 .. Len(t)
      BY <2>2, <1>1
    <3> QED
      BY <2>2, <3>1, <1>1 DEF Stored, j
  <2> QED
    BY <2>1, <2>2, <1>1 DEF j
<1>3. ASSUME NEW i \in 1 .. Len(st) PROVE st[i].change \in Stored(j)
  <2>1. i \in 1 .. Len(j) /\ j[i] = st[i]
    BY <1>1 DEF j
  <2> QED
    BY <2>1 DEF Stored
<1>4. ASSUME NEW i \in 1 .. Len(t) PROVE t[i].change \in Stored(j)
  <2>1. Len(st) + i \in 1 .. Len(j) /\ Len(st) + i \in Len(st) + 1 .. Len(st) + Len(t) /\ Len(st) + i - Len(st) = i
    BY <1>1 DEF j
  <2>2. j[Len(st) + i] = t[i]
    BY <2>1, <1>1 DEF j
  <2> QED
    BY <2>1, <2>2 DEF Stored
<1>5. Stored(j) = Stored(st) \cup Stored(t)
  <2>1. Stored(j) \subseteq Stored(st) \cup Stored(t)
    BY <1>2 DEF Stored
  <2>2. Stored(st) \subseteq Stored(j)
    BY <1>3 DEF Stored
  <2>3. Stored(t) \subseteq Stored(j)
    BY <1>4 DEF Stored
  <2> QED
    BY <2>1, <2>2, <2>3
<1> QED
  BY <1>1, <1>5 DEF j

LEMMA AnnouncesStays ==
  ASSUME NEW s, NEW st, NEW st2, Stored(st) \subseteq Stored(st2), Announces(s, st)
  PROVE  Announces(s, st2)
BY DEF Announces

(* What a Save takes from the aggregate. *)
LEMMA Flush ==
  ASSUME NEW a \in Aggregate, Distinct(a)
  PROVE  /\ Uncommitted(a) \in Seq(Event) /\ Len(Uncommitted(a)) = a.fresh
         /\ \A i, j \in 1 .. a.fresh : Uncommitted(a)[i].change = Uncommitted(a)[j].change => i = j
         /\ Stored(Uncommitted(a)) = Fresh(a)
<1> DEFINE n == Len(a.state)
           place(i) == n - a.fresh + i
<1>1. a.state \in Seq(Change) /\ a.version \in Nat /\ a.fresh \in Nat /\ n \in Nat /\ a.fresh <= n
  BY Lens DEF Aggregate, Distinct
<1>2. ASSUME NEW i \in 1 .. a.fresh
      PROVE  place(i) \in FreshPlaces(a) /\ a.state[place(i)] \in Change /\ a.version + i \in Nat
  <2>1. place(i) \in 1 .. n /\ place(i) \in FreshPlaces(a) /\ a.version + i \in Nat
    BY <1>1 DEF FreshPlaces
  <2> QED
    BY <2>1, <1>1, ElementOfSeq
<1>3. Uncommitted(a) = [i \in 1 .. a.fresh |-> [version |-> a.version + i, change |-> a.state[place(i)]]]
  BY DEF Uncommitted
<1> DEFINE u == Uncommitted(a)
<1>4. u \in [1 .. a.fresh -> Event]
  <2>1. \A i \in 1 .. a.fresh : [version |-> a.version + i, change |-> a.state[place(i)]] \in Event
    BY <1>2 DEF Event
  <2> HIDE DEF place
  <2> QED
    BY <2>1, <1>3
<1>5. \A i \in 1 .. a.fresh : u[i].change = a.state[place(i)]
  <2> HIDE DEF place
  <2> QED
    BY <1>3
<1> HIDE DEF u
<1>6. u \in Seq(Event) /\ Len(u) = a.fresh
  BY <1>1, <1>4, SeqDef
<1>7. ASSUME NEW i \in 1 .. a.fresh, NEW j \in 1 .. a.fresh, u[i].change = u[j].change
      PROVE  i = j
  <2>1. place(i) = place(j)
    <3> HIDE DEF place
    <3> QED
      BY <1>2, <1>5, <1>7 DEF Distinct
  <2> QED
    BY <2>1, <1>1
<1>8. Stored(u) = Fresh(a)
  <2>1. \A i \in 1 .. a.fresh : u[i].change \in Fresh(a)
    <3> HIDE DEF place
    <3> QED
      BY <1>2, <1>5 DEF Fresh
  <2>2. ASSUME NEW k \in FreshPlaces(a) PROVE a.state[k] \in Stored(u)
    <3>1. PICK i \in 1 .. a.fresh : place(i) = k
      <4>1. k - n + a.fresh \in 1 .. a.fresh /\ place(k - n + a.fresh) = k
        BY <1>1 DEF FreshPlaces
      <4> QED
        BY <4>1
    <3>2. u[i].change = a.state[k]
      <4> HIDE DEF place
      <4> QED
        BY <3>1, <1>5
    <3> QED
      BY <3>2, <1>6 DEF Stored
  <2> QED
    BY <2>1, <2>2, <1>6 DEF Stored, Fresh
<1> QED
  BY <1>6, <1>7, <1>8 DEF u

LEMMA SaveHeard ==
  ASSUME OneBus, Heard, NEW c \in Client, NEW withSnapshot \in BOOLEAN, Save(c, withSnapshot)
  PROVE  Heard'
<1> DEFINE a == client[c].aggregate
           u == Uncommitted(a)
           first == IF StorePublishes THEN SubSeq(u, 1, 1) ELSE u
           call == [by |-> c, awaited |-> ~withSnapshot, events |-> u, told |-> 0]
<1>0. HeldOnce
  BY DEF Heard
<1>1. /\ a.fresh > 0 /\ stream' = stream \o first /\ saves' = saves \cup {call}
      /\ TryMakeSnapshot(a, withSnapshot)
      /\ \/ client' = [client EXCEPT ![c] = [pc |-> "idle", aggregate |-> NewAggregate]]
         \/ client' = [client EXCEPT ![c] = [pc |-> "saving", aggregate |-> Flushed(a)]]
      /\ UNCHANGED <<made, seen, told, misled>>
  BY DEF Save, Idle
<1>2. a \in Aggregate /\ Distinct(a) /\ Untold(Fresh(a), made, told) /\ a.fresh \in Nat
  BY <1>0, HeardTypes DEF HeldOnce, Aggregate
<1>3. snapshot' \in Aggregate /\ snapshot'.fresh = 0
  <2> HIDE DEF a
  <2> QED
    BY <1>1, <1>2, SnapshotType
<1>4. Flushed(a) \in Aggregate /\ Flushed(a).fresh = 0
  <2> HIDE DEF a
  <2> DEFINE v == a.version + a.fresh
             f == Flushed(a)
  <2>1. v \in Nat /\ a.state \in Seq(Change)
    BY <1>2 DEF Aggregate
  <2>2. f = [a EXCEPT !.version = v, !.fresh = 0]
    BY DEF Flushed
  <2> HIDE DEF v, f
  <2>3. f = [version |-> v, state |-> a.state, fresh |-> 0]
    BY <2>1, <2>2, <1>2, Committed
  <2>4. f \in Aggregate /\ f.fresh = 0
    BY <2>1, <2>3 DEF Aggregate
  <2> QED
    BY <2>4 DEF f
<1>5. PICK pc \in {"idle", "saving"}, b \in Aggregate :
        b.fresh = 0 /\ client' = [client EXCEPT ![c] = [pc |-> pc, aggregate |-> b]]
  BY <1>1, <1>4, NewIsClean
<1>6. /\ u \in Seq(Event) /\ Len(u) = a.fresh /\ Stored(u) = Fresh(a)
      /\ \A i, j \in 1 .. Len(u) : u[i].change = u[j].change => i = j
  <2> HIDE DEF a
  <2> QED
    BY <1>2, Flush
<1> HIDE DEF u
<1>7. /\ first \in Seq(Event) /\ Stored(first) \subseteq Stored(u)
      /\ \A i \in 1 .. Len(u) : (StorePublishes => i <= 1) => u[i].change \in Stored(first)
  <2>1. CASE StorePublishes
    <3>1. 1 \in 1 .. Len(u)
      BY <1>1, <1>2, <1>6
    <3>2. u[1] \in Event /\ \A i \in 1 .. 1 : u[i] \in Event
      BY <3>1, <1>6, ElementOfSeq
    <3>3. /\ SubSeq(u, 1, 1) \in Seq(Event) /\ Len(SubSeq(u, 1, 1)) = 1
          /\ \A i \in 1 .. 1 - 1 + 1 : SubSeq(u, 1, 1)[i] = u[1 + i - 1]
      BY <3>2, SubSeqProperties
    <3>4. SubSeq(u, 1, 1)[1] = u[1]
      BY <3>3
    <3>5. first = SubSeq(u, 1, 1)
      BY <2>1
    <3> HIDE DEF first
    <3>6. Stored(first) = {u[1].change}
      BY <3>3, <3>4, <3>5 DEF Stored
    <3>7. \A i \in 1 .. Len(u) : i <= 1 => i = 1
      BY <3>1
    <3> QED
      BY <2>1, <3>1, <3>3, <3>5, <3>6, <3>7 DEF Stored
  <2>2. CASE ~StorePublishes
    BY <2>2, <1>6 DEF Stored
  <2> QED
    BY <2>1, <2>2
<1> HIDE DEF first
<1>8. stream' \in Seq(Event) /\ Stored(stream') = Stored(stream) \cup Stored(first)
  BY <1>1, <1>7, HeardTypes, StoredJoined
<1>9. /\ call \in SaveCall /\ call.events = u /\ call.told = 0
      /\ Waiting(call) = Fresh(a) /\ Announces(call, stream')
  <2>1. call \in SaveCall /\ call.events = u /\ call.told = 0
    BY <1>6 DEF SaveCall
  <2> HIDE DEF call, a
  <2>2. Waiting(call) = Fresh(a)
    BY <2>1, <1>6 DEF Waiting, Stored
  <2>3. \A i \in 1 .. Len(u) : (StorePublishes => i <= 0 + 1) => u[i].change \in Stored(stream')
    BY <1>7, <1>8
  <2>4. 0 < Len(u)
    BY <1>1, <1>6
  <2> QED
    BY <2>1, <2>2, <2>3, <2>4, <1>6 DEF Announces
<1> HIDE DEF call
<1>10. TypeOK'
  <2>1. client' \in [Client -> [pc : {"idle", "work", "saving"}, aggregate : Aggregate]]
    <3>1. [pc |-> pc, aggregate |-> b] \in [pc : {"idle", "work", "saving"}, aggregate : Aggregate]
      OBVIOUS
    <3> QED
      BY <3>1, <1>5, HeardTypes
  <2>2. saves' \in SUBSET SaveCall
    BY <1>1, <1>9, HeardTypes
  <2> QED
    BY <2>1, <2>2, <1>1, <1>3, <1>8 DEF Heard, TypeOK
<1>11. ASSUME NEW d \in Client
       PROVE  /\ Distinct(client'[d].aggregate)
              /\ Fresh(client'[d].aggregate) = IF d = c THEN {} ELSE Fresh(client[d].aggregate)
  <2>1. CASE d = c
    <3>1. client'[d].aggregate = b
      BY <2>1, <1>5, HeardTypes
    <3> QED
      BY <2>1, <3>1, <1>5, NothingFresh
  <2>2. CASE d # c
    <3>1. client'[d].aggregate = client[d].aggregate
      BY <2>2, <1>5, HeardTypes
    <3> QED
      BY <2>2, <3>1, <1>0 DEF HeldOnce
  <2> QED
    BY <2>1, <2>2
<1>12. ASSUME NEW s \in saves PROVE Announces(s, stream')
  BY <1>0, <1>8, AnnouncesStays DEF HeldOnce
<1>13. HeldOnce'
  <2>1. \A d \in Client : /\ Distinct(client'[d].aggregate)
                          /\ Untold(Fresh(client'[d].aggregate), made, told)
    BY <1>0, <1>11 DEF HeldOnce, Untold
  <2>2. \A d, e \in Client :
          d # e => Fresh(client'[d].aggregate) \cap Fresh(client'[e].aggregate) = {}
    <3> SUFFICES ASSUME NEW d \in Client, NEW e \in Client, d # e
                 PROVE  Fresh(client'[d].aggregate) \cap Fresh(client'[e].aggregate) = {}
      OBVIOUS
    <3>1. Fresh(client[d].aggregate) \cap Fresh(client[e].aggregate) = {}
      BY <1>0 DEF HeldOnce
    <3> QED
      BY <3>1, <1>11
  <2>3. \A s \in saves' : Announces(s, stream') /\ Untold(Waiting(s), made, told)
    BY <1>0, <1>1, <1>2, <1>9, <1>12 DEF HeldOnce
  <2>4. \A s \in saves : Waiting(s) \cap Fresh(a) = {}
    BY <1>0 DEF HeldOnce
  <2>5. \A s, t \in saves' : s # t => Waiting(s) \cap Waiting(t) = {}
    <3> SUFFICES ASSUME NEW s \in saves', NEW t \in saves', s # t
                 PROVE  Waiting(s) \cap Waiting(t) = {}
      OBVIOUS
    <3>1. CASE s \in saves /\ t \in saves
      BY <3>1, <1>0 DEF HeldOnce
    <3>2. CASE s = call /\ t \in saves
      BY <3>2, <2>4, <1>9
    <3>3. CASE s \in saves /\ t = call
      BY <3>3, <2>4, <1>9
    <3> QED
      BY <3>1, <3>2, <3>3, <1>1
  <2>6. \A s \in saves', d \in Client : Waiting(s) \cap Fresh(client'[d].aggregate) = {}
    <3> SUFFICES ASSUME NEW s \in saves', NEW d \in Client
                 PROVE  Waiting(s) \cap Fresh(client'[d].aggregate) = {}
      OBVIOUS
    <3>1. CASE d = c
      BY <3>1, <1>11
    <3>2. CASE d # c /\ s \in saves
      BY <3>2, <1>0, <1>11 DEF HeldOnce
    <3>3. CASE d # c /\ s = call
      <4>1. Fresh(a) \cap Fresh(client[d].aggregate) = {}
        BY <3>3, <1>0 DEF HeldOnce
      <4> QED
        BY <3>3, <4>1, <1>9, <1>11
    <3> QED
      BY <3>1, <3>2, <3>3, <1>1
  <2>7. made' = made /\ told' = told
    BY <1>1
  <2> QED
    BY <2>1, <2>2, <2>3, <2>5, <2>6, <2>7 DEF HeldOnce
<1>14. \A x \in Stored(stream') : x <= made
  BY <1>2, <1>6, <1>7, <1>8 DEF Heard, Untold
<1>15. \A x \in Change : told[x] > 0 => told[x] = 1 /\ x \in Stored(stream')
  BY <1>8 DEF Heard
<1> QED
  BY <1>1, <1>3, <1>10, <1>13, <1>14, <1>15 DEF Heard

-------------------------------------------------------------------------------
(* A Save whose handlers are done, or threw, leaves the clients what they  *)
(* hold.                                                                   *)
LEMMA ResumedHeard ==
  ASSUME Heard, NEW s \in saves, client' = client \/ client' = Resume(s)
  PROVE  /\ client' \in [Client -> [pc : {"idle", "work", "saving"}, aggregate : Aggregate]]
         /\ \A d \in Client : client'[d].aggregate = client[d].aggregate
<1>1. s.by \in Client
  BY HeardTypes DEF SaveCall
<1>2. CASE client' = client
  BY <1>2, HeardTypes
<1>3. CASE client' # client
  <2> DEFINE q == [client[s.by] EXCEPT !.pc = "work"]
  <2>1. q \in [pc : {"idle", "work", "saving"}, aggregate : Aggregate]
        /\ q.aggregate = client[s.by].aggregate
    BY <1>1, HeardTypes
  <2>2. client' = [client EXCEPT ![s.by] = q]
    BY <1>3 DEF Resume
  <2> HIDE DEF q
  <2> QED
    BY <1>1, <2>1, <2>2, HeardTypes
<1> QED
  BY <1>2, <1>3

LEMMA StoredAppended ==
  ASSUME NEW st \in Seq(Event), NEW e \in Event
  PROVE  Append(st, e) \in Seq(Event) /\ Stored(Append(st, e)) = Stored(st) \cup {e.change}
<1> DEFINE j == Append(st, e)
<1>1. /\ j \in Seq(Event) /\ Len(j) = Len(st) + 1 /\ Len(st) \in Nat
      /\ \A i \in 1 .. Len(st) : j[i] = st[i]
      /\ j[Len(st) + 1] = e
  BY Appended, Lens
<1> HIDE DEF j
<1>2. 1 .. Len(j) = (1 .. Len(st)) \cup {Len(st) + 1}
  BY <1>1
<1>3. Stored(j) = {st[i].change : i \in 1 .. Len(st)} \cup {e.change}
  BY <1>1, <1>2 DEF Stored
<1> QED
  BY <1>1, <1>3 DEF Stored, j

LEMMA PublishHeard ==
  ASSUME OneBus, Heard, NEW s \in saves, Publish(s)
  PROVE  Heard'
<1> DEFINE n == s.told + 1
           x == s.events[n].change
           rest == [s EXCEPT !.told = n]
<1>0. HeldOnce
  BY DEF Heard
<1>1. /\ s \in SaveCall /\ s.events \in Seq(Event) /\ Len(s.events) \in Nat /\ s.told \in Nat
      /\ Script(s) = s.events
  BY HeardTypes, ScriptIs, Lens DEF SaveCall
<1>2. /\ told' = [told EXCEPT ![x] = @ + 1]
      /\ stream' = (IF StorePublishes /\ n < Len(s.events) THEN Append(stream, s.events[n + 1]) ELSE stream)
      /\ saves' = (saves \ {s}) \cup (IF n = Len(s.events) THEN {} ELSE {rest})
      /\ client' = client \/ client' = Resume(s)
      /\ UNCHANGED <<snapshot, made, seen, misled>>
  BY <1>1 DEF Publish
<1>3. /\ n <= Len(s.events) /\ n \in 1 .. Len(s.events) /\ n \in Nat
      /\ x \in Waiting(s) /\ x \in Stored(stream) /\ x \in Change
      /\ told[x] = 0 /\ x <= made
  <2>1. Announces(s, stream) /\ Untold(Waiting(s), made, told)
    BY <1>0 DEF HeldOnce
  <2>2. n <= Len(s.events) /\ n \in 1 .. Len(s.events) /\ n \in Nat /\ n \in s.told + 1 .. Len(s.events)
    BY <2>1, <1>1 DEF Announces
  <2>3. x \in Waiting(s)
    BY <2>2 DEF Waiting
  <2>4. x \in Stored(stream)
    <3>1. n <= s.told + 1
      BY <1>1
    <3> QED
      BY <2>1, <2>2, <3>1 DEF Announces
  <2> QED
    BY <2>1, <2>2, <2>3, <2>4, <1>1, WaitingIsChange DEF Untold
<1>4. rest \in SaveCall /\ rest.told = n /\ rest.events = s.events
  BY <1>1, <1>3 DEF SaveCall
<1> HIDE DEF rest
<1>5. Waiting(rest) \subseteq Waiting(s) /\ x \notin Waiting(rest)
  <2>1. n + 1 .. Len(s.events) \subseteq s.told + 1 .. Len(s.events)
    BY <1>1
  <2>2. Waiting(rest) = {s.events[i].change : i \in n + 1 .. Len(s.events)}
    BY <1>4 DEF Waiting
  <2>3. \A i \in n + 1 .. Len(s.events) : s.events[i].change # x
    <3> SUFFICES ASSUME NEW i \in n + 1 .. Len(s.events) PROVE s.events[i].change # x
      OBVIOUS
    <3>1. i \in 1 .. Len(s.events) /\ i # n
      BY <1>1, <1>3
    <3> HIDE DEF n
    <3> QED
      BY <3>1, <1>0, <1>3 DEF HeldOnce, Announces
  <2> QED
    BY <2>1, <2>2, <2>3 DEF Waiting
<1>6. /\ told' \in [Change -> Nat] /\ told'[x] = 1
      /\ \A y \in Change \ {x} : told'[y] = told[y]
  BY <1>2, <1>3, HeardTypes
<1>7. /\ stream' \in Seq(Event) /\ Stored(stream) \subseteq Stored(stream')
      /\ \A y \in Stored(stream') : y \in Stored(stream) \/ y \in Waiting(s)
      /\ StorePublishes /\ n < Len(s.events) => s.events[n + 1].change \in Stored(stream')
  <2>1. CASE StorePublishes /\ n < Len(s.events)
    <3> DEFINE e == s.events[n + 1]
    <3>1. n + 1 \in 1 .. Len(s.events) /\ n + 1 \in s.told + 1 .. Len(s.events)
      BY <2>1, <1>1
    <3>2. e \in Event /\ e.change \in Waiting(s)
      BY <3>1, <1>1, ElementOfSeq DEF Waiting
    <3> HIDE DEF e
    <3>3. stream' = Append(stream, e)
      BY <2>1, <1>2 DEF e
    <3>4. stream' \in Seq(Event) /\ Stored(stream') = Stored(stream) \cup {e.change}
      BY <3>2, <3>3, HeardTypes, StoredAppended
    <3> QED
      BY <3>2, <3>4 DEF e
  <2>2. CASE ~(StorePublishes /\ n < Len(s.events))
    BY <2>2, <1>2, HeardTypes
  <2> QED
    BY <2>1, <2>2
<1>8. /\ client' \in [Client -> [pc : {"idle", "work", "saving"}, aggregate : Aggregate]]
      /\ \A d \in Client : client'[d].aggregate = client[d].aggregate
  BY <1>2, ResumedHeard
<1>9. saves' \in SUBSET SaveCall /\ \A t \in saves' : t \in saves \ {s} \/ (t = rest /\ n # Len(s.events))
  BY <1>2, <1>4, HeardTypes
<1>10. TypeOK'
  BY <1>2, <1>6, <1>7, <1>8, <1>9 DEF Heard, TypeOK
<1>11. ASSUME NEW X, X \subseteq Change, Untold(X, made, told), x \notin X PROVE Untold(X, made, told')
  BY <1>6, <1>11 DEF Untold
<1> HIDE DEF x, n
<1>12. ASSUME NEW d \in Client
       PROVE  /\ Distinct(client[d].aggregate)
              /\ Untold(Fresh(client[d].aggregate), made, told')
  <2>1. Distinct(client[d].aggregate) /\ Untold(Fresh(client[d].aggregate), made, told)
        /\ Waiting(s) \cap Fresh(client[d].aggregate) = {}
    BY <1>0 DEF HeldOnce
  <2>2. Fresh(client[d].aggregate) \subseteq Change
    BY <2>1, HeardTypes, FreshIsChange DEF Distinct
  <2> QED
    BY <2>1, <2>2, <1>3, <1>11
<1>13. ASSUME NEW t \in saves'
       PROVE  /\ Announces(t, stream') /\ Untold(Waiting(t), made, told')
              /\ \E o \in saves : Waiting(t) \subseteq Waiting(o) /\ (t \in saves \ {s} => o = t) /\ (t \notin saves \ {s} => o = s)
  <2>1. CASE t \in saves \ {s}
    <3>1. Announces(t, stream) /\ Untold(Waiting(t), made, told) /\ Waiting(s) \cap Waiting(t) = {}
      BY <2>1, <1>0 DEF HeldOnce
    <3>2. Waiting(t) \subseteq Change
      BY <2>1, HeardTypes, WaitingIsChange
    <3>3. Announces(t, stream')
      BY <3>1, <1>7, AnnouncesStays
    <3> QED
      BY <2>1, <3>1, <3>2, <3>3, <1>3, <1>11
  <2>2. CASE t \notin saves \ {s}
    <3>1. t = rest /\ n < Len(s.events)
      BY <2>2, <1>1, <1>3, <1>9
    <3>2. Announces(s, stream) /\ Untold(Waiting(s), made, told)
      BY <1>0 DEF HeldOnce
    <3>3. Untold(Waiting(rest), made, told')
      <4>1. Waiting(rest) \subseteq Change /\ Untold(Waiting(rest), made, told)
        BY <3>2, <1>4, <1>5, WaitingIsChange DEF Untold
      <4> QED
        BY <4>1, <1>5, <1>11
    <3>4. Announces(rest, stream')
      <4>1. ASSUME NEW i \in 1 .. Len(s.events), StorePublishes => i <= n + 1
            PROVE  s.events[i].change \in Stored(stream')
        <5>1. CASE StorePublishes /\ i = n + 1
          BY <5>1, <3>1, <1>7
        <5>2. CASE StorePublishes => i <= n
          <6>1. StorePublishes => i <= s.told + 1
            BY <5>2 DEF n
          <6> QED
            BY <6>1, <3>2, <1>7 DEF Announces
        <5>3. i = n + 1 \/ i <= n \/ ~StorePublishes
          BY <4>1, <1>3
        <5> QED
          BY <5>1, <5>2, <5>3
      <4> QED
        BY <4>1, <3>1, <3>2, <1>4 DEF Announces
    <3> QED
      BY <2>2, <3>1, <3>3, <3>4, <1>5
  <2> QED
    BY <2>1, <2>2
<1>14. HeldOnce'
  <2>1. \A t, o \in saves' : t # o => Waiting(t) \cap Waiting(o) = {}
    <3> SUFFICES ASSUME NEW t \in saves', NEW o \in saves', t # o
                 PROVE  Waiting(t) \cap Waiting(o) = {}
      OBVIOUS
    <3>1. t \in saves \ {s} \/ o \in saves \ {s}
      BY <1>9
    <3>2. PICK t1 \in saves : Waiting(t) \subseteq Waiting(t1) /\ (t \in saves \ {s} => t1 = t) /\ (t \notin saves \ {s} => t1 = s)
      BY <1>13
    <3>3. PICK o1 \in saves : Waiting(o) \subseteq Waiting(o1) /\ (o \in saves \ {s} => o1 = o) /\ (o \notin saves \ {s} => o1 = s)
      BY <1>13
    <3>4. t1 # o1
      BY <3>1, <3>2, <3>3
    <3>5. Waiting(t1) \cap Waiting(o1) = {}
      BY <3>4, <1>0 DEF HeldOnce
    <3> QED
      BY <3>2, <3>3, <3>5
  <2>2. \A t \in saves', d \in Client : Waiting(t) \cap Fresh(client[d].aggregate) = {}
    <3> SUFFICES ASSUME NEW t \in saves', NEW d \in Client
                 PROVE  Waiting(t) \cap Fresh(client[d].aggregate) = {}
      OBVIOUS
    <3>1. PICK o \in saves : Waiting(t) \subseteq Waiting(o)
      BY <1>13
    <3>2. Waiting(o) \cap Fresh(client[d].aggregate) = {}
      BY <1>0 DEF HeldOnce
    <3> QED
      BY <3>1, <3>2
  <2>3. \A b, d \in Client :
          b # d => Fresh(client[b].aggregate) \cap Fresh(client[d].aggregate) = {}
    BY <1>0 DEF HeldOnce
  <2>4. made' = made
    BY <1>2
  <2> QED
    BY <2>1, <2>2, <2>3, <2>4, <1>8, <1>12, <1>13 DEF HeldOnce
<1>15. \A y \in Stored(stream') : y <= made
  BY <1>0, <1>7 DEF Heard, HeldOnce, Untold
<1>16. \A y \in Change : told'[y] > 0 => told'[y] = 1 /\ y \in Stored(stream')
  BY <1>3, <1>6, <1>7 DEF Heard
<1> QED
  BY <1>2, <1>10, <1>14, <1>15, <1>16 DEF Heard

LEMMA PublishFailsHeard ==
  ASSUME Heard, NEW s \in saves, PublishFails(s)
  PROVE  Heard'
<1>1. /\ saves' = saves \ {s} /\ client' = Resume(s)
      /\ UNCHANGED <<stream, snapshot, made, seen, told, misled>>
  BY DEF PublishFails
<1>2. /\ client' \in [Client -> [pc : {"idle", "work", "saving"}, aggregate : Aggregate]]
      /\ \A d \in Client : client'[d].aggregate = client[d].aggregate
  BY <1>1, ResumedHeard
<1>3. TypeOK'
  BY <1>1, <1>2 DEF Heard, TypeOK
<1>4. HeldOnce'
  BY <1>1, <1>2 DEF Heard, HeldOnce
<1> QED
  BY <1>1, <1>3, <1>4 DEF Heard

LEMMA HeardStep == OneBus /\ Heard /\ [Next]_vars => Heard'
<1> SUFFICES ASSUME OneBus, Heard, [Next]_vars PROVE Heard'
  OBVIOUS
<1>1. ASSUME NEW c \in Client, Create(c) \/ Discard(c) PROVE Heard'
  BY <1>1, CreateDiscardHeard
<1>2. ASSUME NEW c \in Client, MakeChange(c) PROVE Heard'
  BY <1>2, MakeChangeHeard
<1>3. ASSUME NEW c \in Client, NEW start \in {NewAggregate, snapshot}, Load(c, start) PROVE Heard'
  BY <1>3, LoadHeard
<1>4. ASSUME NEW c \in Client, NEW withSnapshot \in BOOLEAN, Save(c, withSnapshot) PROVE Heard'
  BY <1>4, SaveHeard
<1>5. ASSUME NEW c \in Client, NEW withSnapshot \in BOOLEAN, SaveRefused(c, withSnapshot)
      PROVE  Heard'
  BY <1>5, SaveRefusedHeard
<1>6. ASSUME NEW s \in saves, Publish(s) PROVE Heard'
  BY <1>6, PublishHeard
<1>7. ASSUME NEW s \in saves, PublishFails(s) PROVE Heard'
  BY <1>7, PublishFailsHeard
<1>8. CASE UNCHANGED vars
  BY <1>8 DEF vars, Heard, TypeOK, HeldOnce
<1> QED
  BY <1>1, <1>2, <1>3, <1>4, <1>5, <1>6, <1>7, <1>8 DEF Next

(* Handlers hear of stored events only, and once of each, whether or not   *)
(* saves are checked for conflicts, and even if handlers throw; as long as *)
(* not both the store and the repository publish.                          *)
THEOREM HeardOnceAndStored == ~(StorePublishes /\ RepoPublishes) => (Spec => []ToldOnceAndStored)
<1>1. OneBus /\ Init => OneBus /\ Heard
  BY InitHeard
<1>2. OneBus /\ Heard /\ [Next]_vars => (OneBus /\ Heard)'
  BY HeardStep DEF OneBus
<1>3. Heard => ToldOnceAndStored
  BY HeardTypes, LenProperties DEF Heard, ToldOnceAndStored, Stored
<1> QED
  BY <1>1, <1>2, <1>3, PTL DEF Spec, OneBus

(* The state stays in its types, whatever clients pass as the expected     *)
(* version and whatever snapshots say.                                     *)
THEOREM TypeCorrect == ~(StorePublishes /\ RepoPublishes) => (Spec => []TypeOK)
<1>1. OneBus /\ Init => OneBus /\ Heard
  BY InitHeard
<1>2. OneBus /\ Heard /\ [Next]_vars => (OneBus /\ Heard)'
  BY HeardStep DEF OneBus
<1>3. Heard => TypeOK
  BY DEF Heard
<1> QED
  BY <1>1, <1>2, <1>3, PTL DEF Spec, OneBus

-------------------------------------------------------------------------------
(* AggregateRepository implements OptimisticLog, while no snapshot         *)
(* misleads.                                                               *)

Implements == [Log!LogNext]_(Log!logVars)

Versions == [c \in Client |-> client[c].aggregate.version]
States == [c \in Client |-> client[c].aggregate.state]

(* An aggregate with all that is stored and nothing else is the history.   *)
LEMMA WholeHistory ==
  ASSUME NEW a \in Aggregate, NEW st \in Seq(Event), NEW sn, NEW m,
         Fits(a, st, sn, m), a.version = Len(a.state), Len(a.state) = Len(st)
  PROVE  a.state = ChangesOf(st)
<1>1. a.state \in Seq(Change) /\ Len(st) \in Nat
  BY Lens DEF Aggregate
<1>2. a.state = [i \in 1 .. Len(st) |-> a.state[i]]
  BY <1>1
<1>3. \A i \in 1 .. Len(st) : a.state[i] = st[i].change
  BY DEF Fits, Built
<1> QED
  BY <1>2, <1>3 DEF ChangesOf

(* A step of one client, as far as its aggregate goes. *)
LEMMA ClientSees ==
  ASSUME NEW c \in Client, NEW v, NEW x,
         client'[c].aggregate.version = v, client'[c].aggregate.state = x,
         \A d \in Client \ {c} : client'[d].aggregate = client[d].aggregate
  PROVE  Versions' = [Versions EXCEPT ![c] = v] /\ States' = [States EXCEPT ![c] = x]
<1>1. Versions' = [d \in Client |-> client'[d].aggregate.version]
  BY DEF Versions
<1>2. States' = [d \in Client |-> client'[d].aggregate.state]
  BY DEF States
<1>3. Versions' = [Versions EXCEPT ![c] = v]
  BY <1>1 DEF Versions
<1>4. States' = [States EXCEPT ![c] = x]
  BY <1>2 DEF States
<1> QED
  BY <1>3, <1>4

LEMMA NothingSeen ==
  ASSUME UNCHANGED <<stream, misled>>,
         \A d \in Client : client'[d].aggregate = client[d].aggregate
  PROVE  Implements
<1>1. Versions' = Versions /\ States' = States
  BY DEF Versions, States
<1> QED
  BY <1>1 DEF Implements, Log!logVars, Versions, States, ChangesOf

LEMMA InitImplements == Init => Log!LogInit
<1> SUFFICES ASSUME Init PROVE Log!LogInit
  OBVIOUS
<1>1. ChangesOf(stream) = <<>>
  BY DEF Init, ChangesOf
<1> QED
  BY <1>1 DEF Init, Idle, NewAggregate, Log!LogInit

(* Create, Discard, and what a client of SnapshotRepository is left with   *)
(* when its Save is refused.                                               *)
LEMMA AfreshImplements ==
  ASSUME Good, NEW c \in Client, NEW pc, UNCHANGED <<stream, misled>>,
         client' = [client EXCEPT ![c] = [pc |-> pc, aggregate |-> NewAggregate]]
  PROVE  Implements
<1>1. client'[c].aggregate = NewAggregate
      /\ \A d \in Client \ {c} : client'[d].aggregate = client[d].aggregate
  BY DEF Good, TypeOK
<1>2. NewAggregate.version = 0 /\ NewAggregate.state = <<>>
  BY DEF NewAggregate
<1>3. Versions' = [Versions EXCEPT ![c] = 0] /\ States' = [States EXCEPT ![c] = <<>>]
  BY <1>1, <1>2, ClientSees
<1>4. Log!StartAfresh(c)
  BY <1>3 DEF Log!StartAfresh, Log!Sees, ChangesOf, Versions, States
<1> QED
  BY <1>4 DEF Implements, Log!LogNext

LEMMA LoadImplements ==
  ASSUME Good, NEW c \in Client, NEW start \in {NewAggregate, snapshot}, Load(c, start)
  PROVE  Implements
<1>1. /\ start \in Aggregate /\ start.fresh = 0 /\ Fits(start, stream, seen, made)
      /\ stream \in Seq(Event) /\ made \in Nat /\ Sound(stream, seen, made)
  <2>1. NewAggregate \in Aggregate /\ Fits(NewAggregate, stream, seen, made) /\ NewAggregate.fresh = 0
    BY NewFits, Types DEF Good, NewAggregate
  <2> QED
    BY <2>1, Types DEF Good
<1> DEFINE a == Replayed(start, Newer(start.version))
<1>2. a \in Aggregate /\ Fits(a, stream, seen, made)
  BY <1>1, ReplayFits
<1>3. /\ start.version \in Nat /\ start.version <= Len(stream) /\ Len(stream) \in Nat
      /\ start.state \in Seq(Change)
  BY <1>1, Lens DEF Aggregate, Fits, Built
<1>4. /\ Newer(start.version) \in Seq(Event)
      /\ Len(Newer(start.version)) = Len(stream) - start.version
  BY <1>1, <1>3, NewerLength DEF Sound
<1>5. a.version = Len(stream) /\ a.fresh = 0
  <2>1. /\ a.version = start.version + Len(Newer(start.version))
        /\ a.fresh = start.fresh
    BY <1>1 DEF Replayed, Aggregate
  <2> QED
    BY <2>1, <1>1, <1>3, <1>4
<1>6. client' = [client EXCEPT ![c] = [pc |-> "work", aggregate |-> a]]
      /\ UNCHANGED <<stream, misled>>
  BY DEF Load
<1> HIDE DEF a
<1>7. Len(a.state) = Len(stream)
  BY <1>2, <1>3, <1>5 DEF Fits
<1>8. a.state = ChangesOf(stream)
  BY <1>1, <1>2, <1>5, <1>7, WholeHistory
<1>9. /\ client'[c].aggregate = a
      /\ \A d \in Client \ {c} : client'[d].aggregate = client[d].aggregate
  BY <1>6 DEF Good, TypeOK
<1>10. Len(ChangesOf(stream)) = Len(stream)
  BY <1>3 DEF ChangesOf
<1> DEFINE history == ChangesOf(stream)
<1>11. history' = history
  BY <1>6 DEF ChangesOf
<1> HIDE DEF history
<1>12. /\ Versions' = [Versions EXCEPT ![c] = Len(history)]
       /\ States' = [States EXCEPT ![c] = history]
  BY <1>5, <1>8, <1>9, <1>10, ClientSees DEF history
<1>13. Log!ReadAll(c)
  BY <1>6, <1>11, <1>12 DEF Log!ReadAll, Log!Sees, Versions, States, history
<1> QED
  BY <1>13 DEF Implements, Log!LogNext

LEMMA MakeChangeImplements ==
  ASSUME Good, NEW c \in Client, MakeChange(c)
  PROVE  Implements
<1> DEFINE a == client[c].aggregate
           b == [a EXCEPT !.state = Append(@, made + 1), !.fresh = @ + 1]
<1>1. a \in Aggregate /\ made + 1 \in Change
  BY Types, RepositoryAssumption DEF Good, MakeChange, Change
<1>2. b.version = a.version /\ b.state = Append(a.state, made + 1)
  <2> DEFINE k == b
  <2>1. k = [a EXCEPT !.state = Append(@, made + 1), !.fresh = @ + 1]
    OBVIOUS
  <2> HIDE DEF k, a
  <2>2. k.version = a.version /\ k.state = Append(a.state, made + 1)
    BY <1>1, <2>1 DEF Aggregate
  <2> QED
    BY <2>2 DEF k
<1>3. client' = [client EXCEPT ![c].aggregate = b] /\ UNCHANGED <<stream, misled>>
  BY DEF MakeChange
<1> HIDE DEF b
<1>4. /\ client'[c].aggregate = b
      /\ \A d \in Client \ {c} : client'[d].aggregate = client[d].aggregate
  BY <1>3 DEF Good, TypeOK
<1>5. /\ Versions' = [Versions EXCEPT ![c] = Versions[c]]
      /\ States' = [States EXCEPT ![c] = Append(States[c], made + 1)]
  BY <1>2, <1>4, ClientSees DEF Versions, States
<1>6. Log!Decide(c, made + 1)
  BY <1>3, <1>5 DEF Log!Decide, Log!Sees, ChangesOf, Versions, States
<1> QED
  BY <1>1, <1>6 DEF Implements, Log!LogNext

(* A Save that passes the check finds the log as its client has read it.   *)
LEMMA SaveImplements ==
  ASSUME Checked, Good, NEW c \in Client, NEW withSnapshot \in BOOLEAN, Save(c, withSnapshot)
  PROVE  Implements
<1> DEFINE a == client[c].aggregate
           f == Flushed(a)
<1>1. /\ stream \in Seq(Event) /\ made \in Nat /\ Len(stream) \in Nat
      /\ Sound(stream, seen, made) /\ a \in Aggregate /\ Fits(a, stream, seen, made)
  BY Types, Lens DEF Good
<1>2. /\ ~Conflict(a) /\ stream' = stream \o Uncommitted(a) /\ UNCHANGED misled
      /\ a.fresh > 0
      /\ client' = [client EXCEPT ![c] =
           IF withSnapshot THEN Idle ELSE [pc |-> "saving", aggregate |-> f]]
  BY DEF Checked, Save
<1> HIDE DEF a
<1>3. a.version = Len(stream)
  <2>1. \A i \in 1 .. Len(stream) : stream[i].version = i
    BY <1>1 DEF Sound
  <2>2. a.version <= Len(stream)
    BY <1>1 DEF Fits, Built
  <2> QED
    BY <1>1, <1>2, <2>1, <2>2, NoConflict
<1>4. stream' \in Seq(Event) /\ f \in Aggregate /\ Fits(f, stream', seen, made)
  BY <1>1, <1>2, <1>3, SavedFits
<1>5. f = [version |-> a.version + a.fresh, state |-> a.state, fresh |-> 0]
  <2>1. a.version + a.fresh \in Nat /\ f = [a EXCEPT !.version = a.version + a.fresh, !.fresh = 0]
    BY <1>1 DEF Flushed, Aggregate
  <2> HIDE DEF f
  <2> QED
    BY <1>1, <2>1, Committed
<1> HIDE DEF f
<1>6. f.version = a.version + a.fresh /\ f.state = a.state
  BY <1>5
<1>7. Len(a.state) = a.version + a.fresh /\ a.fresh \in Nat /\ a.version \in Nat
  BY <1>1 DEF Fits, Aggregate
<1>8. Len(stream') = Len(a.state)
  <2>1. Uncommitted(a) \in Seq(Event) /\ Len(Uncommitted(a)) = a.fresh
    BY <1>1, UncommittedIs
  <2>2. Len(stream \o Uncommitted(a)) = Len(stream) + a.fresh
    BY <1>1, <2>1, Joined
  <2> QED
    BY <1>2, <1>3, <1>7, <2>2
<1>9. a.state = ChangesOf(stream')
  BY <1>4, <1>6, <1>7, <1>8, WholeHistory
<1>10. Len(ChangesOf(stream)) = Len(stream)
  BY <1>1 DEF ChangesOf
<1>11. \A d \in Client \ {c} : client'[d].aggregate = client[d].aggregate
  BY <1>2 DEF Good, TypeOK
<1>12. /\ Versions[c] = Len(ChangesOf(stream)) /\ Versions[c] < Len(States[c])
       /\ States[c] = ChangesOf(stream)'
  <2>1. ChangesOf(stream)' = ChangesOf(stream')
    BY DEF ChangesOf
  <2>2. Versions[c] = a.version /\ States[c] = a.state
    BY DEF Versions, States, a
  <2> QED
    BY <2>1, <2>2, <1>2, <1>3, <1>7, <1>9, <1>10
<1>13. CASE withSnapshot
  <2>1. client'[c].aggregate.version = 0 /\ client'[c].aggregate.state = <<>>
    BY <1>2, <1>13 DEF Good, TypeOK, Idle, NewAggregate
  <2>2. Versions' = [Versions EXCEPT ![c] = 0] /\ States' = [States EXCEPT ![c] = <<>>]
    BY <1>11, <2>1, ClientSees
  <2>3. Log!Commit(c)
    BY <2>2, <1>2, <1>12 DEF Log!Commit, Log!Sees, Versions, States
  <2> QED
    BY <2>3 DEF Implements, Log!LogNext
<1>14. CASE ~withSnapshot
  <2>1. client'[c].aggregate = f
    BY <1>2, <1>14 DEF Good, TypeOK
  <2>2. f.version = Len(States[c]) /\ f.state = States[c]
    BY <1>6, <1>7 DEF States, a
  <2>3. /\ Versions' = [Versions EXCEPT ![c] = Len(States[c])]
        /\ States' = [States EXCEPT ![c] = States[c]]
    BY <1>11, <2>1, <2>2, ClientSees
  <2>4. Log!Commit(c)
    BY <2>3, <1>2, <1>12 DEF Log!Commit, Log!Sees, Versions, States
  <2> QED
    BY <2>4 DEF Implements, Log!LogNext
<1> QED
  BY <1>13, <1>14

LEMMA SaveRefusedImplements ==
  ASSUME Good, NEW c \in Client, NEW withSnapshot \in BOOLEAN,
         SaveRefused(c, withSnapshot), misled' = misled
  PROVE  Implements
<1>1. UNCHANGED stream
  BY DEF SaveRefused
<1>2. CASE withSnapshot
  <2>1. client' = [client EXCEPT ![c] = [pc |-> "idle", aggregate |-> NewAggregate]]
    BY <1>2 DEF SaveRefused, Idle
  <2> QED
    BY <1>1, <2>1, AfreshImplements
<1>3. CASE ~withSnapshot
  <2>1. client' = client
    BY <1>3 DEF SaveRefused
  <2> QED
    BY <1>1, <2>1, NothingSeen
<1> QED
  BY <1>2, <1>3

LEMMA PublishImplements ==
  ASSUME Checked, Good, NEW s \in saves, Publish(s) \/ PublishFails(s)
  PROVE  Implements
<1>1. UNCHANGED <<stream, misled>>
  BY DEF Checked, Publish, PublishFails
<1>2. client' = client \/ client' = Resume(s)
  BY DEF Publish, PublishFails
<1>3. \A d \in Client : client'[d].aggregate = client[d].aggregate
  BY <1>2, Resumed
<1> QED
  BY <1>1, <1>3, NothingSeen

LEMMA NextImplements ==
  ASSUME Checked, misled \/ Good, [Next]_vars
  PROVE  Implements
<1>1. CASE misled'
  BY <1>1 DEF Implements, Log!LogNext, Log!Lapse
<1>2. CASE ~misled'
  <2>1. ~misled /\ Good
    BY <1>2, MisledForGood
  <2>2. TypeOK'
    BY <1>2, <2>1, GoodStep DEF Good
  <2>3. misled' = misled
    BY <1>2, <2>1, <2>2 DEF Good, TypeOK
  <2>4. ASSUME NEW c \in Client, Create(c) \/ Discard(c) PROVE Implements
    <3>1. \E pc \in {"idle", "work"} :
            client' = [client EXCEPT ![c] = [pc |-> pc, aggregate |-> NewAggregate]]
      BY <2>4 DEF Create, Discard, Idle
    <3>2. UNCHANGED <<stream, misled>>
      BY <2>4 DEF Create, Discard
    <3> QED
      BY <2>1, <3>1, <3>2, AfreshImplements
  <2>5. ASSUME NEW c \in Client, MakeChange(c) PROVE Implements
    BY <2>1, <2>5, MakeChangeImplements
  <2>6. ASSUME NEW c \in Client, NEW start \in {NewAggregate, snapshot}, Load(c, start)
        PROVE  Implements
    BY <2>1, <2>6, LoadImplements
  <2>7. ASSUME NEW c \in Client, NEW withSnapshot \in BOOLEAN,
               Save(c, withSnapshot) \/ SaveRefused(c, withSnapshot)
        PROVE  Implements
    BY <2>1, <2>3, <2>7, SaveImplements, SaveRefusedImplements
  <2>8. ASSUME NEW s \in saves, Publish(s) \/ PublishFails(s) PROVE Implements
    BY <2>1, <2>8, PublishImplements
  <2>9. CASE UNCHANGED vars
    BY <2>9, NothingSeen DEF vars
  <2> QED
    BY <2>4, <2>5, <2>6, <2>7, <2>8, <2>9 DEF Next
<1> QED
  BY <1>1, <1>2

(* With expected versions and a store without a bus, the repository keeps  *)
(* the promise of OptimisticLog until a refused Save leaves its snapshot   *)
(* behind: Loads see the whole history, with or without a snapshot, and a  *)
(* Save continues the history it was decided on, all at once, or fails.    *)
THEOREM KeepsALog == Expect /\ ~StorePublishes => (Spec => ImplementsLog)
<1> DEFINE Safe == Checked /\ (misled \/ Good)
<1>1. Expect /\ ~StorePublishes /\ Init => Safe /\ Log!LogInit
  BY InitGood, InitImplements DEF Checked
<1>2. Safe /\ [Next]_vars => Safe' /\ [Log!LogNext]_(Log!logVars)
  <2> SUFFICES ASSUME Safe, [Next]_vars PROVE Safe' /\ [Log!LogNext]_(Log!logVars)
    OBVIOUS
  <2>1. misled' \/ Good'
    BY GoodStep, MisledForGood
  <2>2. Implements
    BY NextImplements
  <2> QED
    BY <2>1, <2>2 DEF Checked, Implements
<1> HIDE DEF Safe
<1> QED
  BY <1>1, <1>2, PTL DEF Spec, ImplementsLog, Log!LogSpec
================================================================================
