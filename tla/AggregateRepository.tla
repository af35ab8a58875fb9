-------------------------- MODULE AggregateRepository --------------------------
(***************************************************************************)
(* Event-sourced aggregates: src/Infra.Core/CQRS.  AggregateRoot,          *)
(* AggregateRepository, InMemoryEventStore, SnapshotRepository,            *)
(* IntervalSnapshotStrategy and InMemorySnapshotStore, for one aggregate:  *)
(* events and snapshots of different keys or types share nothing.          *)
(*                                                                         *)
(* A change is a number, in the order they were made; an event is a change *)
(* and its version; the state of an aggregate is the sequence of changes   *)
(* applied to it.  The stores are not thread-safe and complete at once, so *)
(* clients take turns where a Save awaits the handlers of a published      *)
(* event, and everything between two such awaits is one action.            *)
(*                                                                         *)
(* Snapshot<TKey,T> keeps a reference to the aggregate itself; clients of  *)
(* SnapshotRepository drop the aggregate once they saved it, as the        *)
(* command handlers of the tests do, so it is not changed afterwards.      *)
(***************************************************************************)
EXTENDS Naturals, Sequences, FiniteSets

CONSTANTS
  Client,
  MaxMade,         \* bound: changes made in a run
  MaxBatch,        \* bound: changes in one Save
  Interval,        \* IntervalSnapshotStrategy
  Expect,          \* do clients pass the version they loaded as expectedVersion?
  UseSnapshots,    \* do clients use SnapshotRepository, too?
  StorePublishes,  \* does the event store have an IEventBus?
  RepoPublishes,   \* does the repository?
  MayFail          \* may a handler of a published event throw?

ASSUME RepositoryAssumption ==
  /\ MaxMade \in Nat /\ MaxBatch \in Nat /\ Interval \in Nat \ {0}
  /\ {Expect, UseSnapshots, StorePublishes, RepoPublishes, MayFail} \subseteq BOOLEAN
  /\ StorePublishes \/ RepoPublishes

VARIABLES
  stream,    \* the aggregate's list in _inMemoryDb
  snapshot,  \* its entry in the snapshot store
  client,    \* where each client stands, and the aggregate it works on
  saves,     \* calls of AggregateRepository.Save that wait for a handler
  made,      \* changes made so far
  seen,      \* the state each change was made on
  told,      \* how often the handlers of each change's event were called
  misled     \* a snapshot was taken of changes that were then refused

vars == <<stream, snapshot, client, saves, made, seen, told, misled>>

Change == 1 .. MaxMade
Event == [version : Nat, change : Change]

(* fresh is the number of uncommitted changes, the last ones of the state. *)
Aggregate == [version : Nat, state : Seq(Change), fresh : Nat]
NewAggregate == [version |-> 0, state |-> <<>>, fresh |-> 0]

SaveCall == [by : Client, awaited : BOOLEAN, events : Seq(Event), told : Nat]

TypeOK ==
  /\ stream \in Seq(Event)
  /\ snapshot \in Aggregate
  /\ client \in [Client -> [pc : {"idle", "work", "saving"}, aggregate : Aggregate]]
  /\ saves \in SUBSET SaveCall
  /\ made \in 0 .. MaxMade
  /\ seen \in [Change -> Seq(Change)]
  /\ told \in [Change -> Nat]
  /\ misled \in BOOLEAN

Idle == [pc |-> "idle", aggregate |-> NewAggregate]

(* No snapshot yet is a snapshot of the new aggregate. *)
Init ==
  /\ stream = <<>> /\ snapshot = NewAggregate
  /\ client = [c \in Client |-> Idle]
  /\ saves = {} /\ made = 0
  /\ seen = [x \in Change |-> <<>>] /\ told = [x \in Change |-> 0]
  /\ misled = FALSE

-------------------------------------------------------------------------------
(* AggregateRoot *)

ChangesOf(events) == [i \in 1 .. Len(events) |-> events[i].change]

(* FlushUncommitedChanges: the versions it gives to the uncommitted        *)
(* changes, and what it leaves of the aggregate.                           *)
Uncommitted(a) ==
  [i \in 1 .. a.fresh |->
     [version |-> a.version + i, change |-> a.state[Len(a.state) - a.fresh + i]]]
Flushed_NotCleared(a) == [a EXCEPT !.version = @ + a.fresh]
Flushed(a) == [a EXCEPT !.version = @ + a.fresh, !.fresh = 0]

(* LoadFromHistory throws on the first gap or repetition. *)
InOrder(a, events) == \A i \in 1 .. Len(events) : events[i].version = a.version + i
Replayed(a, events) ==
  [a EXCEPT !.version = @ + Len(events), !.state = @ \o ChangesOf(events)]

-------------------------------------------------------------------------------
(* Clients. *)

(* IDomainEventStore.Get(id, fromVersion), in the order of the list: what  *)
(* SelectSeq selects, but without recursion.                               *)
Newer(v) ==
  LET later == {i \in 1 .. Len(stream) : stream[i].version > v}
      Nth(n) == CHOOSE i \in later : Cardinality({j \in later : j < i}) = n - 1
  IN [n \in 1 .. Cardinality(later) |-> stream[Nth(n)]]

Create(c) ==
  /\ client[c].pc = "idle"
  /\ client' = [client EXCEPT ![c] = [pc |-> "work", aggregate |-> NewAggregate]]
  /\ UNCHANGED <<stream, snapshot, saves, made, seen, told, misled>>

(* Get of either repository: SnapshotRepository replays from the snapshot, *)
(* and turns to AggregateRepository if there is none, which throws if      *)
(* there are no events.                                                    *)
Load(c, start) ==
  LET events == Newer(start.version)
  IN /\ client[c].pc = "idle"
     /\ start = snapshot => UseSnapshots \/ start = NewAggregate
     /\ start = NewAggregate => events # <<>>
     /\ InOrder(start, events)
     /\ client' = [client EXCEPT ![c] = [pc |-> "work", aggregate |-> Replayed(start, events)]]
     /\ UNCHANGED <<stream, snapshot, saves, made, seen, told, misled>>

(* ApplyChange of a new event. *)
MakeChange(c) ==
  LET a == client[c].aggregate
  IN /\ client[c].pc = "work" /\ a.fresh < MaxBatch /\ made < MaxMade
     /\ made' = made + 1
     /\ seen' = [seen EXCEPT ![made + 1] = a.state]
     /\ client' = [client EXCEPT ![c].aggregate =
          [a EXCEPT !.state = Append(@, made + 1), !.fresh = @ + 1]]
     /\ UNCHANGED <<stream, snapshot, saves, told, misled>>

Discard(c) ==
  /\ client[c].pc = "work"
  /\ client' = [client EXCEPT ![c] = Idle]
  /\ UNCHANGED <<stream, snapshot, saves, made, seen, told, misled>>

-------------------------------------------------------------------------------
(* Save *)

(* TryMakeSnapshot, before anything is saved: if one of the uncommitted    *)
(* changes will have a version that is a multiple of the interval.         *)
ShouldMakeSnapshot(a) == \E i \in 1 .. a.fresh : (a.version + i) % Interval = 0

SnapshotOf_Committed(a) == [a EXCEPT !.fresh = 0]
SnapshotOf(a) == [a EXCEPT !.version = @ + a.fresh, !.fresh = 0]

TryMakeSnapshot(a, withSnapshot) ==
  snapshot' = IF withSnapshot /\ ShouldMakeSnapshot(a) THEN SnapshotOf(a) ELSE snapshot

(* The concurrency check of AggregateRepository.Save. *)
Conflict_Never(a) == FALSE
Conflict(a) == Newer(a.version) # <<>>

(* It throws, and leaves the aggregate as it was.  SnapshotRepository does *)
(* not await it: its caller never learns.                                  *)
SaveRefused(c, withSnapshot) ==
  LET a == client[c].aggregate
  IN /\ client[c].pc = "work" /\ a.fresh > 0
     /\ withSnapshot => UseSnapshots
     /\ Expect /\ Conflict(a)
     /\ TryMakeSnapshot(a, withSnapshot)
     /\ misled' = (misled \/ (withSnapshot /\ ShouldMakeSnapshot(a)))
     /\ client' = IF withSnapshot THEN [client EXCEPT ![c] = Idle] ELSE client
     /\ UNCHANGED <<stream, saves, made, seen, told>>

(* The check passed: flush, and save up to the first await.  A store that  *)
(* publishes waits for the handlers of each event before it adds the next. *)
Save(c, withSnapshot) ==
  LET a == client[c].aggregate
      events == Uncommitted(a)
  IN /\ client[c].pc = "work" /\ a.fresh > 0
     /\ withSnapshot => UseSnapshots
     /\ ~(Expect /\ Conflict(a))
     /\ TryMakeSnapshot(a, withSnapshot)
     /\ stream' = stream \o (IF StorePublishes THEN SubSeq(events, 1, 1) ELSE events)
     /\ saves' = saves \cup
          {[by |-> c, awaited |-> ~withSnapshot, events |-> events, told |-> 0]}
     /\ client' = [client EXCEPT ![c] =
          IF withSnapshot THEN Idle ELSE [pc |-> "saving", aggregate |-> Flushed(a)]]
     /\ UNCHANGED <<made, seen, told, misled>>

(* Whom a Save tells: the store's bus, event by event, then its own.       *)
Script_Twice(s) == s.events \o s.events
Script(s) == (IF StorePublishes THEN s.events ELSE <<>>)
             \o (IF RepoPublishes THEN s.events ELSE <<>>)

Resume(s) == IF s.awaited THEN [client EXCEPT ![s.by].pc = "work"] ELSE client

(* The handlers of the event are done: on to the next one. *)
Publish(s) ==
  LET n == s.told + 1
      last == n = Len(Script(s))
  IN /\ told' = [told EXCEPT ![Script(s)[n].change] = @ + 1]
     /\ stream' = IF StorePublishes /\ n < Len(s.events) THEN Append(stream, s.events[n + 1])
                  ELSE stream
     /\ saves' = (saves \ {s}) \cup (IF last THEN {} ELSE {[s EXCEPT !.told = n]})
     /\ client' = IF last THEN Resume(s) ELSE client
     /\ UNCHANGED <<snapshot, made, seen, misled>>

(* One of them threw: Save throws, and the rest is neither told nor, if it *)
(* is the store that waits, stored.                                        *)
PublishFails(s) ==
  /\ MayFail
  /\ saves' = saves \ {s}
  /\ client' = Resume(s)
  /\ UNCHANGED <<stream, snapshot, made, seen, told, misled>>

Next ==
  \/ \E c \in Client :
       \/ Create(c) \/ MakeChange(c) \/ Discard(c)
       \/ \E start \in {NewAggregate, snapshot} : Load(c, start)
       \/ \E withSnapshot \in BOOLEAN : Save(c, withSnapshot) \/ SaveRefused(c, withSnapshot)
  \/ \E s \in saves : Publish(s) \/ PublishFails(s)

Spec == Init /\ [][Next]_vars

-------------------------------------------------------------------------------
(* The inductive invariant. *)

(* The state that the first n events lead to. *)
LeadTo(n, state) ==
  Len(state) = n /\ n <= Len(stream) /\ \A j \in 1 .. n : state[j] = stream[j].change

(* An aggregate in memory is the stored history up to its version, and its *)
(* uncommitted changes, each made on what precedes it.                     *)
Follows(a) ==
  /\ Len(a.state) = a.version + a.fresh
  /\ \A x \in 1 .. Len(a.state) : a.state[x] <= made
  /\ \A i \in a.version + 1 .. Len(a.state) :
       /\ Len(seen[a.state[i]]) = i - 1
       /\ \A j \in 1 .. i - 1 : seen[a.state[i]][j] = a.state[j]
  /\ misled \/ LeadTo(a.version, SubSeq(a.state, 1, a.version))

ClientsFollow == \A c \in Client : Follows(client[c].aggregate)

StreamIsMade == \A i \in DOMAIN stream : stream[i].change <= made

(* The events of an aggregate carry the versions 1, 2, 3 ...: it can be    *)
(* loaded (AggregateRoot.cs:49 throws otherwise, now and ever after).      *)
HistoryIsContiguous == misled \/ \A i \in DOMAIN stream : stream[i].version = i

(* Every stored change was made on exactly the state the changes before it *)
(* lead to: nobody decided on a stale aggregate (AggregateRepository:39).  *)
NoLostUpdate ==
  misled \/ \A i \in DOMAIN stream : LeadTo(i - 1, seen[stream[i].change])

(* Loading from the snapshot gives what replaying the whole history gives. *)
SnapshotAgrees ==
  misled \/ LeadTo(snapshot.version, snapshot.state)

SnapshotIsClean == snapshot.fresh = 0

IInv == /\ TypeOK /\ ClientsFollow /\ StreamIsMade /\ SnapshotIsClean
        /\ HistoryIsContiguous /\ NoLostUpdate /\ SnapshotAgrees

(* Handlers hear of stored events only, and once of each.                  *)
ToldOnceAndStored ==
  \A x \in Change : told[x] > 0 => told[x] = 1 /\ \E i \in DOMAIN stream : stream[i].change = x
================================================================================
