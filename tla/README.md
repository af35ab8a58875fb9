# Formal models of TheBorg

TheBorg (`src/`, C#, .NET Core) is a set of libraries for web back ends: an ambient
unit of work over Entity Framework, in-process and Redis message buses, event-sourced
aggregates, an asset store, caches, notifications, mail, and the back office and identity
sites that use them. It comes without documentation; the code, its comments and the unit
tests under `src/test` are the reference. Paths below are relative to `src/src` (the
solution directory of the repository), so `Infra.Core/...` is `src/src/Infra.Core/...`.

This directory holds TLA+ modules of the parts whose correctness depends on the order in
which threads, async flows, callbacks and failures interleave, the TLC configurations
that check them, and TLAPS proofs of the results that hold of every instance.

    tlc -workers 2 -config DbContextScope_disciplined.cfg MCDbContextScope
    tlapm DbContextScopeProofs.tla

## 1. Inventory

| component | state it keeps | operations | what is hard | what makes it correct |
|---|---|---|---|---|
| **DbContext scope** `Infra.EFCore/Scope` | an `AsyncLocal` identifier per flow, a static weak table of scopes, a shared collection of contexts with completed/disposed flags | constructors (nested or top-level, read-only or not), `SaveChanges(Async)`, `Dispose`, suppressors, the locator | the `AsyncLocal` is copied into parallel flows; disposal in three steps; commit awaits between contexts | nesting is restored, contexts stay with their flow, read-only transactions never write, finished ones never write again |
| **Scheduled timer** `Infra.Core/Infrastructure/ScheduledTimer.cs`, **delayed messages** `Infra.Core/Messaging/MessageBusBase.cs` | next date, two flags, a one-shot timer, a concurrent table of messages | `ScheduleNext`, `RunCallbackAsync`, `AddDelayedMessageAsync`, `DoMaintenanceAsync`, `Dispose` | flags written outside the lock, callbacks that overlap, a timer that is early, late or superseded | a message is published once, not too early, and eventually |
| **Event-sourced aggregates** `Infra.Core/CQRS/Domain`, `Events`, `Snapshots` | event lists and snapshots per aggregate, an aggregate's version and uncommitted changes | `Get`, `Save` of both repositories and stores, `ApplyChange`, flush, replay | saves that interleave at awaited handlers, handlers that throw, snapshots taken before the save | versions without gap, no lost update, snapshot = history, each event told once |
| **RunSync** `Infra.Core/Infrastructure/AsyncHelpers.cs` | a queue, an `AutoResetEvent`, `done`, `SynchronizationContext.Current` | `RunSync`, `Post`, the message loop | pool threads post while the loop goes to sleep; nested calls; exceptions | it returns, once the task is done; continuations reach their own loop |
| **Message buses** `Infra.Core/Messaging`, `Framework.Redis/Messaging` | subscribers, topic subscription | `Subscribe`, `PublishAsync`, `Stop`, `Dispose` | cancellation during delivery, double-checked subscription against dispose | each live subscriber hears each message; a bus can be disposed of (not modelled but for delayed messages) |
| **Unit of work stack** `Infra.Core/Relational/UOW` | a stack of units and a context per thread (`[ThreadStatic]`) | `CreateNew`, `Commit`, `Dispose` with `Complete` and `Remove` | a `using` block that awaits ends on another thread | an open unit has a live context, no two requests share one, none piles up |
| **Assets and files** `Infra.Core/Storage`, `Framework.Media` | files by path, rows of assets and versions | `Create`, `AddNewVersion`, `RestoreOldVersion`, `Delete`, state and name changes; save and delete a file | file and row change in separate steps; names, versions and rows are read, then used | every recorded version has the file that was uploaded for it, no answered upload is lost, no file is garbage |
| **Redis cache** `Framework.Redis/Caching` | scripts loaded, dependency keys | get/set with scripts, `Add`, `Invalidate` | the semaphore; read-extend-write of the dependency keys | no query result survives the change of an entity it shows (not modelled, section 7) |
| **User notifications** `Framework.UserNotifications` | an index and lists per recipient | `Add`, `Acknowledge`, `Dismiss`, `Pending` | two tables, plain lists inside | index and lists agree (not modelled) |
| **Retries, batch mail** `Infra.Core/Infrastructure/Run.cs`, `Framework.Postal` | none | a loop | failures | one result per message |
| **Repositories, back office, identity, gatekeeping, MVC, value helpers, client files** | the database | CRUD, controllers, configuration, formatting | – | not modelled: no control of their own worth a state machine |

How they interact: repositories find their `DbContext` through the locator of the DbContext
scope (an ambient value, never a parameter). `MessageBusBase` derives from
`MaintenanceBase`, which owns a `ScheduledTimer` and gives it `DoMaintenanceAsync` as its
callback; publishing with a delay arms the timer. `AggregateRepository` awaits the event
bus, which awaits handlers, which may load and save aggregates again. `RunSync` is called
where synchronous interfaces meet async services (tidings, TempData, the EF6 repository,
deletion of assets under a lock). Assets publish an event through the same bus.

The hazards found on the way are listed in `PROJECT.json`, each at its line.

## 2. Plan

1. `DbContextScope` – done: abstract specification, the refinement checked and proved,
   every invariant proved.
2. `ScheduledTimer` + `DelayedMessages` – done; every safety property is proved, and the
   refinement of an abstract specification.
3. `AggregateRepository` – done; every property is proved, and the refinement of an abstract
   specification.
4. `RunSync` – done; the safety properties are proved.
5. `FileStorage` + `Assets` – done; every property is proved.
6. `UnitOfWork` – done; every property is proved.
7. Subscribers of the buses, Redis caches, notifications, batches – not done; section 7 says
   why. The next candidates are abstract specifications of `RunSync` (a call that runs a task to
   its end) and of `Assets` (a version store), and a model of the dependency cache once its
   client interface is implemented.

## 3. Modules

### 3.1 DbContext scope

`DbContextCollection` has the value of one `DbContextCollection` (contexts by type, dirty
and saved ones, the completed and disposed flags) and its operations as operators.
`DbContextScope` has the flows. `flow[f]` is an ExecutionContext: the `AsyncLocal` value,
the using blocks it is in (`held`) and where it stands in a commit or a dispose;
`instances` is `DbContextScopeInstances`; `scope[s]` the fields of an instance;
`collection[s]` the collection a top-level scope allocated, to which nested scopes point.
An identifier and its scope are one value, since they are created together; the weak
table forgets what is removed, so garbage collection adds nothing.

| action | code |
|---|---|
| `Open` | `DbContextScope(...)` with `GetAmbientScope`, `SetAmbientScope`; a writer in a read-only scope throws (`MayNest`) |
| `UseContext` | `AmbientDbContextLocator.Get`, `DbContextCollection.Get`, with or without a change |
| `SaveNested`, `BeginCommit`, `CommitContext`, `CommitInvalidated`, `EndCommit` | `SaveChanges(Async)` and the awaiting loop of `CommitAsync`, including "Collection was modified" when another flow adds a context to the dictionary being enumerated |
| `BeginDispose`, `PopThrows`, `Pop`, `EndDispose` | `Dispose`: finish the contexts, check the order, restore the parent, mark |
| `Suppress`, `Unsuppress` | `AmbientContextSuppressor` |
| `Fork` | `Task.Run` and the like: the new flow gets a copy of the ambient value |

Two constants choose the callers. `UsingBlocks`: whatever is opened is closed innermost
first. `SuppressBeforeFork`: the rule of `IDbContextScope.cs:20-24`, "suppress the ambient
scope before you fork". No code enforces either, so what holds without them is checked
without them.

`BusinessTransaction` is the promise of `IDbContextScope`: a transaction gathers changes
in several contexts, writes them during its one save, a save that succeeds leaves nothing
pending, and after it nothing more is written. `DbContextScopeRefinement` maps a top-level
scope to a transaction; nested scopes are invisible.

### 3.2 Timer and delayed messages

`ScheduledTimer` has the threads: callers of `ScheduleNext` and pool threads running
`RunCallbackAsync`. Each unprotected read or write of `_isRunning` and
`_shouldRunAgainImmediately` is a step (`CheckRunning`, `NoteAgain`, `EnterLocked`,
`StartRunning`, `Decide`, `StopRunning`, `ResetAgain`); `SampleNow` reads the clock before
the lock of `ScheduleNext`, `SetTimer` runs inside it. `Fire` and `Tick` are the runtime's
timer and the clock. `DelayedMessages` adds the bus: `AddDelayedMessage`, the scan of the
table, the `TryRemove` and publication of each message (`SendDue`, `SendFails`), `Dispose`
in its two steps. `Grace` and `Batch` are the 10 ms and 50 ms of the code. `DelayOf`
is the conversion of the delay: what `MaxInt` does not hold becomes negative in the cast
(.NET Core on x64 gives `int.MinValue`) and zero in `Math.Max`. How the environment behaves is
in constants: how early and how late the timer may fire, and until when threads may be slower
than the clock. That bound, `SlowUntil`, keeps the runs small; up to it callbacks
overlap and clocks go stale, and no theorem has a hypothesis about it.

`rerun` is a ghost that says what became of the last request to run again: `asked` while a
callback can still notice it, `ignored` once none can (`Requested`, `ResetAgain`), until the
next scan looks at the table anyway. The two properties that promise a message its publication
except this; the run `DelayedMessages_wiped` shows why they must.

`DelayedDelivery` is what a bus promises of its delayed messages, without timers, threads or
callbacks: each is handed on once and not too early, lost if handing it on throws, or dropped
with all that wait once the bus is disposed of. `DelayedMessagesRefinement` reads the stage of
a message off the table, the publications and the failures.

### 3.3 Event-sourced aggregates

`AggregateRepository` has one aggregate, since different keys share nothing. A change is a
number, an event a change with a version, an aggregate the sequence of changes applied to
it, so that "decided on a stale state" can be told (`seen`). `Load`, `MakeChange`, `Save`,
`SaveRefused` are what a command handler does; `Publish` and `PublishFails` are the awaited
handlers of `PoorMansDispatcher.Publish`, the only points at which the in-memory stores let anybody else run. Whether the
store or the repository has the bus is a constant, since the code allows both and the tests
use both. The snapshot is taken before the save, as in `SnapshotRepository.Save`; that
method does not await the inner save, so a refused save leaves a snapshot of changes that
were never stored. `misled` marks behaviours in which that happened and the history
properties speak of the others; the hazard is at `SnapshotRepository.cs:41`.

`OptimisticLog` is what the repository promises: one log, writers that read all of it and
decide on it, and commits that continue it in one piece or not at all. It has no versions, no
events, no handlers and no snapshots; `AggregateRepositoryRefinement` maps the changes of the
stream to the log, an aggregate's version and state to what its writer has read and holds.
`misled` is the point where the promise lapses (`void`).

### 3.4 RunSync

`RunSync` has the calls one thread makes, nested or in turn; a call stands for its
`ExclusiveSynchronizationContext`. `Take`, `Block`, `WaitOne` are the message loop with the
lock released in between; `PostThere` and `Set` are `Post` by a pool thread in its two
steps. Tasks are branches of a `WhenAll` that await on the context they find, or off it,
call `RunSync` again, return, throw, or catch what a nested call threw.

### 3.5 Assets and files

`FileStorage` has the folder storage: the files by path, the ones open for writing, and the
two halves of `SaveFileAsync`, between which the file is there and not whole. `Assets` has
the web requests. Each runs one operation of `BaseAssetService` or `MediaService` on a
`DbContext` of its own, and an action is one access to the database or the disk, between
which any other request may run.

| action | code |
|---|---|
| `Create` | `KeyProvider.Pop` of the sequence, the first access of `Create` |
| `AddNewVersion`, `RestoreOldVersion`, `Delete`, `SetState`, `AssetChangeName` | the `Get` each starts with; it throws if the asset is not there |
| `LookUp`, `Resolve` | `ResoveNameIfExists`: the name as uploaded if it is free, else one with the ticks |
| `Open`, `Write`, `FileInfo` | `StoreFile`: `SaveFileAsync`, whose result nobody looks at, and `GetFileInfoAsync` |
| `GetVersion` | the row a restore copies, and the versions its context tracks from then on |
| `RecordAsset`, `RecordVersion` | `Db.Add`, `Db.AddVersion` with the `UpdateAsync` that writes every column |
| `Update` | the `UpdateAsync` of a state or name change |
| `DeleteFile`, `Remove` | the file of one version after the other, then the rows; a restored version shares its file with another, which is then deleted twice |
| `Reply`, `Throws` | what follows the save; a database or a handler that fails |

A path is a folder and the ticks in the name: all uploads bring one and the same name, so
that they collide whenever they can. `RoundOff` is the code's, with its rounding of halves
to even, so that neighbouring ids may or may not share a folder. `of` of a version says whose
contents it is to show, `by` who recorded it. The asset there is at the start has one version,
or two that share a file, as `RestoreOldVersion` leaves them.

Four ghosts hold the exemptions of the properties, and each is needed: without it TLC finds
the violation. `tainted` are paths that were contested when they were chosen
(another request was storing a file there, or had one to delete there still, if only for the
second time), or that a write failed on. `halved` are assets a `Delete` took a file from and
may not have finished. `leaked` are paths a `Delete` could not delete or did not know of.
`crossed` are assets whose state was set while another request held the row it had read, which
it then writes back. What is left to the properties is everything else: uploads and deletions
in other folders, restored versions that share a file, versions recorded at the same time.

### 3.6 Unit of work stack

A flow of `UnitOfWork` is a request: nested using blocks (`nest`), run by a thread (`at`) or
waiting (`Away`). `Await` and `Resume` let it change threads between any two operations,
`stack[t]` is the `[ThreadStatic]` field of thread `t`. `CreateNew` makes a stack where there
is none and puts a unit on it; if the unit's constructor throws, the stack stays, empty, with
its context (`CreateNewThrows`). `Dispose` is the end of a using block, with `Complete` and
`Remove`: ignored if this thread's stack has no such unit, refused if it is not on top.
`strayed` are contexts of units that were open while their flow waited, the one thing the code
has no defence against; the properties say that the damage stays with them.

No project of the repository registers this unit of work. The model takes a locator that
hands out a new context each time; with the `Scoped` registration that `AddDbContext` makes by
default, one request would get the context it has disposed of again.

## 4. Runs

| run | bounds | shows |
|---|---|---|
| `DbContextScope_disciplined` | 2 flows, 2 scopes, 2 context types, 3 blocks per flow; using blocks, suppress before fork | type invariant; the ambient scope is the innermost open one; contexts stay in their flow; open scopes keep their contexts; the table holds no disposed scope; refinement of `BusinessTransaction` with failing saves |
| `DbContextScope_inherited` | 2 flows, 2 scopes, 1 type, 2 blocks; using blocks only; fair | disposal in order never throws, and every scope closes with its contexts, even in flows that inherited the scope of another |
| `DbContextScope_wild` | 2 flows, 2 scopes, 2 types, 2 blocks; no discipline; commits find their dictionary changed | no writer on read-only contexts, read-only never saves, finished is final, and the inductive invariant |
| `DbContextScope_atomic` (violation) | 1 flow, 2 scopes, 2 types | `IDbContextScope.cs:14` promises atomic commit; a failing second save leaves the first one's data |
| `DelayedMessages` | 3 threads, 2 messages, time to 8, threads slow until 2, timer up to one unit late and never early, delays that fit an int, failing publications; fair | published at most once, not too early, none dropped; while a message waits, something will look at it, and it is sent, unless the last request to run again was ignored; the inductive invariant; refinement of `DelayedDelivery` |
| `DelayedMessages_overflow` (violation) | 2 threads, time to 10, no slow threads, no failures, delays to 3 of which an int holds 2 | a delay of more than 24.8 days becomes zero; the timer fires at once, and the date is then ignored as "already scheduled for same time" (`ScheduledTimer.cs:64`): the message waits for ever |
| `DelayedMessages_wiped` (violation) | 2 threads, time to 10, threads slow until 3, delays that fit an int | a callback that finds another running "will run again immediately" (`ScheduledTimer.cs:83`); `finally` wipes the request and the message waits for ever |
| `AggregateRepository_checked` | 3 clients, 4 changes, 2 per save, snapshot every 2; the repository publishes; handlers may throw | contiguous history, no lost update, snapshot agrees, told once and only if stored; the inductive invariant; refinement of `OptimisticLog` |
| `AggregateRepository_storefirst` (violation) | 2 clients, the store publishes | a save between two events of another reuses a version; the aggregate is unreadable from then on |
| `RunSync` | 2 calls, 2 branches, 2 awaits on the loop per call; fair | no lost wakeup; returns when the task is done; continuations stay with their call; every call returns |
| `Assets` | 3 requests, ids 49 to 51, 2 instants, the first asset restored before or not | versions have no gap, a recorded file is the one uploaded, garbage has a reason, no answered version is lost, the state is the one asked for; the inductive invariant |
| `UnitOfWork` | 2 threads, 2 flows, 4 units and contexts | an open unit has a live context, contexts are not shared, in-order use is never refused, no context is left behind; the inductive invariant |

*Why the bounds are enough.* The interesting cases of the scopes need two flows and one
nesting or one parallel scope, and two contexts for a partial commit; three blocks allow a
scope, a suppressor and a scope inside it. Without discipline two blocks do, for a flow is
forked inside the first of another, and two types let it add a context to a commit.
Overlapping callbacks need two pool threads and a third thread that publishes; two messages
make "the next one" differ from "this one". A lost update needs two clients, a third saves
between them; four changes allow two saves of two, hence gaps and a snapshot inside a batch.
Nested contexts need two calls, a posted `finish` and coalesced signals two branches. Two
uploads of one name need two requests, a deletion between their steps a third; ids 49, 50
and 51 are in two folders, since 50 rounds to 0 and 51 to 100; two instants let the made-up
name be new or made up before. Two threads and two flows let each meet the other's stack,
four units two of each flow. Symmetry is used only where the run has no liveness property:
over scopes and context types (not flows, one of which is the main one), clients, requests,
threads and flows of `UnitOfWork`.

*Fairness.* Threads and flows that are inside an operation go on (weak fairness): nothing
in the code blocks except the waits that are modelled as guards. The end of each using
block is strongly fair: its body may go in and out of inner blocks but not for ever. Time
passes and a due timer gets a pool thread. After `SlowUntil` threads are faster than the clock, which bounds the runs and no
theorem assumes. Nothing is assumed of callers, of failures or of the order of threads. Deadlock is checked except in `DelayedMessages*`, where the clock
stops at `MaxTime` and the system with it, in `Assets`, whose requests end, and in
`UnitOfWork`, which may run out of units; `Finish` in `RunSync` stands for a thread that
has made its calls.

*Each property can fail.* `PROJECT.json` names for each a plausible bug, next to the
definition it would replace (`..._Kept`, `..._Never`, ...), that makes TLC find a violation.

## 5. Proofs

All rest on an inductive invariant, one lemma per action, and quantify over every value of
the constants that satisfies the named assumptions (`ScopeAssumption`, `TimerAssumption`,
`DelayedAssumption`, `RunSyncAssumption`, `RepositoryAssumption`, `AssetsAssumption`,
`UnitOfWorkAssumption`). `IInv` of each module is an invariant of a run, so that its
conjuncts are true on small instances before anything is proved; the strengthenings that the
proof modules add were put to TLC the same way.

* `DbContextScopeProofs`, whatever the callers do. That a read/write scope never works on
  read-only contexts is not inductive: the new scope takes the collection of its parent, which
  was taken from the parent's parent. `ScopesAreRooted` says a nested scope's collection
  belongs to a created top-level scope, `HandlesAreOwned` and `BusyOnOwnScope` that operations
  under way are on scopes of the flow, and that a commit of a read-only collection has nothing
  to save. From that, `WritersHaveWritableContexts`, `ReadOnlyTransactionsNeverSave` and, as
  an action property, `FinishedTransactionsAreFinal`.
* `DbContextScopeNestingProofs`, of callers with using blocks. `BlocksNest`: each handle was
  opened in the one below it, and the scope of the innermost is ambient and in the table. That
  is enough for `DisposeInOrder`, in forked flows too. Of callers that also suppress before
  they fork, `AllSecluded` says that the ambient scope of a flow is exactly what its handles
  lead to, and that the scope whose contexts a handle uses is held below it; `Tidy` that open
  scopes are held by their owners, and that contexts are disposed of by theirs. From these,
  `AmbientFollowsTheBlocks`, `ContextsAreNotShared`, `OpenScopesKeepTheirContexts` and
  `TableHoldsOpenScopes`.
* `DbContextScopeRefinementProofs`: `KeepsItsPromise`, the refinement of
  `BusinessTransaction` for the same callers. `Faithful` adds what the mapping needs: a save
  is alone with its contexts (`SavesAreExclusive`: the enumerator stays valid, and what is
  changed and not saved is still to do), and an error is remembered no longer than the save.
  One lemma per step of a transaction says what the scopes must do for it (`IsBegin`,
  `IsSavePart`, ...), one per action that it does so or changes nothing a transaction shows.
* `DelayedMessagesProofs`. At-most-once needs `PendingIsUnsent`: a message in the table was
  never published, so the one `TryRemove` that succeeds publishes it first. Not-too-early
  needs `DueIsClose`: what a callback listed was within `Batch` of its time, and time does
  not run back. Holds for any number of threads and any behaviour of the timer.
  `NoneForgotten` is `PendingHasWakeUp` for a timer that is never early (`Early = 0`) and
  delays that fit an int (`MaxDelay <= MaxInt`), however slow the threads and however late the
  timer are. Both hypotheses and the exception of the property (a request to run again that
  was ignored) are needed: TLC finds a forgotten message with `Early = 1`, in the run `overflow`
  and in the run `wiped`. The invariant is `Timely`. `Armed`: if `_next` is a date to come, the
  timer is armed for it, or an earlier callback is still to look, which is why `ScheduleNext` may
  ignore a later date; `AskedIsHeard`: a request that counts as asked has its flag set and a
  callback that will read it; `DatesAreNear`: every date a thread holds is within `MaxDelay` of
  the clock, so that no delay overflows.
  `DeliversAsPromised` is the refinement of `DelayedDelivery`, again for any timer: besides
  `IInv` it needs that a message whose publication threw is out of the table for good
  (`LostIsGone`). Of two callbacks that have listed a message, the one whose `TryRemove`
  succeeds takes a step of the abstract specification, the other a stutter.
* `AggregateRepositoryProofs`, of clients that pass the version they loaded and a store
  without a bus of its own. `Good`: every aggregate in memory, and the snapshot, is the
  stored history up to its version, followed by changes each made on what precedes it. A save
  that passes the check finds the history as it was loaded and appends to it in one step. It
  holds until a refused save leaves a false snapshot (`misled`), after which the properties
  claim nothing. `HeardOnceAndStored` is `ToldOnceAndStored` for any clients, whether they
  expect a version or not, unless store and repository both publish (then handlers hear of
  each event from both). `HeldOnce`: a change that nobody was told of is in the hands of
  one, as an uncommitted change of one client or in the waiting part of one save, at one place
  there, or it is gone; so whoever tells of it is the first to, and a save stores before it tells.
  `KeepsALog` is the refinement of `OptimisticLog`, under the conditions of the first part and
  until `misled`: an aggregate that `Fits` and has the length of the stream is the stream
  (`WholeHistory`), before a `Load` from whatever snapshot returns and after a `Save`.
* `RunSyncProofs`. `NoLostWakeup` with the type invariant: a loop that found its queue
  empty and is not signalled has an empty queue still, or a poster that has yet to signal.
  If no branch awaits on the context a failed nested call left behind (`~AwaitsDirty`),
  `Orderly`: the current context of the thread is that of the innermost call, a nested call
  runs inside a segment of its caller, no branch is queued twice, and the continuation that
  ends the task, in the queue or in hand, means that every branch is done. From it,
  `NoBranchIsStranded` and `ComesBackWhenDone`.
* `AssetsProofs`, for any number of requests, failures everywhere. `IdsAreSpent` and
  `CreatedIsNew`: an id from the sequence is nobody else's until it is recorded;
  `HeldIsStillThere`: versions a request read stay, since rows are inserted one by one and
  removed all together, and the state it read is the one asked for unless that was set
  meanwhile. From these, `NoGap`, `NoVersionLost`, `StateKept`. `NoOtherGarbage` needs to know
  of every file, at all times, whose it is (`FilesExplained`): an upload under way or failed, a
  row, of which a `Delete` under way either lists the file or counts it as leaked, or leaked.
  `RightFile` needs `PathsAreOwned`: a path that is not tainted is held by one request, which has
  it alone from its look-up to its record and writes what it was asked to, or by rows of one
  asset, whose contents are there until a `Delete` of that asset takes a file and marks it.
  That a `Delete` deletes a shared path once per version is in it: a path somebody has still to
  delete is contested for whoever chooses it, and claimed for as long as a version with it is left.
* `UnitOfWorkProofs`, every property. `OpenIsStacked`: a unit in its block is on the stack it
  was put on, which is why its context lives, even on another thread;
  `StackIsTheFlowsOwn`: a stack that has not strayed holds the innermost units of the flow on
  its thread, which is why in-order use is never refused, and contexts are not shared.

Only model-checked is liveness (`EveryScopeCloses`, `SentUnlessIgnored`, `EveryCallReturns`),
which is out of the prover's reach. Every invariant, action property and refinement of a passing
run is proved, under the hypotheses its theorem states.

## 6. Observations without a run

These were seen in the models or the code; they either contradict no statement of the
repository or follow from an option the runs keep off.

* A flow forked inside a scope keeps its identifier after the scope was disposed of
  (`DbContextScope.cs:505` calls this impossible unless a scope was abandoned).
* A suppressor in a forked flow restores a scope disposed of meanwhile
  (`AmbientContextSuppressor.cs:42`).
* Two timer callbacks may run at once (`ScheduledTimer.cs:104`): what they share is safe.
* A timer that the runtime fires early (the comment at `MessageBusBase.cs:108-109` allows for
  it) has the effect of one that an overflow fires early: the scan returns a date that
  `ScheduleNext` takes for scheduled (`ScheduledTimer.cs:55` or `:62`), and the message waits
  for ever. TLC finds it in the run `overflow` with `Early = 1` and `MaxInt = 3`.
* `RunSync` does not restore the context when the task throws. With `AwaitsDirty = TRUE`
  (a caller that catches the exception and awaits again in the same segment) TLC finds the
  outer call waiting for ever: its continuation sits in the queue of the inner loop.
* A refused save through `SnapshotRepository` leaves a snapshot of changes that do not exist.
* `BaseAssetService.Create` ignores the `state` it is given (`BaseAssetService.cs:66`).
* Two uploads or restores that read the same row record the same version number. None is
  lost, but `GetVersion` throws for that number from then on.
* Two uploads of one name into one folder choose the same path before either has written it;
  one version then shows the file of the other.
* A `Delete` that fails between files and rows leaves an asset with versions whose files are
  gone. Their names are free again: a second `Delete` removes the file another asset has
  stored there since.
* No `Delete` has to fail for that if the asset was restored. Two `Delete`s of it have both read
  its two versions, which share a file; one deletes the path twice and removes the rows, the
  other deletes it once. An asset created in the same folder finds the name free and stores its
  file there; the second deletion of the other takes it, and that asset is recorded without its
  file. TLC finds this if a path that is still to be deleted does not count as contested. No
  statement in the repository denies it, so there is no run for it.
* The result of `SaveFileAsync` is ignored (`BaseAssetService.cs`, `StoreFile`): a write that
  failed half-way is recorded with the file as far as it got.
* A name change or a new version writes back the state it read: a `Suspend` in between is
  lost (`UpdateAsync` marks every column).
* A unit of work that ends on another thread than it began on is ignored there. Its stack
  stays, with a context that is never disposed of, and later flows on the first thread work on
  it while the unit does: two threads share a context, which the comment at
  `UnitOfWorkScopeManagerBase.cs:11-12` says can "never" happen. TLC finds two units with
  one context if `strayed` is taken out of `ContextsAreNotShared`.

## 7. Not modelled

Inside the modelled components: `RefreshEntitiesInParentScope` (nested scopes always share
contexts, so it returns at once), direct calls on a `DbContextCollection` by callers, the
disposal of a collection as several steps, the minimum interval of the timer, work that
`RunSync` starts and does not await, aggregates kept after a save with a snapshot,
`InMemoryPublisher` (handlers on the pool that nobody waits for), event stores that really wait, renaming,
copying and listing of files, and the file storage in memory, which only tests use (when it
is full, it evicts the file it has just stored).

Of the components that have some control of their own:

* *Subscribers of the buses.* The in-memory bus calls subscribers one after the other; the
  back office registers it and nobody subscribes. The Redis bus subscribes to its topic once
  under a lock, but `Dispose(bool)` calls `Dispose()`, which calls it again, without end and
  before it reaches the flag the two would race for.
* *Redis caches.* `LoadScriptsAsync` waits for its semaphore in `finally` where it should
  release it, so the first call never returns. `RedisDepedencyCacheClient` throws
  `NotImplementedException` from every member of `ICacheClient`, so nothing is ever cached
  for its dependency pointers to invalidate. (Once that works: two `Add`s to one entity, or
  an `Add` and an `Invalidate`, may lose a pointer, and a result read before a change may be
  cached after it.)
* *User notifications.* `Acknowledge` and `Dismiss` test `TryGetValue` the wrong way round
  and never find their notification. Two first notifications of one recipient may lose one.
* *Retries and batch mail.* A loop and a partition of a list, with no state shared.

Repositories, controllers, identity, back office, gatekeeping, value helpers and client
files are left out for good: they are thin layers over Entity Framework and ASP.NET, pure
functions, or vendored code.
