--------------------------------- MODULE Assets ---------------------------------
(***************************************************************************)
(* BaseAssetService and MediaService over AssetsMetadataStorage (a table   *)
(* of assets with their versions) and FolderFileStorage (their files):     *)
(* src/src/Infra.Core/Storage and src/src/Framework.Media.                 *)
(*                                                                         *)
(* Every web request has a DbContext of its own, runs one operation, and   *)
(* may be overtaken by others between any two accesses to the database or  *)
(* to the disk: an action is one such access.  All uploads bring a file of *)
(* one and the same name, so that names collide as often as they can.      *)
(***************************************************************************)
EXTENDS Integers, FiniteSets, FiniteSetsExt

CONSTANTS
  Request,
  Seed,       \* the upload of the asset there is at the start
  Truncated,  \* contents of a file that is being written
  FirstId,    \* the sequence's next value then, less one
  LastId,     \* bound: assets created
  Now         \* bound: the instants DateTime.UtcNow may show

ASSUME AssetsAssumption ==
  /\ Seed \notin Request /\ Truncated \notin Request \cup {Seed}
  /\ FirstId \in Nat \ {0} /\ LastId \in Nat /\ FirstId <= LastId
  /\ Now \subseteq Nat \ {0}

VARIABLES
  assets,    \* the rows of each asset: its state and its versions
  nextId,    \* AssetsSequence
  files, opened,
  now,       \* DateTime.UtcNow.Ticks
  request,   \* what each request does and holds
  asked,     \* the state last asked for, of each asset
  crossed,   \* assets whose state was set while a request held an older row
  tainted,   \* paths contested when they were chosen, or a write failed on
  leaked,    \* paths a Delete left behind
  halved     \* assets a Delete took files from

storage == <<files, opened>>
ghosts == <<asked, crossed, tainted, leaked, halved>>
vars == <<assets, nextId, storage, now, request, ghosts>>

Id == FirstId .. LastId
Upload == Request \cup {Seed}
AssetState == {"Active", "Suspended"}

-------------------------------------------------------------------------------
(* Paths: DefaultFolderIntegerScopeFactory and ResoveNameIfExists. *)

(* RoundOff(100): Math.Round rounds a half to the even neighbour. *)
RoundOff(i) ==
  LET q == i \div 100
      r == i % 100
  IN IF r > 50 \/ (r = 50 /\ q % 2 = 1) THEN 100 * (q + 1) ELSE 100 * q

Scope(id) == RoundOff(id) + 100

(* The name as uploaded, or DefaultConflictingNamesResolver's with the     *)
(* ticks put in.                                                           *)
AsUploaded == 0
Path == [scope : {Scope(id) : id \in Id}, ticks : Now \cup {AsUploaded}]
Named(id, t) == [scope |-> Scope(id), ticks |-> t]

Storage == INSTANCE FileStorage WITH Writer <- Upload

-------------------------------------------------------------------------------
(* AssetsMetadataStorage *)

(* A row of Versions and the one of Files that belongs to it: by tells     *)
(* who inserted it, of whose contents it is to name.                       *)
Version == [number : Nat, path : Path, of : Upload, by : Upload]
AssetRow == [state : AssetState, versions : SUBSET Version]

Row(n, p, u, r) == [number |-> n, path |-> p, of |-> u, by |-> r]
Numbers(versions) == {v.number : v \in versions}

(* spec.Versions.Max(x => x.Version) + 1 *)
NextVersion_Count(versions) == Cardinality(versions) + 1
NextVersion(versions) == Max(Numbers(versions)) + 1

Put(id, row) == [i \in DOMAIN assets \cup {id} |-> IF i = id THEN row ELSE assets[i]]

Recorded == UNION {{v.path : v \in assets[id].versions} : id \in DOMAIN assets}

-------------------------------------------------------------------------------
(* A request: its operation, the row as it read it, and its file. *)

NoPath == [scope |-> 0, ticks |-> 0]
NoVersion == [number |-> 0, path |-> NoPath, of |-> Seed, by |-> Seed]

Operation == {"Create", "AddNewVersion", "RestoreOldVersion", "Delete",
              "Suspend", "Activate", "AssetChangeName"}

RequestState ==
  [pc : {"idle", "resolve", "look", "open", "write", "info", "record", "version",
         "delete", "remove", "update", "reply", "done", "failed"},
   op : Operation, id : Id, state : AssetState, versions : SUBSET Version,
   path : Path \cup {NoPath}, old : [number : Nat, path : Path \cup {NoPath}, of : Upload, by : Upload],
   left : SUBSET Version]

Idle == [pc |-> "idle", op |-> "Create", id |-> FirstId, state |-> "Active",
         versions |-> {}, path |-> NoPath, old |-> NoVersion, left |-> {}]

pc(r) == request[r].pc
At(r, p) == request' = [request EXCEPT ![r].pc = p]

(* What is kept of a request that is over: what it was to do. *)
Over(r, p) ==
  request' = [request EXCEPT ![r] = [Idle EXCEPT !.pc = p, !.op = request[r].op,
                                       !.id = request[r].id, !.path = request[r].path]]

Running(r) == pc(r) \notin {"idle", "done", "failed"}
Uploading(r) == pc(r) \in {"open", "write", "info", "record"}

(* A path the request stores a file at, or has still to delete: once for   *)
(* each version that has it.                                               *)
PathsLeft(r) == {v.path : v \in request[r].left}
Claims(r, p) == (Uploading(r) /\ request[r].path = p) \/ p \in PathsLeft(r)

TypeOK ==
  /\ assets \in [DOMAIN assets -> AssetRow] /\ DOMAIN assets \subseteq Id
  /\ nextId \in FirstId .. LastId + 1
  /\ Storage!StorageTypeOK
  /\ now \in Now
  /\ request \in [Request -> RequestState]
  /\ asked \in [Id -> AssetState]
  /\ crossed \in SUBSET Id /\ halved \in SUBSET Id
  /\ tainted \in SUBSET Path /\ leaked \in SUBSET Path

(* One asset, as a first Create left it, or a RestoreOldVersion after it:  *)
(* then its two versions share a file.                                     *)
Init ==
  LET p == Named(FirstId, AsUploaded)
  IN /\ \E n \in {1, 2} : assets = [i \in {FirstId} |->
          [state |-> "Active", versions |-> {Row(k, p, Seed, Seed) : k \in 1 .. n}]]
     /\ nextId = FirstId + 1
     /\ files = [q \in {p} |-> Seed] /\ opened = {}
     /\ now \in Now /\ \A t \in Now : now <= t
     /\ request = [r \in Request |-> Idle]
     /\ asked = [i \in Id |-> "Active"]
     /\ crossed = {} /\ tainted = {} /\ leaked = {} /\ halved = {}

-------------------------------------------------------------------------------
(* The first access of each operation. *)

(* Create: KeyProvider.Pop takes the next value of the sequence. *)
Create_SameId(r) ==
  /\ pc(r) = "idle" /\ nextId <= LastId
  /\ request' = [request EXCEPT ![r] = [Idle EXCEPT !.pc = "look", !.id = nextId]]
  /\ UNCHANGED <<assets, nextId, storage, now, ghosts>>

Create(r) ==
  /\ pc(r) = "idle" /\ nextId <= LastId
  /\ nextId' = nextId + 1
  /\ request' = [request EXCEPT ![r] = [Idle EXCEPT !.pc = "look", !.id = nextId]]
  /\ UNCHANGED <<assets, storage, now, ghosts>>

(* The others read the asset and its versions; there being none, they throw. *)
Get(r, op, id, held) ==
  /\ pc(r) = "idle" /\ id < nextId
  /\ request' = [request EXCEPT ![r] =
       IF id \in DOMAIN assets THEN held ELSE [Idle EXCEPT !.pc = "failed", !.op = op, !.id = id]]
  /\ UNCHANGED <<assets, nextId, storage, now, ghosts>>

AsRead(op, id, next) ==
  [Idle EXCEPT !.pc = next, !.op = op, !.id = id,
               !.state = assets[id].state, !.versions = assets[id].versions]

AddNewVersion(r, id) == Get(r, "AddNewVersion", id, AsRead("AddNewVersion", id, "look"))

RestoreOldVersion(r, id, n) ==
  Get(r, "RestoreOldVersion", id,
      [AsRead("RestoreOldVersion", id, "version") EXCEPT !.old = [NoVersion EXCEPT !.number = n]])

Delete_Current(r, id) ==
  Get(r, "Delete", id,
      [AsRead("Delete", id, "delete") EXCEPT
         !.left = {v \in assets[id].versions : v.number = Max(Numbers(assets[id].versions))}])

Delete(r, id) ==
  Get(r, "Delete", id,
      [AsRead("Delete", id, "delete") EXCEPT !.left = assets[id].versions])

(* Suspend, Acivate, AssetChangeState; AssetChangeName writes the state    *)
(* back, too, for UpdateAsync marks every column as modified.              *)
SetState(r, id, s) ==
  LET op == IF s = "Active" THEN "Activate" ELSE "Suspend"
  IN Get(r, op, id, [AsRead(op, id, "update") EXCEPT !.state = s])

AssetChangeName(r, id) == Get(r, "AssetChangeName", id, AsRead("AssetChangeName", id, "update"))

-------------------------------------------------------------------------------
(* ResoveNameIfExists, and StoreFile: SaveFileAsync, GetFileInfoAsync. *)

(* A path where another request is storing a file or has one to delete,    *)
(* one that is recorded though its file is gone, and a made-up name that   *)
(* was made up before.                                                     *)
Contested(r, p) ==
  \/ \E q \in Request \ {r} : Claims(q, p)
  \/ p \in Recorded /\ ~Storage!Exists(p)
  \/ p.ticks # AsUploaded /\ Storage!Exists(p)

Choose(r, p) ==
  /\ request' = [request EXCEPT ![r].pc = "open", ![r].path = p]
  /\ tainted' = IF Contested(r, p) THEN tainted \cup {p} ELSE tainted
  /\ UNCHANGED <<assets, nextId, storage, now, asked, crossed, leaked, halved>>

LookUp_Never(r) ==
  /\ pc(r) = "look" /\ Choose(r, Named(request[r].id, AsUploaded))

LookUp(r) ==
  LET p == Named(request[r].id, AsUploaded)
  IN /\ pc(r) = "look"
     /\ \/ ~Storage!Exists(p) /\ Choose(r, p)
        \/ /\ Storage!Exists(p) /\ At(r, "resolve")
           /\ UNCHANGED <<assets, nextId, storage, now, ghosts>>

Resolve(r) == pc(r) = "resolve" /\ Choose(r, Named(request[r].id, now))

Open(r) ==
  /\ pc(r) = "open"
  /\ \/ Storage!OpenFile(request[r].path) /\ At(r, "write")
     \/ Storage!OpenFails(request[r].path) /\ At(r, "info")
  /\ UNCHANGED <<assets, nextId, now, ghosts>>

Write(r) ==
  LET p == request[r].path
  IN /\ pc(r) = "write" /\ At(r, "info")
     /\ \/ Storage!WriteFile(p, r) /\ UNCHANGED tainted
        \/ Storage!WriteFails(p) /\ tainted' = tainted \cup {p}
     /\ UNCHANGED <<assets, nextId, now, asked, crossed, leaked, halved>>

(* No file, no FileSpec: the NullReferenceException comes when it is       *)
(* recorded, before anything is.                                           *)
FileInfo(r) ==
  /\ pc(r) = "info"
  /\ IF Storage!Exists(request[r].path) THEN At(r, "record") ELSE Over(r, "failed")
  /\ UNCHANGED <<assets, nextId, storage, now, ghosts>>

-------------------------------------------------------------------------------
(* The database, last. *)

(* GetVersion: Single throws unless there is one such version, and a row   *)
(* the first Get has not seen has no FileSpec.  The asset's versions are   *)
(* read again, and join those the context tracks.                          *)
GetVersion(r) ==
  LET id == request[r].id
      hits == IF id \in DOMAIN assets
              THEN {v \in assets[id].versions : v.number = request[r].old.number} ELSE {}
  IN /\ pc(r) = "version"
     /\ \/ \E v \in hits \cap request[r].versions :
              /\ hits = {v}
              /\ request' = [request EXCEPT ![r].pc = "record", ![r].old = v,
                                            ![r].versions = assets[id].versions]
        \/ /\ \A v \in hits : hits # {v} \/ v \notin request[r].versions
           /\ Over(r, "failed")
     /\ UNCHANGED <<assets, nextId, storage, now, ghosts>>

(* Db.Add: one SaveChanges inserts the asset, its version and its file. *)
RecordAsset(r) ==
  LET id == request[r].id
  IN /\ pc(r) = "record" /\ request[r].op = "Create"
     /\ assets' = Put(id, [state |-> "Active", versions |-> {Row(1, request[r].path, r, r)}])
     /\ At(r, "reply")
     /\ UNCHANGED <<nextId, storage, now, ghosts>>

NewRow(r) ==
  LET n == NextVersion(request[r].versions)
      old == request[r].old
  IN IF request[r].op = "RestoreOldVersion"
     THEN Row(n, old.path, old.of, r) ELSE Row(n, request[r].path, r, r)

(* Db.AddVersion: the context goes on tracking the row it read first, and  *)
(* UpdateAsync writes all its columns; but versions are inserted, so those *)
(* of others stay.  Throws if the asset is gone by now.                    *)
WithVersion_Replaced(r) ==
  [state |-> request[r].state, versions |-> request[r].versions \cup {NewRow(r)}]
WithVersion_Active(r) ==
  [state |-> "Active", versions |-> assets[request[r].id].versions \cup {NewRow(r)}]
WithVersion(r) ==
  [state |-> request[r].state, versions |-> assets[request[r].id].versions \cup {NewRow(r)}]

RecordVersion(r) ==
  LET id == request[r].id
  IN /\ pc(r) = "record" /\ request[r].op # "Create"
     /\ IF id \in DOMAIN assets
        THEN assets' = Put(id, WithVersion(r)) /\ At(r, "reply")
        ELSE Over(r, "failed") /\ UNCHANGED assets
     /\ UNCHANGED <<nextId, storage, now, ghosts>>

(* Events.Publish, or the Db.Get a restore answers with. *)
Reply(r) ==
  /\ pc(r) = "reply" /\ Over(r, "done")
  /\ UNCHANGED <<assets, nextId, storage, now, ghosts>>

(* Delete: the file of one version after the other, the same file more     *)
(* than once if versions share it; then the rows, in a cascade.            *)
DeleteFile(r) ==
  /\ pc(r) = "delete"
  /\ \E v \in request[r].left :
       /\ request' = [request EXCEPT ![r].left = @ \ {v}]
       /\ \/ /\ Storage!DeleteFile(v.path) /\ UNCHANGED leaked
             /\ halved' = halved \cup {request[r].id}
          \/ /\ Storage!DeleteFails(v.path) /\ leaked' = leaked \cup {v.path}
             /\ UNCHANGED halved
  /\ UNCHANGED <<assets, nextId, now, asked, crossed, tainted>>

Remove(r) ==
  LET id == request[r].id
      unseen == IF id \in DOMAIN assets THEN assets[id].versions \ request[r].versions ELSE {}
  IN /\ pc(r) = "delete" /\ request[r].left = {} /\ Over(r, "done")
     /\ assets' = Restrict(assets, DOMAIN assets \ {id})
     /\ leaked' = leaked \cup {v.path : v \in unseen}
     /\ UNCHANGED <<nextId, storage, now, asked, crossed, tainted, halved>>

Holding(r, id) == Running(r) /\ request[r].id = id

(* SaveChanges after UpdateAsync: throws if the row is gone. *)
Update(r) ==
  LET id == request[r].id
      sets == request[r].op # "AssetChangeName"
  IN /\ pc(r) = "update"
     /\ IF id \in DOMAIN assets
        THEN /\ assets' = [assets EXCEPT ![id].state = request[r].state]
             /\ asked' = IF sets THEN [asked EXCEPT ![id] = request[r].state] ELSE asked
             /\ crossed' = IF sets /\ \E q \in Request \ {r} : Holding(q, id)
                           THEN crossed \cup {id} ELSE crossed
             /\ Over(r, "done")
        ELSE Over(r, "failed") /\ UNCHANGED <<assets, asked, crossed>>
     /\ UNCHANGED <<nextId, storage, now, tainted, leaked, halved>>

(* The database fails, or a handler of the published event, or the         *)
(* creation of the folder, the one part of SaveFileAsync that may throw.   *)
Throws(r) ==
  /\ pc(r) \in {"open", "version", "record", "delete", "update", "reply"}
  /\ pc(r) = "delete" => request[r].left = {}
  /\ Over(r, "failed")
  /\ UNCHANGED <<assets, nextId, storage, now, ghosts>>

Tick ==
  /\ \E t \in Now : t > now /\ now' = t /\ \A u \in Now : u > now => t <= u
  /\ UNCHANGED <<assets, nextId, storage, request, ghosts>>

-------------------------------------------------------------------------------
Ask(r) ==
  \/ Create(r)
  \/ \E id \in Id :
       \/ AddNewVersion(r, id) \/ Delete(r, id) \/ AssetChangeName(r, id)
       \/ \E n \in 1 .. Cardinality(Request) + 1 : RestoreOldVersion(r, id, n)
       \/ \E s \in AssetState : SetState(r, id, s)

GoOn(r) ==
  \/ LookUp(r) \/ Resolve(r) \/ Open(r) \/ Write(r) \/ FileInfo(r)
  \/ GetVersion(r) \/ RecordAsset(r) \/ RecordVersion(r) \/ Reply(r)
  \/ DeleteFile(r) \/ Remove(r) \/ Update(r) \/ Throws(r)

Next == (\E r \in Request : Ask(r) \/ GoOn(r)) \/ Tick
Spec == Init /\ [][Next]_vars

-------------------------------------------------------------------------------
(* What should hold. *)

Creating(r) ==
  /\ request[r].op = "Create"
  /\ pc(r) \in {"look", "resolve", "open", "write", "info", "record"}

(* A request that is going to write back what it read. *)
Holds(r) ==
  /\ request[r].op \in {"AddNewVersion", "RestoreOldVersion", "AssetChangeName"}
  /\ pc(r) \in {"look", "resolve", "open", "write", "info", "record", "version", "update"}

Contiguous(versions) == \E k \in Numbers(versions) : Numbers(versions) = 1 .. k

(* Versions of an asset are numbered from 1 on, and no number is skipped,  *)
(* however many AddNewVersion and RestoreOldVersion computed theirs from   *)
(* the same row (they may share a number).                                 *)
VersionsHaveNoGap == \A id \in DOMAIN assets : Contiguous(assets[id].versions)

(* The file of a recorded version is there, whole, and the one uploaded    *)
(* for it, whoever uploads and deletes what meanwhile; but for a path that *)
(* was contested when it was chosen (another request was storing a file    *)
(* there, or had one still to delete, if only for the second time), or     *)
(* that could not be written, and for an asset that a Delete has gone at.  *)
RecordedFileIsTheOneUploaded ==
  \A id \in DOMAIN assets \ halved : \A v \in assets[id].versions :
    v.path \notin tainted => Storage!Exists(v.path) /\ files[v.path] = v.of

(* Once no request runs, every file is some version's, but for those of    *)
(* requests that failed and those a Delete could not delete or did not     *)
(* know of.                                                                *)
GarbageIsExplained ==
  (\A r \in Request : ~Running(r)) =>
    \A p \in DOMAIN files :
      \/ p \in Recorded \cup leaked
      \/ \E r \in Request : pc(r) = "failed" /\ request[r].path = p

(* An upload or a restore that was answered is on record, whatever was     *)
(* recorded before or after it, as long as its asset is.                   *)
Stored(r) ==
  /\ request[r].op \in {"Create", "AddNewVersion", "RestoreOldVersion"}
  /\ request[r].id \in DOMAIN assets
  => \E v \in assets[request[r].id].versions : v.by = r

NoAnsweredVersionIsLost == \A r \in Request : pc(r) = "done" => Stored(r)

(* An asset is in the state last asked for, but for one whose state was    *)
(* set while another request had read it and not written it back yet.      *)
StateIsTheOneAskedFor ==
  \A id \in DOMAIN assets \ crossed : assets[id].state = asked[id]

(* Why: an id that is being created was never anyone else's; what a        *)
(* request read of an asset is still there, and is its state unless that   *)
(* was set under way.                                                      *)
IdsAreSpent ==
  /\ DOMAIN assets \subseteq FirstId .. nextId - 1
  /\ \A r \in Request : pc(r) # "idle" => request[r].id < nextId
  /\ \A id \in Id : id >= nextId => asked[id] = "Active"

CreatedIsNew ==
  \A r \in Request : Creating(r) =>
    /\ request[r].id \notin DOMAIN assets /\ asked[request[r].id] = "Active"
    /\ \A q \in Request \ {r} : pc(q) \notin {"idle", "failed"} => request[q].id # request[r].id

HeldIsStillThere ==
  \A r \in Request : Holds(r) =>
    /\ Contiguous(request[r].versions)
    /\ LET id == request[r].id
       IN id \in DOMAIN assets =>
            /\ request[r].versions \subseteq assets[id].versions
            /\ id \notin crossed => request[r].state = asked[id]

RecordedIsStored == \A r \in Request : pc(r) \in {"reply", "done"} => Stored(r)

(* Each step is one of the operation's, and has what it needs. *)
StepsFit ==
  \A r \in Request :
    LET op == request[r].op
    IN /\ pc(r) \in {"look", "resolve", "open", "write", "info"} => op \in {"Create", "AddNewVersion"}
       /\ pc(r) \in {"open", "write", "info"} => request[r].path \in Path
       /\ pc(r) \in {"record", "reply"} => op \in {"Create", "AddNewVersion", "RestoreOldVersion"}
       /\ pc(r) = "record" =>
            IF op = "RestoreOldVersion" THEN request[r].old \in Version ELSE request[r].path \in Path
       /\ pc(r) = "version" => op = "RestoreOldVersion"
       /\ pc(r) = "delete" => op = "Delete"
       /\ pc(r) = "update" => op \in {"Suspend", "Activate", "AssetChangeName"}

(* The inductive invariant. *)
IInv ==
  /\ TypeOK /\ StepsFit /\ IdsAreSpent /\ CreatedIsNew /\ HeldIsStillThere
  /\ VersionsHaveNoGap /\ StateIsTheOneAskedFor /\ RecordedIsStored
===============================================================================
