------------------------------ MODULE AssetsProofs ------------------------------
(***************************************************************************)
(* Proofs about Assets for any number of requests, ids and instants.       *)
(***************************************************************************)
EXTENDS Assets, TLAPS

(* A path in the folder of an id. *)
LEMMA NamedType ==
  ASSUME NEW id \in Id, NEW t \in Now \cup {AsUploaded}
  PROVE  Named(id, t) \in Path
BY DEF Named, Path

LEMMA Constants ==
  /\ FirstId \in Nat /\ LastId \in Nat /\ FirstId \in Id
  /\ Now \subseteq Nat /\ Seed \in Upload /\ Request \subseteq Upload
BY AssetsAssumption DEF Id, Upload

(* What NextVersion computes of versions numbered without a gap. *)
LEMMA NextNumber ==
  ASSUME NEW versions \in SUBSET Version, Contiguous(versions)
  PROVE  \E k \in Nat \ {0} : /\ Numbers(versions) = 1 .. k
                              /\ NextVersion(versions) = k + 1
<1>1. PICK k \in Numbers(versions) : Numbers(versions) = 1 .. k
  BY DEF Contiguous
<1>2. k \in Nat
  BY DEF Numbers, Version
<1>3. k \in Nat \ {0}
  BY <1>1, <1>2
<1>4. Max(1 .. k) = k
  <2>1. k \in 1 .. k /\ \A y \in 1 .. k : k >= y
    BY <1>3
  <2>2. \A x \in 1 .. k : (\A y \in 1 .. k : x >= y) => x = k
    BY <1>3
  <2> QED
    BY <2>1, <2>2 DEF Max
<1> QED
  BY <1>1, <1>3, <1>4 DEF NextVersion

(* A number computed from some of the versions leaves no gap after all.    *)
LEMMA StillContiguous ==
  ASSUME NEW all \in SUBSET Version, NEW some \in SUBSET Version, NEW v \in Version,
         Contiguous(all), Contiguous(some), some \subseteq all,
         v.number = NextVersion(some)
  PROVE  Contiguous(all \cup {v})
<1>1. PICK n \in Nat \ {0} : Numbers(all) = 1 .. n
  BY NextNumber
<1>2. PICK k \in Nat \ {0} : Numbers(some) = 1 .. k /\ v.number = k + 1
  BY NextNumber
<1>3. Numbers(some) \subseteq Numbers(all)
  BY DEF Numbers
<1>4. k <= n
  <2>1. k \in 1 .. k
    BY <1>2
  <2> QED
    BY <1>1, <1>2, <1>3, <2>1
<1>5. Numbers(all \cup {v}) = Numbers(all) \cup {k + 1}
  BY <1>2 DEF Numbers
<1>6. CASE k = n
  <2>0. \A x : x \in (1 .. n) \cup {n + 1} <=> x \in 1 .. n + 1
    BY SMT
  <2>1. Numbers(all \cup {v}) = 1 .. n + 1
    BY <1>1, <1>5, <1>6, <2>0
  <2>2. n + 1 \in 1 .. n + 1
    BY <1>1
  <2> QED
    BY <2>1, <2>2 DEF Contiguous
<1>7. CASE k < n
  <2>0. k + 1 \in 1 .. n /\ n \in 1 .. n
    BY <1>7
  <2>1. Numbers(all \cup {v}) = 1 .. n
    BY <1>1, <1>5, <2>0
  <2> QED
    BY <2>0, <2>1 DEF Contiguous
<1> QED
  BY <1>1, <1>2, <1>4, <1>6, <1>7

-------------------------------------------------------------------------------
(* Types. *)

LEMMA IdleType == Idle \in RequestState
BY Constants, AssetsAssumption
DEF Idle, RequestState, Operation, AssetState, NoVersion, NoPath

(* The asset there is at the start. *)
LEMMA InitRows ==
  ASSUME Init
  PROVE  /\ DOMAIN assets = {FirstId} /\ assets[FirstId] \in AssetRow
         /\ assets[FirstId].state = "Active"
         /\ Contiguous(assets[FirstId].versions)
         /\ assets[FirstId].versions # {}
         /\ \A v \in assets[FirstId].versions :
              v.path = Named(FirstId, AsUploaded) /\ v.of = Seed /\ v.by = Seed
<1> DEFINE p == Named(FirstId, AsUploaded)
<1>2. p \in Path
  BY Constants, NamedType
<1>3. PICK n \in {1, 2} : assets = [i \in {FirstId} |->
        [state |-> "Active", versions |-> {Row(k, p, Seed, Seed) : k \in 1 .. n}]]
  BY DEF Init
<1> HIDE DEF p
<1>4. PICK rows : rows = {Row(k, p, Seed, Seed) : k \in 1 .. n}
  OBVIOUS
<1>5. \A v \in rows : v \in Version /\ v.path = p /\ v.of = Seed /\ v.by = Seed
  BY <1>2, <1>4, Constants DEF Row, Version
<1>6. Numbers(rows) = 1 .. n /\ n \in 1 .. n
  <2>1. \A k : Row(k, p, Seed, Seed).number = k
    BY DEF Row
  <2>2. n \in 1 .. n
    OBVIOUS
  <2> QED
    BY <1>4, <2>1, <2>2 DEF Numbers
<1>7. Contiguous(rows) /\ rows # {}
  BY <1>6 DEF Contiguous, Numbers
<1>8. DOMAIN assets = {FirstId} /\ assets[FirstId] = [state |-> "Active", versions |-> rows]
  BY <1>3, <1>4
<1> QED
  BY <1>5, <1>7, <1>8 DEF AssetRow, AssetState, p

LEMMA TypeInit == Init => TypeOK
<1> SUFFICES ASSUME Init PROVE TypeOK
  OBVIOUS
<1>1. Named(FirstId, AsUploaded) \in Path
  BY Constants, NamedType
<1>2. assets = [i \in DOMAIN assets |-> assets[i]]
  BY DEF Init
<1>3. assets \in [DOMAIN assets -> AssetRow] /\ DOMAIN assets \subseteq Id
  BY <1>2, InitRows, Constants
<1>4. Storage!StorageTypeOK
  BY <1>1, Constants DEF Init, Storage!StorageTypeOK
<1>5. nextId \in FirstId .. LastId + 1
  BY Constants, AssetsAssumption DEF Init
<1>6. request \in [Request -> RequestState] /\ asked \in [Id -> AssetState]
  BY IdleType DEF Init, AssetState
<1> QED
  BY <1>3, <1>4, <1>5, <1>6 DEF Init, TypeOK

(* A request that moves on to another step. *)
LEMMA MoveType ==
  ASSUME TypeOK, NEW r \in Request, NEW p,
         p \in {"resolve", "write", "info", "record", "reply"}
  PROVE  /\ At(r, p) => request' \in [Request -> RequestState]
         /\ [request EXCEPT ![r].pc = p] \in [Request -> RequestState]
BY DEF TypeOK, At, RequestState

LEMMA OverType ==
  ASSUME TypeOK, NEW r \in Request, NEW p \in {"done", "failed"}, Over(r, p)
  PROVE  request' \in [Request -> RequestState]
<1>1. [Idle EXCEPT !.pc = p, !.op = request[r].op, !.id = request[r].id,
                   !.path = request[r].path] \in RequestState
  BY IdleType DEF TypeOK, RequestState
<1> QED
  BY <1>1 DEF TypeOK, Over

(* The first step of an operation on an asset. *)
LEMMA GetType ==
  ASSUME TypeOK, NEW r \in Request, NEW op \in Operation, NEW id \in Id, NEW held,
         id \in DOMAIN assets => held \in RequestState, Get(r, op, id, held)
  PROVE  request' \in [Request -> RequestState]
<1>1. [Idle EXCEPT !.pc = "failed", !.op = op, !.id = id] \in RequestState
  BY IdleType DEF RequestState
<1> QED
  BY <1>1 DEF TypeOK, Get

LEMMA AsReadType ==
  ASSUME TypeOK, NEW op \in Operation, NEW id \in DOMAIN assets,
         NEW next \in {"look", "version", "delete", "update"}
  PROVE  /\ AsRead(op, id, next) \in RequestState
         /\ AsRead(op, id, next).op = op /\ AsRead(op, id, next).id = id
         /\ AsRead(op, id, next).pc = next
         /\ AsRead(op, id, next).state = assets[id].state
         /\ AsRead(op, id, next).versions = assets[id].versions
<1>1. assets[id] \in AssetRow /\ id \in Id
  BY DEF TypeOK
<1> QED
  BY <1>1, IdleType DEF AsRead, RequestState, AssetRow, Idle

LEMMA PathsOf ==
  ASSUME NEW versions \in SUBSET Version
  PROVE  {v.path : v \in versions} \subseteq Path
BY DEF Version

(* What each kind of version row is. *)
LEMMA NewRowType ==
  ASSUME TypeOK, StepsFit, HeldIsStillThere, NEW r \in Request, pc(r) = "record",
         request[r].op # "Create"
  PROVE  /\ NewRow(r) \in Version /\ NewRow(r).by = r
         /\ NewRow(r).number = NextVersion(request[r].versions)
<1>1. Contiguous(request[r].versions) /\ request[r] \in RequestState
  BY DEF HeldIsStillThere, Holds, TypeOK, StepsFit
<1>2. request[r].versions \in SUBSET Version
  BY <1>1 DEF RequestState
<1>3. NextVersion(request[r].versions) \in Nat
  BY <1>1, <1>2, NextNumber
<1>4. CASE request[r].op = "RestoreOldVersion"
  BY <1>3, <1>4, Constants DEF NewRow, Row, Version, StepsFit
<1>5. CASE request[r].op = "AddNewVersion"
  BY <1>3, <1>5, Constants DEF NewRow, Row, Version, StepsFit
<1> QED
  BY <1>4, <1>5 DEF StepsFit

-------------------------------------------------------------------------------
(* Every step keeps the types. *)

LEMMA TypeAsk ==
  ASSUME TypeOK, IdsAreSpent, NEW r \in Request, Ask(r)
  PROVE  TypeOK'
<1>1. CASE Create(r)
  <2>1. nextId \in Id /\ nextId + 1 \in FirstId .. LastId + 1
    BY <1>1, AssetsAssumption DEF TypeOK, Create, Id
  <2>2. [Idle EXCEPT !.pc = "look", !.id = nextId] \in RequestState
    BY <2>1, IdleType DEF RequestState
  <2>3. request' \in [Request -> RequestState]
    BY <1>1, <2>2 DEF TypeOK, Create
  <2> QED
    BY <1>1, <2>1, <2>3
    DEF TypeOK, Create, storage, ghosts, Storage!StorageTypeOK
<1>2. ASSUME NEW op \in Operation, NEW id \in Id, NEW held, Get(r, op, id, held),
             id \in DOMAIN assets => held \in RequestState
      PROVE  TypeOK'
  <2>1. request' \in [Request -> RequestState]
    BY <1>2, GetType
  <2> QED
    BY <1>2, <2>1 DEF TypeOK, Get, storage, ghosts, Storage!StorageTypeOK
<1>3. ASSUME NEW id \in Id, AddNewVersion(r, id) PROVE TypeOK'
  BY <1>2, <1>3, AsReadType DEF AddNewVersion, Operation
<1>4. ASSUME NEW id \in Id, AssetChangeName(r, id) PROVE TypeOK'
  BY <1>2, <1>4, AsReadType DEF AssetChangeName, Operation
<1>5. ASSUME NEW id \in Id, Delete(r, id) PROVE TypeOK'
  <2> DEFINE held == [AsRead("Delete", id, "delete") EXCEPT
                        !.left = assets[id].versions]
  <2>1. ASSUME id \in DOMAIN assets PROVE held \in RequestState
    <3>1. AsRead("Delete", id, "delete") \in RequestState
      BY <2>1, AsReadType DEF Operation
    <3>2. assets[id].versions \in SUBSET Version
      BY <2>1 DEF TypeOK, AssetRow
    <3> QED
      BY <3>1, <3>2 DEF RequestState
  <2> QED
    BY <1>2, <1>5, <2>1 DEF Delete, Operation
<1>6. ASSUME NEW id \in Id, NEW n \in Nat, RestoreOldVersion(r, id, n) PROVE TypeOK'
  <2> DEFINE held == [AsRead("RestoreOldVersion", id, "version") EXCEPT
                        !.old = [NoVersion EXCEPT !.number = n]]
  <2>1. ASSUME id \in DOMAIN assets PROVE held \in RequestState
    <3>1. AsRead("RestoreOldVersion", id, "version") \in RequestState
      BY <2>1, AsReadType DEF Operation
    <3>2. [NoVersion EXCEPT !.number = n]
            \in [number : Nat, path : Path \cup {NoPath}, of : Upload, by : Upload]
      BY Constants DEF NoVersion
    <3> QED
      BY <3>1, <3>2 DEF RequestState
  <2> QED
    BY <1>2, <1>6, <2>1 DEF RestoreOldVersion, Operation
<1>7. ASSUME NEW id \in Id, NEW s \in AssetState, SetState(r, id, s) PROVE TypeOK'
  <2> DEFINE op == IF s = "Active" THEN "Activate" ELSE "Suspend"
             held == [AsRead(op, id, "update") EXCEPT !.state = s]
  <2>0. op \in Operation
    BY DEF Operation
  <2>1. ASSUME id \in DOMAIN assets PROVE held \in RequestState
    <3>1. AsRead(op, id, "update") \in RequestState
      BY <2>0, <2>1, AsReadType
    <3> QED
      BY <3>1 DEF RequestState
  <2>2. Get(r, op, id, held)
    BY <1>7 DEF SetState
  <2> HIDE DEF op, held
  <2> QED
    BY <1>2, <2>0, <2>1, <2>2
<1>8. \A n \in 1 .. Cardinality(Request) + 1 : n \in Nat
  OBVIOUS
<1> QED
  BY <1>1, <1>3, <1>4, <1>5, <1>6, <1>7, <1>8 DEF Ask

(* The files a step of the storage leaves. *)
LEMMA StorageStepType ==
  ASSUME Storage!StorageTypeOK, NEW p \in Path, NEW w \in Upload,
         \/ Storage!OpenFile(p) \/ Storage!OpenFails(p) \/ Storage!WriteFile(p, w)
         \/ Storage!WriteFails(p) \/ Storage!DeleteFile(p) \/ Storage!DeleteFails(p)
  PROVE  Storage!StorageTypeOK'
<1>1. ASSUME NEW content \in Upload \cup {Truncated}, files' = Storage!With(p, content),
             opened' \in SUBSET Path
      PROVE  Storage!StorageTypeOK'
  BY <1>1 DEF Storage!StorageTypeOK, Storage!With
<1>2. CASE Storage!OpenFile(p)
  BY <1>1, <1>2 DEF Storage!OpenFile, Storage!StorageTypeOK
<1>3. CASE Storage!WriteFile(p, w)
  BY <1>1, <1>3 DEF Storage!WriteFile, Storage!StorageTypeOK
<1>4. CASE Storage!DeleteFile(p)
  BY <1>4 DEF Storage!DeleteFile, Storage!StorageTypeOK, Restrict, Storage!Restrict
<1>5. CASE Storage!WriteFails(p)
  BY <1>5 DEF Storage!WriteFails, Storage!StorageTypeOK
<1>6. CASE Storage!OpenFails(p) \/ Storage!DeleteFails(p)
  BY <1>6 DEF Storage!OpenFails, Storage!DeleteFails, Storage!StorageTypeOK, Storage!storage
<1> QED
  BY <1>2, <1>3, <1>4, <1>5, <1>6

LEMMA PutType ==
  ASSUME TypeOK, NEW id \in Id, NEW row \in AssetRow, assets' = Put(id, row)
  PROVE  /\ assets' \in [DOMAIN assets' -> AssetRow] /\ DOMAIN assets' \subseteq Id
         /\ DOMAIN assets' = DOMAIN assets \cup {id} /\ assets'[id] = row
         /\ \A i \in DOMAIN assets \ {id} : assets'[i] = assets[i]
BY DEF TypeOK, Put

(* The rows a version is added to. *)
LEMMA WithVersionType ==
  ASSUME TypeOK, StepsFit, HeldIsStillThere, NEW r \in Request, pc(r) = "record",
         request[r].op # "Create", request[r].id \in DOMAIN assets
  PROVE  WithVersion(r) \in AssetRow
<1>1. NewRow(r) \in Version
  BY NewRowType
<1>2. assets[request[r].id] \in AssetRow /\ request[r] \in RequestState
  BY DEF TypeOK
<1> QED
  BY <1>1, <1>2 DEF WithVersion, AssetRow, RequestState

(* The version to restore is found, or the request fails. *)
HitIs(r, v) ==
  request' = [request EXCEPT ![r].pc = "record", ![r].old = v,
                             ![r].versions = assets[request[r].id].versions]

LEMMA GetVersionIs ==
  ASSUME NEW r \in Request, GetVersion(r)
  PROVE  /\ UNCHANGED <<assets, nextId, storage, now, ghosts>> /\ pc(r) = "version"
         /\ \/ Over(r, "failed")
            \/ /\ request[r].id \in DOMAIN assets
               /\ \E v \in request[r].versions : v \in assets[request[r].id].versions /\ HitIs(r, v)
BY DEF GetVersion, HitIs

(* What it goes on with. *)
LEMMA HitLeaves ==
  ASSUME TypeOK, NEW r \in Request, NEW v, HitIs(r, v)
  PROVE  /\ \A q \in Request \ {r} : request'[q] = request[q]
         /\ request'[r].pc = "record" /\ request'[r].old = v
         /\ request'[r].op = request[r].op /\ request'[r].id = request[r].id
         /\ request'[r].versions = assets[request[r].id].versions
         /\ request'[r].state = request[r].state
         /\ request'[r].path = request[r].path /\ request'[r].left = request[r].left
BY DEF HitIs, TypeOK, RequestState

LEMMA TypeGoOn ==
  ASSUME TypeOK, StepsFit, HeldIsStillThere, NEW r \in Request, GoOn(r)
  PROVE  TypeOK'
<1> USE DEF storage, ghosts
<1>0. /\ request[r] \in RequestState /\ request[r].id \in Id /\ request[r].left \in SUBSET Version
      /\ Storage!StorageTypeOK /\ r \in Upload
  BY Constants DEF TypeOK, RequestState
<1>1. ASSUME NEW p \in Path, Choose(r, p) PROVE TypeOK'
  <2>0. [request[r] EXCEPT !.pc = "open", !.path = p] \in RequestState
    BY <1>0, <1>1 DEF RequestState
  <2>1. request' \in [Request -> RequestState]
    BY <1>1, <2>0 DEF TypeOK, Choose
  <2> QED
    BY <1>1, <2>1 DEF TypeOK, Choose, Storage!StorageTypeOK
<1>2. CASE LookUp(r)
  <2>1. Named(request[r].id, AsUploaded) \in Path
    BY <1>0, NamedType
  <2>2. ASSUME At(r, "resolve"), UNCHANGED <<assets, nextId, storage, now, ghosts>>
        PROVE  TypeOK'
    <3>1. request' \in [Request -> RequestState]
      BY <2>2, MoveType
    <3> QED
      BY <2>2, <3>1 DEF TypeOK, Storage!StorageTypeOK
  <2> QED
    BY <1>1, <1>2, <2>1, <2>2 DEF LookUp
<1>3. CASE Resolve(r)
  <2>1. Named(request[r].id, now) \in Path
    BY <1>0, NamedType DEF TypeOK
  <2> QED
    BY <1>1, <1>3, <2>1 DEF Resolve
<1>4. CASE Open(r)
  <2>1. request' \in [Request -> RequestState]
    BY <1>4, MoveType DEF Open
  <2>2. Storage!StorageTypeOK'
    BY <1>0, <1>4, StorageStepType DEF Open, StepsFit
  <2> QED
    BY <1>4, <2>1, <2>2 DEF TypeOK, Open
<1>5. CASE Write(r)
  <2>0. request[r].path \in Path
    BY <1>5 DEF Write, StepsFit
  <2>1. request' \in [Request -> RequestState]
    BY <1>5, MoveType DEF Write
  <2>2. Storage!StorageTypeOK'
    BY <1>0, <1>5, <2>0, StorageStepType DEF Write
  <2> QED
    BY <1>5, <2>0, <2>1, <2>2 DEF TypeOK, Write
<1>6. CASE FileInfo(r)
  <2>1. request' \in [Request -> RequestState]
    BY <1>6, MoveType, OverType DEF FileInfo
  <2> QED
    BY <1>6, <2>1 DEF TypeOK, FileInfo, Storage!StorageTypeOK
<1>7. CASE GetVersion(r)
  <2>1. ASSUME request[r].id \in DOMAIN assets, NEW v \in request[r].versions, HitIs(r, v)
        PROVE  request' \in [Request -> RequestState]
    <3>1. assets[request[r].id].versions \in SUBSET Version
      BY <2>1 DEF TypeOK, AssetRow
    <3> QED
      BY <1>0, <2>1, <3>1 DEF TypeOK, RequestState, Version, HitIs
  <2>2. request' \in [Request -> RequestState]
    BY <1>7, <2>1, OverType, GetVersionIs
  <2> QED
    BY <1>7, <2>2 DEF TypeOK, GetVersion, Storage!StorageTypeOK
<1>8. CASE RecordAsset(r)
  <2> DEFINE row == [state |-> "Active", versions |-> {Row(1, request[r].path, r, r)}]
  <2>1. row \in AssetRow
    BY <1>0, <1>8 DEF RecordAsset, StepsFit, AssetRow, AssetState, Row, Version
  <2>2. assets' \in [DOMAIN assets' -> AssetRow] /\ DOMAIN assets' \subseteq Id
    BY <1>0, <1>8, <2>1, PutType DEF RecordAsset
  <2>3. request' \in [Request -> RequestState]
    BY <1>8, MoveType DEF RecordAsset
  <2> QED
    BY <1>8, <2>2, <2>3 DEF TypeOK, RecordAsset, Storage!StorageTypeOK
<1>9. CASE RecordVersion(r)
  <2>1. assets' \in [DOMAIN assets' -> AssetRow] /\ DOMAIN assets' \subseteq Id
    <3>1. CASE request[r].id \in DOMAIN assets
      BY <1>0, <1>9, <3>1, WithVersionType, PutType DEF RecordVersion
    <3>2. CASE request[r].id \notin DOMAIN assets
      BY <1>9, <3>2 DEF RecordVersion, TypeOK
    <3> QED
      BY <3>1, <3>2
  <2>2. request' \in [Request -> RequestState]
    BY <1>9, MoveType, OverType DEF RecordVersion
  <2> QED
    BY <1>9, <2>1, <2>2 DEF TypeOK, RecordVersion, Storage!StorageTypeOK
<1>10. CASE Reply(r) \/ Throws(r)
  <2>1. request' \in [Request -> RequestState]
    BY <1>10, OverType DEF Reply, Throws
  <2> QED
    BY <1>10, <2>1 DEF TypeOK, Reply, Throws, Storage!StorageTypeOK
<1>11. CASE DeleteFile(r)
  <2>1. PICK v \in request[r].left :
          /\ request' = [request EXCEPT ![r].left = @ \ {v}]
          /\ \/ /\ Storage!DeleteFile(v.path) /\ UNCHANGED leaked
                /\ halved' = halved \cup {request[r].id}
             \/ /\ Storage!DeleteFails(v.path) /\ leaked' = leaked \cup {v.path}
                /\ UNCHANGED halved
    BY <1>11 DEF DeleteFile
  <2>2. request' \in [Request -> RequestState]
    BY <2>1 DEF TypeOK, RequestState
  <2>0. v.path \in Path
    BY <1>0, <2>1 DEF Version
  <2>3. Storage!StorageTypeOK'
    BY <1>0, <2>0, <2>1, StorageStepType
  <2>4. halved' \in SUBSET Id /\ leaked' \in SUBSET Path
    BY <1>0, <2>0, <2>1 DEF TypeOK
  <2> QED
    BY <1>11, <2>2, <2>3, <2>4 DEF TypeOK, DeleteFile
<1>12. CASE Remove(r)
  <2>1. request' \in [Request -> RequestState]
    BY <1>12, OverType DEF Remove
  <2>2. assets' \in [DOMAIN assets' -> AssetRow] /\ DOMAIN assets' \subseteq Id
    BY <1>12 DEF TypeOK, Remove, Restrict
  <2>3. leaked' \in SUBSET Path
    <3>1. CASE request[r].id \in DOMAIN assets
      <4>1. assets[request[r].id].versions \ request[r].versions \in SUBSET Version
        BY <3>1 DEF TypeOK, AssetRow
      <4> QED
        BY <1>12, <3>1, <4>1, PathsOf DEF TypeOK, Remove
    <3>2. CASE request[r].id \notin DOMAIN assets
      BY <1>12, <3>2 DEF TypeOK, Remove
    <3> QED
      BY <3>1, <3>2
  <2> QED
    BY <1>12, <2>1, <2>2, <2>3 DEF TypeOK, Remove, Storage!StorageTypeOK
<1>13. CASE Update(r)
  <2>1. request' \in [Request -> RequestState]
    BY <1>13, OverType DEF Update
  <2>2. assets' \in [DOMAIN assets' -> AssetRow] /\ DOMAIN assets' \subseteq Id
    BY <1>0, <1>13 DEF TypeOK, Update, AssetRow, RequestState
  <2>3. asked' \in [Id -> AssetState] /\ crossed' \in SUBSET Id
    BY <1>0, <1>13 DEF TypeOK, Update, RequestState
  <2> QED
    BY <1>13, <2>1, <2>2, <2>3 DEF TypeOK, Update, Storage!StorageTypeOK
<1> QED
  BY <1>2, <1>3, <1>4, <1>5, <1>6, <1>7, <1>8, <1>9, <1>10, <1>11, <1>12, <1>13 DEF GoOn

-------------------------------------------------------------------------------
(* The other conjuncts. *)

(* A step of r that changes no row and forgets no claim: r goes on to a    *)
(* later step of its operation, or is over.                                *)
MovesOn(r) ==
  /\ UNCHANGED <<assets, nextId, asked, crossed>>
  /\ \A q \in Request \ {r} : request'[q] = request[q]
  /\ request'[r].op = request[r].op /\ request'[r].id = request[r].id
  /\ pc(r) \notin {"idle", "done", "failed"}
  /\ Creating(r)' => Creating(r)
  /\ Holds(r)' =>
       /\ Holds(r) /\ request'[r].state = request[r].state
       /\ \/ request'[r].versions = request[r].versions
          \/ /\ request[r].id \in DOMAIN assets
             /\ request'[r].versions = assets[request[r].id].versions
  /\ pc(r)' \in {"reply", "done"} => pc(r) = "reply" \/ request[r].op = "Delete"

Rest ==
  /\ IdsAreSpent /\ CreatedIsNew /\ HeldIsStillThere
  /\ VersionsHaveNoGap /\ StateIsTheOneAskedFor /\ RecordedIsStored

LEMMA MovesOnKeeps ==
  ASSUME Rest, NEW r \in Request, MovesOn(r)
  PROVE  Rest'
<1> USE DEF Rest, MovesOn
<1>1. IdsAreSpent'
  BY DEF IdsAreSpent, pc
<1>2. CreatedIsNew'
  <2> SUFFICES ASSUME NEW s \in Request, Creating(s)'
               PROVE  /\ request'[s].id \notin DOMAIN assets
                      /\ asked[request'[s].id] = "Active"
                      /\ \A q \in Request \ {s} :
                           pc(q)' \notin {"idle", "failed"} => request'[q].id # request'[s].id
    BY DEF CreatedIsNew
  <2>1. Creating(s) /\ request'[s].id = request[s].id
    BY DEF Creating, pc
  <2>2. ASSUME NEW q \in Request \ {s}, pc(q)' \notin {"idle", "failed"}
        PROVE  request'[q].id = request[q].id /\ pc(q) \notin {"idle", "failed"}
    BY <2>2 DEF pc
  <2> QED
    BY <2>1, <2>2 DEF CreatedIsNew
<1>3. HeldIsStillThere'
  <2> SUFFICES ASSUME NEW s \in Request, Holds(s)'
               PROVE  /\ Contiguous(request'[s].versions)
                      /\ request'[s].id \in DOMAIN assets =>
                           /\ request'[s].versions \subseteq assets[request'[s].id].versions
                           /\ request'[s].id \notin crossed =>
                                request'[s].state = asked[request'[s].id]
    BY DEF HeldIsStillThere, Contiguous, Numbers
  <2>1. /\ Holds(s) /\ request'[s].id = request[s].id /\ request'[s].state = request[s].state
        /\ \/ request'[s].versions = request[s].versions
           \/ /\ request[s].id \in DOMAIN assets
              /\ request'[s].versions = assets[request[s].id].versions
    BY DEF Holds, pc
  <2> QED
    BY <2>1 DEF HeldIsStillThere, VersionsHaveNoGap
<1>4. VersionsHaveNoGap' /\ StateIsTheOneAskedFor'
  BY DEF VersionsHaveNoGap, StateIsTheOneAskedFor, Contiguous, Numbers
<1>5. RecordedIsStored'
  BY DEF RecordedIsStored, Stored, pc
<1> QED
  BY <1>1, <1>2, <1>3, <1>4, <1>5

LEMMA OverMovesOn ==
  ASSUME TypeOK, NEW r \in Request, NEW p \in {"done", "failed"}, Over(r, p),
         UNCHANGED <<assets, nextId, asked, crossed>>,
         pc(r) \notin {"idle", "done", "failed"},
         p = "done" => pc(r) = "reply"
  PROVE  MovesOn(r)
BY DEF Over, MovesOn, Creating, Holds, Idle, TypeOK, RequestState, pc

(* The steps that are such. *)
LEMMA QuietSteps ==
  ASSUME TypeOK, StepsFit, NEW r \in Request,
         \/ LookUp(r) \/ Resolve(r) \/ Open(r) \/ Write(r) \/ FileInfo(r)
         \/ GetVersion(r) \/ Reply(r) \/ DeleteFile(r) \/ Throws(r)
  PROVE  MovesOn(r)
<1> USE DEF storage, ghosts, pc
<1>0. request[r] \in RequestState /\ request \in [Request -> RequestState]
  BY DEF TypeOK
<1>1. ASSUME NEW p \in {"done", "failed"}, Over(r, p), UNCHANGED <<assets, nextId, asked, crossed>>,
             pc(r) \notin {"idle", "done", "failed"},
             p = "done" => pc(r) = "reply"
      PROVE  MovesOn(r)
  BY <1>1, OverMovesOn
<1>2. ASSUME NEW rec, request' = [request EXCEPT ![r] = rec],
             UNCHANGED <<assets, nextId, asked, crossed>>,
             rec.op = request[r].op, rec.id = request[r].id,
             rec.versions = request[r].versions, rec.state = request[r].state,
             pc(r) \in {"look", "resolve", "open", "write", "info", "version"},
             rec.pc \in {"look", "resolve", "open", "write", "info", "record"},
             pc(r) = "version" => request[r].op = "RestoreOldVersion"
      PROVE  MovesOn(r)
  BY <1>0, <1>2 DEF MovesOn, Creating, Holds, TypeOK, RequestState
<1>3. ASSUME NEW p, Choose(r, p), pc(r) \in {"look", "resolve"} PROVE MovesOn(r)
  BY <1>0, <1>2, <1>3 DEF Choose, RequestState
<1>4. ASSUME NEW p \in {"resolve", "write", "info", "record"}, At(r, p),
             UNCHANGED <<assets, nextId, asked, crossed>>,
             pc(r) \in {"look", "open", "write", "info"}
      PROVE  MovesOn(r)
  BY <1>0, <1>2, <1>4 DEF At, RequestState
<1>5. CASE LookUp(r)
  BY <1>3, <1>4, <1>5 DEF LookUp
<1>6. CASE Resolve(r)
  BY <1>3, <1>6 DEF Resolve
<1>7. CASE Open(r) \/ Write(r) \/ FileInfo(r)
  BY <1>1, <1>4, <1>7 DEF Open, Write, FileInfo
<1>8. CASE GetVersion(r)
  <2>1. /\ request[r].op = "RestoreOldVersion" /\ pc(r) = "version"
        /\ UNCHANGED <<assets, nextId, asked, crossed>>
    BY <1>8 DEF GetVersion, StepsFit
  <2>2. ASSUME request[r].id \in DOMAIN assets, NEW v, HitIs(r, v) PROVE MovesOn(r)
    BY <2>1, <2>2, HitLeaves DEF MovesOn, Creating, Holds
  <2> QED
    BY <1>1, <1>8, <2>1, <2>2, GetVersionIs
<1>9. CASE Reply(r) \/ Throws(r)
  BY <1>1, <1>9 DEF Reply, Throws
<1>10. CASE DeleteFile(r)
  <2>1. PICK v : request' = [request EXCEPT ![r].left = @ \ {v}]
    BY <1>10 DEF DeleteFile
  <2>2. request[r].op = "Delete" /\ pc(r) = "delete"
    BY <1>10 DEF DeleteFile, StepsFit
  <2> QED
    BY <1>0, <1>10, <2>1, <2>2 DEF DeleteFile, MovesOn, Creating, Holds, RequestState
<1> QED
  BY <1>5, <1>6, <1>7, <1>8, <1>9, <1>10

-------------------------------------------------------------------------------
(* The steps that read or write rows. *)

LEMMA CreateKeeps ==
  ASSUME TypeOK, Rest, NEW r \in Request, Create(r)
  PROVE  Rest'
<1> USE DEF pc
<1> DEFINE new == [Idle EXCEPT !.pc = "look", !.id = nextId]
<1>1. /\ request' = [request EXCEPT ![r] = new]
      /\ new.pc = "look" /\ new.op = "Create" /\ new.id = nextId
      /\ nextId' = nextId + 1 /\ UNCHANGED <<assets, asked, crossed>>
  BY DEF Create, ghosts, Idle
<1>2. /\ request'[r] = new /\ \A q \in Request \ {r} : request'[q] = request[q]
      /\ nextId \in Id /\ nextId \in Int
  BY <1>1, AssetsAssumption DEF TypeOK, Create, Id
<1> HIDE DEF new
<1>3. IdsAreSpent'
  BY <1>1, <1>2 DEF Rest, IdsAreSpent, TypeOK, RequestState, Id
<1>4. CreatedIsNew'
  <2> SUFFICES ASSUME NEW s \in Request, Creating(s)'
               PROVE  /\ request'[s].id \notin DOMAIN assets
                      /\ asked[request'[s].id] = "Active"
                      /\ \A q \in Request \ {s} :
                           pc(q)' \notin {"idle", "failed"} => request'[q].id # request'[s].id
    BY <1>1 DEF CreatedIsNew
  <2>1. CASE s = r
    BY <1>1, <1>2, <2>1 DEF Rest, IdsAreSpent, TypeOK
  <2>2. CASE s # r
    BY <1>1, <1>2, <2>2 DEF Rest, IdsAreSpent, CreatedIsNew, Creating
  <2> QED
    BY <2>1, <2>2
<1>5. HeldIsStillThere'
  <2> SUFFICES ASSUME NEW s \in Request, Holds(s)'
               PROVE  /\ Contiguous(request'[s].versions)
                      /\ request'[s].id \in DOMAIN assets =>
                           /\ request'[s].versions \subseteq assets[request'[s].id].versions
                           /\ request'[s].id \notin crossed =>
                                request'[s].state = asked[request'[s].id]
    BY <1>1 DEF HeldIsStillThere, Contiguous, Numbers
  <2>1. s # r /\ Holds(s)
    BY <1>1, <1>2 DEF Holds
  <2> QED
    BY <1>2, <2>1 DEF Rest, HeldIsStillThere
<1>6. VersionsHaveNoGap' /\ StateIsTheOneAskedFor'
  BY <1>1 DEF Rest, VersionsHaveNoGap, StateIsTheOneAskedFor, Contiguous, Numbers
<1>7. RecordedIsStored'
  BY <1>1, <1>2 DEF Rest, RecordedIsStored, Stored
<1> QED
  BY <1>3, <1>4, <1>5, <1>6, <1>7 DEF Rest

(* A request that reads an asset holds it as it is. *)
LEMMA GetKeeps ==
  ASSUME TypeOK, Rest, NEW r \in Request, NEW op \in Operation, NEW id \in Id, NEW held,
         Get(r, op, id, held), op # "Create",
         id \in DOMAIN assets =>
           /\ held.op = op /\ held.id = id
           /\ held.pc \in {"look", "version", "delete", "update"}
           /\ op \in {"AddNewVersion", "RestoreOldVersion", "AssetChangeName"} =>
                held.versions = assets[id].versions /\ held.state = assets[id].state
  PROVE  Rest'
<1> USE DEF pc
<1>0. /\ UNCHANGED <<assets, nextId, asked, crossed>> /\ id < nextId /\ id \in Int
      /\ \A q \in Request \ {r} : request'[q] = request[q]
      /\ request'[r].id = id /\ request'[r].op = op
      /\ request'[r].pc \in {"look", "version", "delete", "update", "failed"}
      /\ id \in DOMAIN assets => request'[r] = held
      /\ id \notin DOMAIN assets => request'[r].pc = "failed"
  <2>1. UNCHANGED <<assets, nextId, asked, crossed>> /\ id < nextId /\ id \in Int
    BY DEF Get, ghosts, Id, TypeOK
  <2>2. CASE id \in DOMAIN assets
    BY <2>1, <2>2 DEF Get, TypeOK
  <2>3. CASE id \notin DOMAIN assets
    BY <2>1, <2>3 DEF Get, TypeOK, Idle
  <2> QED
    BY <2>1, <2>2, <2>3
<1>1. IdsAreSpent'
  BY <1>0 DEF Rest, IdsAreSpent
<1>2. CreatedIsNew'
  <2> SUFFICES ASSUME NEW s \in Request, Creating(s)'
               PROVE  /\ request'[s].id \notin DOMAIN assets
                      /\ asked[request'[s].id] = "Active"
                      /\ \A q \in Request \ {s} :
                           pc(q)' \notin {"idle", "failed"} => request'[q].id # request'[s].id
    BY <1>0 DEF CreatedIsNew
  <2>1. s # r /\ Creating(s)
    BY <1>0 DEF Creating
  <2>2. pc(r)' # "failed" => id \in DOMAIN assets
    BY <1>0
  <2> QED
    BY <1>0, <2>1, <2>2 DEF Rest, CreatedIsNew
<1>3. HeldIsStillThere'
  <2> SUFFICES ASSUME NEW s \in Request, Holds(s)'
               PROVE  /\ Contiguous(request'[s].versions)
                      /\ request'[s].id \in DOMAIN assets =>
                           /\ request'[s].versions \subseteq assets[request'[s].id].versions
                           /\ request'[s].id \notin crossed =>
                                request'[s].state = asked[request'[s].id]
    BY <1>0 DEF HeldIsStillThere, Contiguous, Numbers
  <2>1. CASE s # r
    BY <1>0, <2>1 DEF Rest, HeldIsStillThere, Holds
  <2>2. CASE s = r
    BY <1>0, <2>2 DEF Rest, VersionsHaveNoGap, StateIsTheOneAskedFor, Holds
  <2> QED
    BY <2>1, <2>2
<1>4. VersionsHaveNoGap' /\ StateIsTheOneAskedFor'
  BY <1>0 DEF Rest, VersionsHaveNoGap, StateIsTheOneAskedFor, Contiguous, Numbers
<1>5. RecordedIsStored'
  BY <1>0 DEF Rest, RecordedIsStored, Stored
<1> QED
  BY <1>1, <1>2, <1>3, <1>4, <1>5 DEF Rest

LEMMA AskKeeps ==
  ASSUME TypeOK, Rest, NEW r \in Request, Ask(r)
  PROVE  Rest'
<1>1. CASE Create(r)
  BY <1>1, CreateKeeps
<1>2. ASSUME NEW id \in Id, AddNewVersion(r, id) PROVE Rest'
  BY <1>2, GetKeeps, AsReadType DEF AddNewVersion, Operation
<1>3. ASSUME NEW id \in Id, AssetChangeName(r, id) PROVE Rest'
  BY <1>3, GetKeeps, AsReadType DEF AssetChangeName, Operation
<1>4. ASSUME NEW id \in Id, Delete(r, id) PROVE Rest'
  <2> DEFINE held == [AsRead("Delete", id, "delete") EXCEPT
                        !.left = assets[id].versions]
  <2>1. id \in DOMAIN assets => held.op = "Delete" /\ held.id = id /\ held.pc = "delete"
    BY DEF AsRead, Idle
  <2>2. Get(r, "Delete", id, held) /\ "Delete" \in Operation
    BY <1>4 DEF Delete, Operation
  <2> HIDE DEF held
  <2> QED
    BY <2>1, <2>2, GetKeeps
<1>5. ASSUME NEW id \in Id, NEW n \in Nat, RestoreOldVersion(r, id, n) PROVE Rest'
  <2> DEFINE held == [AsRead("RestoreOldVersion", id, "version") EXCEPT
                        !.old = [NoVersion EXCEPT !.number = n]]
  <2>1. id \in DOMAIN assets =>
          /\ held.op = "RestoreOldVersion" /\ held.id = id /\ held.pc = "version"
          /\ held.versions = assets[id].versions /\ held.state = assets[id].state
    BY DEF AsRead, Idle
  <2>2. Get(r, "RestoreOldVersion", id, held) /\ "RestoreOldVersion" \in Operation
    BY <1>5 DEF RestoreOldVersion, Operation
  <2> HIDE DEF held
  <2> QED
    BY <2>1, <2>2, GetKeeps
<1>6. ASSUME NEW id \in Id, NEW s \in AssetState, SetState(r, id, s) PROVE Rest'
  <2> DEFINE op == IF s = "Active" THEN "Activate" ELSE "Suspend"
             held == [AsRead(op, id, "update") EXCEPT !.state = s]
  <2>1. held.op = op /\ held.id = id /\ held.pc = "update"
    BY DEF AsRead, Idle
  <2>2. Get(r, op, id, held) /\ op \in {"Activate", "Suspend"} /\ op \in Operation
    BY <1>6 DEF SetState, Operation
  <2> HIDE DEF op, held
  <2> QED
    BY <2>1, <2>2, GetKeeps
<1>7. \A n \in 1 .. Cardinality(Request) + 1 : n \in Nat
  OBVIOUS
<1> QED
  BY <1>1, <1>2, <1>3, <1>4, <1>5, <1>6, <1>7 DEF Ask

(* Rows are written: what the requests hold of other assets is untouched.  *)
LEMMA RecordAssetKeeps ==
  ASSUME TypeOK, StepsFit, Rest, NEW r \in Request, RecordAsset(r)
  PROVE  Rest'
<1> USE DEF pc
<1> DEFINE id == request[r].id
           row == [state |-> "Active", versions |-> {Row(1, request[r].path, r, r)}]
<1>1. /\ request[r] \in RequestState /\ id \in Id /\ id \in Int /\ Creating(r)
      /\ UNCHANGED <<nextId, asked, crossed>>
      /\ \A q \in Request \ {r} : request'[q] = request[q]
      /\ request'[r].pc = "reply" /\ request'[r].op = "Create" /\ request'[r].id = id
  BY DEF RecordAsset, TypeOK, RequestState, Creating, At, ghosts, Id
<1>2. row \in AssetRow
  BY <1>1, Constants DEF RecordAsset, StepsFit, AssetRow, AssetState, Row, Version
<1>3. /\ DOMAIN assets' = DOMAIN assets \cup {id} /\ assets'[id] = row
      /\ \A i \in DOMAIN assets \ {id} : assets'[i] = assets[i]
  BY <1>1, <1>2, PutType DEF RecordAsset
<1>4. id \notin DOMAIN assets /\ asked[id] = "Active"
      /\ \A q \in Request \ {r} : pc(q) \notin {"idle", "failed"} => request[q].id # id
  BY <1>1 DEF Rest, CreatedIsNew
<1>5. row.state = "Active" /\ Contiguous(row.versions) /\ \E v \in row.versions : v.by = r
  <2>1. Numbers(row.versions) = {1} /\ {1} = 1 .. 1
    BY DEF Numbers, Row
  <2> QED
    BY <2>1 DEF Contiguous, Row
<1> HIDE DEF row, id
<1>6. IdsAreSpent'
  <2>0. request[r].id < nextId /\ nextId \in Int /\ id = request[r].id
    BY <1>1, AssetsAssumption DEF Rest, IdsAreSpent, Creating, id, TypeOK
  <2>1. id \in FirstId .. nextId - 1
    BY <1>1, <2>0, AssetsAssumption DEF Id
  <2>2. DOMAIN assets' \subseteq FirstId .. nextId' - 1
    BY <1>1, <1>3, <2>1 DEF Rest, IdsAreSpent
  <2>3. \A q \in Request : pc(q)' # "idle" => request'[q].id < nextId'
    BY <1>1, <2>0 DEF Rest, IdsAreSpent
  <2> QED
    BY <1>1, <2>2, <2>3 DEF Rest, IdsAreSpent
<1>7. CreatedIsNew'
  <2> SUFFICES ASSUME NEW s \in Request, Creating(s)'
               PROVE  /\ request'[s].id \notin DOMAIN assets'
                      /\ asked[request'[s].id] = "Active"
                      /\ \A q \in Request \ {s} :
                           pc(q)' \notin {"idle", "failed"} => request'[q].id # request'[s].id
    BY <1>1 DEF CreatedIsNew
  <2>1. s # r /\ Creating(s) /\ request'[s] = request[s]
    BY <1>1 DEF Creating
  <2>2. request[s].id # id
    BY <1>4, <2>1 DEF Creating
  <2> QED
    BY <1>1, <1>3, <2>1, <2>2 DEF Rest, CreatedIsNew, id
<1>8. HeldIsStillThere'
  <2> SUFFICES ASSUME NEW s \in Request, Holds(s)'
               PROVE  /\ Contiguous(request'[s].versions)
                      /\ request'[s].id \in DOMAIN assets' =>
                           /\ request'[s].versions \subseteq assets'[request'[s].id].versions
                           /\ request'[s].id \notin crossed =>
                                request'[s].state = asked[request'[s].id]
    BY <1>1 DEF HeldIsStillThere, Contiguous, Numbers
  <2>1. s # r /\ Holds(s) /\ request'[s] = request[s]
    BY <1>1 DEF Holds
  <2>2. request[s].id # id
    BY <1>4, <2>1 DEF Holds
  <2> QED
    BY <1>3, <2>1, <2>2 DEF Rest, HeldIsStillThere
<1>9. VersionsHaveNoGap' /\ StateIsTheOneAskedFor'
  <2>1. \A i \in DOMAIN assets' : Contiguous(assets'[i].versions)
    BY <1>3, <1>5 DEF Rest, VersionsHaveNoGap
  <2>2. \A i \in DOMAIN assets' \ crossed : assets'[i].state = asked[i]
    BY <1>3, <1>4, <1>5 DEF Rest, StateIsTheOneAskedFor
  <2> QED
    BY <1>1, <2>1, <2>2 DEF VersionsHaveNoGap, StateIsTheOneAskedFor, Contiguous, Numbers
<1>10. RecordedIsStored'
  <2> SUFFICES ASSUME NEW s \in Request, pc(s)' \in {"reply", "done"} PROVE Stored(s)'
    BY DEF RecordedIsStored
  <2>1. CASE s = r
    BY <1>1, <1>3, <1>5, <2>1 DEF Stored
  <2>2. CASE s # r
    <3>1. request'[s] = request[s] /\ request[s].id # id
      BY <1>1, <1>4, <2>2
    <3> QED
      BY <1>3, <3>1 DEF Rest, RecordedIsStored, Stored
  <2> QED
    BY <2>1, <2>2
<1> QED
  BY <1>6, <1>7, <1>8, <1>9, <1>10 DEF Rest

LEMMA RecordVersionKeeps ==
  ASSUME TypeOK, StepsFit, Rest, NEW r \in Request, RecordVersion(r)
  PROVE  Rest'
<1> USE DEF pc
<1> DEFINE id == request[r].id
<1>0. /\ request[r] \in RequestState /\ id \in Id /\ Holds(r) /\ pc(r) = "record"
      /\ request[r].op \in {"AddNewVersion", "RestoreOldVersion"} /\ request[r].op # "Create"
      /\ UNCHANGED <<nextId, asked, crossed>>
  BY DEF RecordVersion, TypeOK, RequestState, Holds, ghosts, StepsFit
<1>1. CASE id \notin DOMAIN assets
  <2>1. MovesOn(r)
    <3>1. Over(r, "failed") /\ UNCHANGED <<assets, nextId, asked, crossed>>
      BY <1>0, <1>1 DEF RecordVersion
    <3> QED
      BY <1>0, <3>1, OverMovesOn
  <2> QED
    BY <2>1, MovesOnKeeps
<1>2. CASE id \in DOMAIN assets
  <2> DEFINE row == WithVersion(r)
  <2>1. row \in AssetRow
    BY <1>0, <1>2, WithVersionType DEF Rest
  <2>2. /\ DOMAIN assets' = DOMAIN assets /\ assets'[id] = row
        /\ \A i \in DOMAIN assets \ {id} : assets'[i] = assets[i]
    BY <1>0, <1>2, <2>1, PutType DEF RecordVersion
  <2>3. /\ \A q \in Request \ {r} : request'[q] = request[q]
        /\ request'[r].pc = "reply" /\ request'[r].op = request[r].op /\ request'[r].id = id
    BY <1>0, <1>2 DEF RecordVersion, At, TypeOK, RequestState
  <2>4. /\ NewRow(r) \in Version /\ NewRow(r).by = r
        /\ NewRow(r).number = NextVersion(request[r].versions)
    BY <1>0, NewRowType DEF Rest
  <2>5. /\ row.state = request[r].state /\ row.versions = assets[id].versions \cup {NewRow(r)}
        /\ assets[id].versions \in SUBSET Version /\ request[r].versions \in SUBSET Version
    BY <1>0, <1>2 DEF WithVersion, TypeOK, AssetRow, RequestState
  <2>6. Contiguous(row.versions)
    <3>1. /\ Contiguous(request[r].versions) /\ Contiguous(assets[id].versions)
          /\ request[r].versions \subseteq assets[id].versions
      BY <1>0, <1>2 DEF Rest, HeldIsStillThere, VersionsHaveNoGap
    <3> QED
      BY <2>4, <2>5, <3>1, StillContiguous
  <2>7. id \notin crossed => row.state = asked[id]
    BY <1>0, <1>2, <2>5 DEF Rest, HeldIsStillThere
  <2> HIDE DEF row
  <2>8. IdsAreSpent'
    BY <1>0, <2>2, <2>3 DEF Rest, IdsAreSpent
  <2>9. CreatedIsNew'
    <3> SUFFICES ASSUME NEW s \in Request, Creating(s)'
                 PROVE  /\ request'[s].id \notin DOMAIN assets
                        /\ asked[request'[s].id] = "Active"
                        /\ \A q \in Request \ {s} :
                             pc(q)' \notin {"idle", "failed"} => request'[q].id # request'[s].id
      BY <1>0, <2>2 DEF CreatedIsNew
    <3>1. s # r /\ Creating(s)
      BY <2>3 DEF Creating
    <3> QED
      BY <1>0, <2>3, <3>1 DEF Rest, CreatedIsNew
  <2>10. HeldIsStillThere'
    <3> SUFFICES ASSUME NEW s \in Request, Holds(s)'
                 PROVE  /\ Contiguous(request'[s].versions)
                        /\ request'[s].id \in DOMAIN assets' =>
                             /\ request'[s].versions \subseteq assets'[request'[s].id].versions
                             /\ request'[s].id \notin crossed =>
                                  request'[s].state = asked[request'[s].id]
      BY <1>0 DEF HeldIsStillThere, Contiguous, Numbers
    <3>1. s # r /\ Holds(s) /\ request'[s] = request[s]
      BY <2>3 DEF Holds
    <3> QED
      BY <2>2, <2>5, <3>1 DEF Rest, HeldIsStillThere
  <2>11. VersionsHaveNoGap' /\ StateIsTheOneAskedFor'
    <3>1. \A i \in DOMAIN assets' : Contiguous(assets'[i].versions)
      BY <2>2, <2>6 DEF Rest, VersionsHaveNoGap
    <3>2. \A i \in DOMAIN assets' \ crossed : assets'[i].state = asked[i]
      BY <2>2, <2>7 DEF Rest, StateIsTheOneAskedFor
    <3> QED
      BY <1>0, <3>1, <3>2 DEF VersionsHaveNoGap, StateIsTheOneAskedFor, Contiguous, Numbers
  <2>12. RecordedIsStored'
    <3> SUFFICES ASSUME NEW s \in Request, pc(s)' \in {"reply", "done"} PROVE Stored(s)'
      BY DEF RecordedIsStored
    <3>1. CASE s = r
      BY <2>2, <2>3, <2>4, <2>5, <3>1 DEF Stored
    <3>2. CASE s # r
      BY <2>2, <2>3, <2>5, <3>2 DEF Rest, RecordedIsStored, Stored
    <3> QED
      BY <3>1, <3>2
  <2> QED
    BY <2>8, <2>9, <2>10, <2>11, <2>12 DEF Rest
<1> QED
  BY <1>1, <1>2

(* What a request that is over keeps. *)
LEMMA OverKeeps ==
  ASSUME TypeOK, NEW r \in Request, NEW p \in {"done", "failed"}, Over(r, p)
  PROVE  /\ \A q \in Request \ {r} : request'[q] = request[q]
         /\ request'[r].pc = p /\ request'[r].op = request[r].op
         /\ request'[r].id = request[r].id
BY DEF Over, TypeOK, Idle

LEMMA RemoveKeeps ==
  ASSUME TypeOK, StepsFit, Rest, NEW r \in Request, Remove(r)
  PROVE  Rest'
<1> USE DEF pc
<1>1. /\ UNCHANGED <<nextId, asked, crossed>> /\ DOMAIN assets' \subseteq DOMAIN assets
      /\ \A i \in DOMAIN assets' : assets'[i] = assets[i]
  BY DEF Remove, Restrict
<1>2. /\ \A q \in Request \ {r} : request'[q] = request[q]
      /\ request'[r].pc = "done" /\ request'[r].op = "Delete"
      /\ request'[r].id = request[r].id /\ pc(r) = "delete"
  BY OverKeeps DEF Remove, StepsFit
<1>3. IdsAreSpent'
  BY <1>1, <1>2 DEF Rest, IdsAreSpent
<1>4. CreatedIsNew'
  <2> SUFFICES ASSUME NEW s \in Request, Creating(s)'
               PROVE  /\ request'[s].id \notin DOMAIN assets'
                      /\ asked[request'[s].id] = "Active"
                      /\ \A q \in Request \ {s} :
                           pc(q)' \notin {"idle", "failed"} => request'[q].id # request'[s].id
    BY <1>1 DEF CreatedIsNew
  <2>1. s # r /\ Creating(s)
    BY <1>2 DEF Creating
  <2> QED
    BY <1>1, <1>2, <2>1 DEF Rest, CreatedIsNew
<1>5. HeldIsStillThere'
  <2> SUFFICES ASSUME NEW s \in Request, Holds(s)'
               PROVE  /\ Contiguous(request'[s].versions)
                      /\ request'[s].id \in DOMAIN assets' =>
                           /\ request'[s].versions \subseteq assets'[request'[s].id].versions
                           /\ request'[s].id \notin crossed =>
                                request'[s].state = asked[request'[s].id]
    BY <1>1 DEF HeldIsStillThere, Contiguous, Numbers
  <2>1. s # r /\ Holds(s) /\ request'[s] = request[s]
    BY <1>2 DEF Holds
  <2> QED
    BY <1>1, <2>1 DEF Rest, HeldIsStillThere
<1>6. VersionsHaveNoGap' /\ StateIsTheOneAskedFor'
  BY <1>1 DEF Rest, VersionsHaveNoGap, StateIsTheOneAskedFor, Contiguous, Numbers
<1>7. RecordedIsStored'
  BY <1>1, <1>2 DEF Rest, RecordedIsStored, Stored
<1> QED
  BY <1>3, <1>4, <1>5, <1>6, <1>7 DEF Rest

LEMMA UpdateKeeps ==
  ASSUME TypeOK, StepsFit, Rest, NEW r \in Request, Update(r)
  PROVE  Rest'
<1> USE DEF pc
<1> DEFINE id == request[r].id
           sets == request[r].op # "AssetChangeName"
<1>0. /\ pc(r) = "update" /\ request[r].op \in {"Suspend", "Activate", "AssetChangeName"}
      /\ request[r] \in RequestState /\ id \in Id /\ nextId' = nextId
  BY DEF Update, StepsFit, TypeOK, RequestState
<1>1. CASE id \notin DOMAIN assets
  <2>1. Over(r, "failed") /\ UNCHANGED <<assets, nextId, asked, crossed>>
    BY <1>1 DEF Update
  <2> QED
    BY <1>0, <2>1, OverMovesOn, MovesOnKeeps
<1>2. CASE id \in DOMAIN assets
  <2>1. Over(r, "done")
    BY <1>2 DEF Update
  <2>2. /\ \A q \in Request \ {r} : request'[q] = request[q]
        /\ request'[r].pc = "done" /\ request'[r].op = request[r].op /\ request'[r].id = id
    BY <2>1, OverKeeps
  <2>3. /\ DOMAIN assets' = DOMAIN assets
        /\ \A i \in DOMAIN assets \ {id} : assets'[i] = assets[i]
        /\ assets'[id].versions = assets[id].versions /\ assets'[id].state = request[r].state
    BY <1>2 DEF Update, TypeOK, AssetRow
  <2>4. /\ asked' = IF sets THEN [asked EXCEPT ![id] = request[r].state] ELSE asked
        /\ crossed' = IF sets /\ \E q \in Request \ {r} : Holding(q, id)
                      THEN crossed \cup {id} ELSE crossed
    BY <1>2 DEF Update
  <2>5. /\ \A i \in Id \ {id} : asked'[i] = asked[i] /\ (i \in crossed' <=> i \in crossed)
        /\ sets => asked'[id] = request[r].state
        /\ ~sets => asked' = asked /\ crossed' = crossed
        /\ crossed \subseteq crossed'
    BY <1>0, <2>4 DEF TypeOK
  <2>6. IdsAreSpent'
    <3>1. id < nextId /\ id \in DOMAIN assets
      BY <1>0, <1>2 DEF Rest, IdsAreSpent
    <3>2. \A i \in Id : i >= nextId => asked'[i] = "Active"
      BY <1>0, <2>5, <3>1, AssetsAssumption DEF Rest, IdsAreSpent, Id, TypeOK
    <3> QED
      BY <1>0, <2>2, <2>3, <3>2 DEF Rest, IdsAreSpent
  <2>7. CreatedIsNew'
    <3> SUFFICES ASSUME NEW s \in Request, Creating(s)'
                 PROVE  /\ request'[s].id \notin DOMAIN assets'
                        /\ asked'[request'[s].id] = "Active"
                        /\ \A q \in Request \ {s} :
                             pc(q)' \notin {"idle", "failed"} => request'[q].id # request'[s].id
      BY DEF CreatedIsNew
    <3>1. s # r /\ Creating(s) /\ request'[s] = request[s]
      BY <2>2 DEF Creating
    <3>2. request[s].id # id /\ request[s].id \in Id
      BY <1>0, <1>2, <3>1 DEF Rest, CreatedIsNew, TypeOK, RequestState
    <3> QED
      BY <1>0, <2>2, <2>3, <2>5, <3>1, <3>2 DEF Rest, CreatedIsNew
  <2>8. HeldIsStillThere'
    <3> SUFFICES ASSUME NEW s \in Request, Holds(s)'
                 PROVE  /\ Contiguous(request'[s].versions)
                        /\ request'[s].id \in DOMAIN assets' =>
                             /\ request'[s].versions \subseteq assets'[request'[s].id].versions
                             /\ request'[s].id \notin crossed' =>
                                  request'[s].state = asked'[request'[s].id]
      BY DEF HeldIsStillThere, Contiguous, Numbers
    <3>1. s # r /\ Holds(s) /\ request'[s] = request[s] /\ request[s].id \in Id
      BY <2>2 DEF Holds, TypeOK, RequestState
    <3>2. CASE request[s].id # id
      BY <2>3, <2>5, <3>1, <3>2 DEF Rest, HeldIsStillThere
    <3>3. CASE request[s].id = id
      <4>1. sets => id \in crossed'
        BY <2>4, <3>1, <3>3 DEF Holding, Running, Holds
      <4> QED
        BY <2>3, <2>5, <3>1, <3>3, <4>1 DEF Rest, HeldIsStillThere
    <3> QED
      BY <3>2, <3>3
  <2>9. VersionsHaveNoGap'
    <3>1. \A i \in DOMAIN assets' : Contiguous(assets'[i].versions)
      BY <2>3 DEF Rest, VersionsHaveNoGap
    <3> QED
      BY <3>1 DEF VersionsHaveNoGap, Contiguous, Numbers
  <2>10. StateIsTheOneAskedFor'
    <3>1. ASSUME id \notin crossed' PROVE request[r].state = asked'[id]
      <4>1. CASE sets
        BY <2>5, <4>1
      <4>2. CASE ~sets
        <5>1. Holds(r)
          BY <1>0, <4>2 DEF Holds
        <5> QED
          BY <1>2, <2>5, <3>1, <4>2, <5>1 DEF Rest, HeldIsStillThere
      <4> QED
        BY <4>1, <4>2
    <3>2. \A i \in DOMAIN assets \ {id} : i \in Id
      BY DEF TypeOK
    <3> QED
      BY <2>3, <2>5, <3>1, <3>2 DEF Rest, StateIsTheOneAskedFor
  <2>11. RecordedIsStored'
    <3> SUFFICES ASSUME NEW s \in Request, pc(s)' \in {"reply", "done"} PROVE Stored(s)'
      BY DEF RecordedIsStored
    <3>1. CASE s = r
      BY <1>0, <2>2, <3>1 DEF Stored
    <3>2. CASE s # r
      BY <2>2, <2>3, <3>2 DEF Rest, RecordedIsStored, Stored
    <3> QED
      BY <3>1, <3>2
  <2> QED
    BY <2>6, <2>7, <2>8, <2>9, <2>10, <2>11 DEF Rest
<1> QED
  BY <1>1, <1>2

(* A request's next step is one of its operation's. *)
Fits(rec) ==
  /\ rec.pc \in {"look", "resolve", "open", "write", "info"} => rec.op \in {"Create", "AddNewVersion"}
  /\ rec.pc \in {"open", "write", "info"} => rec.path \in Path
  /\ rec.pc \in {"record", "reply"} => rec.op \in {"Create", "AddNewVersion", "RestoreOldVersion"}
  /\ rec.pc = "record" =>
       IF rec.op = "RestoreOldVersion" THEN rec.old \in Version ELSE rec.path \in Path
  /\ rec.pc = "version" => rec.op = "RestoreOldVersion"
  /\ rec.pc = "delete" => rec.op = "Delete"
  /\ rec.pc = "update" => rec.op \in {"Suspend", "Activate", "AssetChangeName"}

LEMMA FitsStep ==
  ASSUME TypeOK, StepsFit, NEW r \in Request, Ask(r) \/ GoOn(r)
  PROVE  StepsFit'
<1> USE DEF pc
<1>0. request \in [Request -> RequestState] /\ request[r] \in RequestState /\ Fits(request[r])
  BY DEF TypeOK, StepsFit, Fits
<1>1. ASSUME NEW rec, request' = [request EXCEPT ![r] = rec], Fits(rec) PROVE StepsFit'
  BY <1>0, <1>1 DEF StepsFit, Fits
<1>2. ASSUME NEW p \in {"done", "failed"}, Over(r, p) PROVE StepsFit'
  <2>1. Fits([Idle EXCEPT !.pc = p, !.op = request[r].op, !.id = request[r].id,
                          !.path = request[r].path])
    BY DEF Fits, Idle
  <2> QED
    BY <1>1, <1>2, <2>1 DEF Over
<1>3. ASSUME NEW p, At(r, p), Fits([request[r] EXCEPT !.pc = p]) PROVE StepsFit'
  <2>1. request' = [request EXCEPT ![r] = [request[r] EXCEPT !.pc = p]]
    BY <1>0, <1>3 DEF At
  <2> QED
    BY <1>1, <1>3, <2>1
<1>4. ASSUME NEW op, NEW id, NEW held, Get(r, op, id, held),
             id \in DOMAIN assets => Fits(held)
      PROVE  StepsFit'
  <2>1. Fits([Idle EXCEPT !.pc = "failed", !.op = op, !.id = id])
    BY DEF Fits, Idle
  <2> QED
    BY <1>1, <1>4, <2>1 DEF Get
<1>5. ASSUME NEW p \in Path, Choose(r, p), pc(r) \in {"look", "resolve"} PROVE StepsFit'
  <2>1. request' = [request EXCEPT ![r] = [request[r] EXCEPT !.pc = "open", !.path = p]]
    BY <1>0, <1>5 DEF Choose
  <2>2. Fits([request[r] EXCEPT !.pc = "open", !.path = p])
    BY <1>0, <1>5 DEF Fits, RequestState
  <2> QED
    BY <1>1, <2>1, <2>2
<1>6. CASE Create(r)
  <2>1. Fits([Idle EXCEPT !.pc = "look", !.id = nextId])
    BY DEF Fits, Idle
  <2> QED
    BY <1>1, <1>6, <2>1 DEF Create
<1>7. ASSUME NEW id, AddNewVersion(r, id) \/ AssetChangeName(r, id) PROVE StepsFit'
  <2>1. /\ Fits(AsRead("AddNewVersion", id, "look"))
        /\ Fits(AsRead("AssetChangeName", id, "update"))
    BY DEF Fits, AsRead, Idle
  <2> QED
    BY <1>4, <1>7, <2>1 DEF AddNewVersion, AssetChangeName
<1>8. ASSUME NEW id, Delete(r, id) PROVE StepsFit'
  <2>1. Fits([AsRead("Delete", id, "delete") EXCEPT !.left = assets[id].versions])
    BY DEF Fits, AsRead, Idle
  <2> QED
    BY <1>4, <1>8, <2>1 DEF Delete
<1>9. ASSUME NEW id, NEW n, RestoreOldVersion(r, id, n) PROVE StepsFit'
  <2>1. Fits([AsRead("RestoreOldVersion", id, "version") EXCEPT
                !.old = [NoVersion EXCEPT !.number = n]])
    BY DEF Fits, AsRead, Idle
  <2> QED
    BY <1>4, <1>9, <2>1 DEF RestoreOldVersion
<1>10. ASSUME NEW id, NEW s, SetState(r, id, s) PROVE StepsFit'
  <2> DEFINE op == IF s = "Active" THEN "Activate" ELSE "Suspend"
             held == [AsRead(op, id, "update") EXCEPT !.state = s]
  <2>1. Fits(held)
    BY DEF Fits, AsRead, Idle
  <2>2. Get(r, op, id, held)
    BY <1>10 DEF SetState
  <2> HIDE DEF op, held
  <2> QED
    BY <1>4, <2>1, <2>2
<1>11. CASE LookUp(r)
  <2>1. Named(request[r].id, AsUploaded) \in Path
    BY <1>0, NamedType DEF RequestState
  <2>2. pc(r) = "look" => Fits([request[r] EXCEPT !.pc = "resolve"])
    BY <1>0 DEF Fits, RequestState
  <2> QED
    BY <1>3, <1>5, <1>11, <2>1, <2>2 DEF LookUp
<1>12. CASE Resolve(r)
  <2>1. Named(request[r].id, now) \in Path
    BY <1>0, NamedType DEF TypeOK, RequestState
  <2> QED
    BY <1>5, <1>12, <2>1 DEF Resolve
<1>13. CASE Open(r) \/ Write(r)
  <2>1. pc(r) \in {"open", "write"} => /\ Fits([request[r] EXCEPT !.pc = "write"])
                                      /\ Fits([request[r] EXCEPT !.pc = "info"])
    BY <1>0 DEF Fits, RequestState
  <2> QED
    BY <1>3, <1>13, <2>1 DEF Open, Write
<1>14. CASE FileInfo(r)
  <2>1. pc(r) = "info" => Fits([request[r] EXCEPT !.pc = "record"])
    BY <1>0 DEF Fits, RequestState
  <2> QED
    BY <1>2, <1>3, <1>14, <2>1 DEF FileInfo
<1>15. CASE GetVersion(r)
  <2>1. ASSUME NEW v \in request[r].versions, HitIs(r, v) PROVE StepsFit'
    <3> DEFINE rec == [request[r] EXCEPT !.pc = "record", !.old = v,
                                         !.versions = assets[request[r].id].versions]
    <3>1. request' = [request EXCEPT ![r] = rec]
      BY <1>0, <2>1 DEF HitIs
    <3>2. v \in Version /\ pc(r) = "version"
      BY <1>0, <1>15 DEF RequestState, GetVersion
    <3>3. Fits(rec)
      BY <1>0, <3>2 DEF Fits, RequestState
    <3> HIDE DEF rec
    <3> QED
      BY <1>1, <3>1, <3>3
  <2> QED
    BY <1>2, <1>15, <2>1, GetVersionIs
<1>16. CASE RecordAsset(r) \/ RecordVersion(r)
  <2>1. pc(r) = "record" => Fits([request[r] EXCEPT !.pc = "reply"])
    BY <1>0 DEF Fits, RequestState
  <2> QED
    BY <1>2, <1>3, <1>16, <2>1 DEF RecordAsset, RecordVersion
<1>17. CASE Reply(r) \/ Throws(r) \/ Remove(r) \/ Update(r)
  BY <1>2, <1>17 DEF Reply, Throws, Remove, Update
<1>18. CASE DeleteFile(r)
  <2>1. PICK v : request' = [request EXCEPT ![r].left = @ \ {v}]
    BY <1>18 DEF DeleteFile
  <2>2. request' = [request EXCEPT ![r] = [request[r] EXCEPT !.left = @ \ {v}]]
    BY <1>0, <2>1
  <2>3. Fits([request[r] EXCEPT !.left = @ \ {v}])
    BY <1>0 DEF Fits, RequestState
  <2> QED
    BY <1>1, <2>2, <2>3
<1> QED
  BY <1>6, <1>7, <1>8, <1>9, <1>10, <1>11, <1>12, <1>13, <1>14, <1>15, <1>16, <1>17, <1>18
  DEF Ask, GoOn

-------------------------------------------------------------------------------

LEMMA InitInv == Init => IInv
<1> SUFFICES ASSUME Init PROVE IInv
  OBVIOUS
<1> USE DEF pc
<1>1. TypeOK
  BY TypeInit
<1>2. StepsFit /\ CreatedIsNew /\ HeldIsStillThere /\ RecordedIsStored
  BY DEF Init, Idle, StepsFit, CreatedIsNew, Creating, HeldIsStillThere, Holds, RecordedIsStored
<1>3. IdsAreSpent
  BY InitRows, Constants, AssetsAssumption DEF Init, Idle, IdsAreSpent, Id
<1>4. StateIsTheOneAskedFor
  BY InitRows, Constants DEF Init, StateIsTheOneAskedFor
<1>5. VersionsHaveNoGap
  BY InitRows DEF VersionsHaveNoGap
<1> QED
  BY <1>1, <1>2, <1>3, <1>4, <1>5 DEF IInv

LEMMA StepInv == IInv /\ [Next]_vars => IInv'
<1> SUFFICES ASSUME IInv, [Next]_vars PROVE IInv'
  OBVIOUS
<1>0. TypeOK /\ StepsFit /\ Rest /\ HeldIsStillThere /\ IdsAreSpent
  BY DEF IInv, Rest
<1>1. ASSUME NEW r \in Request, Ask(r) PROVE IInv'
  BY <1>0, <1>1, TypeAsk, FitsStep, AskKeeps DEF IInv, Rest
<1>2. ASSUME NEW r \in Request, GoOn(r) PROVE IInv'
  <2>1. Rest'
    BY <1>0, <1>2, QuietSteps, MovesOnKeeps, RecordAssetKeeps, RecordVersionKeeps,
       RemoveKeeps, UpdateKeeps DEF GoOn
  <2> QED
    BY <1>0, <1>2, <2>1, TypeGoOn, FitsStep DEF IInv, Rest
<1>3. ASSUME UNCHANGED <<assets, nextId, request, files, opened, ghosts>>, now' \in Now
      PROVE  IInv'
  <2> USE <1>3 DEF ghosts, pc
  <2>1. TypeOK'
    BY <1>0 DEF TypeOK, Storage!StorageTypeOK
  <2>2. StepsFit'
    BY <1>0 DEF StepsFit
  <2>3. IdsAreSpent' /\ CreatedIsNew'
    BY <1>0 DEF Rest, IdsAreSpent, CreatedIsNew, Creating
  <2>4. HeldIsStillThere'
    BY <1>0 DEF HeldIsStillThere, Holds, Contiguous, Numbers
  <2>5. VersionsHaveNoGap' /\ StateIsTheOneAskedFor'
    BY <1>0 DEF Rest, VersionsHaveNoGap, StateIsTheOneAskedFor, Contiguous, Numbers
  <2>6. RecordedIsStored'
    BY <1>0 DEF Rest, RecordedIsStored, Stored
  <2> QED
    BY <2>1, <2>2, <2>3, <2>4, <2>5, <2>6 DEF IInv
<1>4. CASE Tick \/ UNCHANGED vars
  BY <1>0, <1>3, <1>4 DEF Tick, vars, storage, TypeOK
<1> QED
  BY <1>1, <1>2, <1>4 DEF Next

(* IInv holds in every reachable state. *)
THEOREM Invariance == Spec => []IInv
BY InitInv, StepInv, PTL DEF Spec

(* The numbers of an asset's versions are 1 .. k, however many requests    *)
(* add and restore versions of it at once (BaseAssetService.AddNewVersion, *)
(* RestoreOldVersion).                                                     *)
THEOREM NoGap == Spec => []VersionsHaveNoGap
<1>1. IInv => VersionsHaveNoGap
  BY DEF IInv
<1> QED
  BY <1>1, Invariance, PTL

(* No version that was answered for disappears, but with its asset: no     *)
(* request overwrites what another has recorded.                           *)
THEOREM NoVersionLost == Spec => []NoAnsweredVersionIsLost
<1>1. IInv => NoAnsweredVersionIsLost
  BY DEF IInv, RecordedIsStored, NoAnsweredVersionIsLost
<1> QED
  BY <1>1, Invariance, PTL

(* A state that was asked for is lost only to a request that was under way *)
(* on the same asset when it was set.                                      *)
THEOREM StateKept == Spec => []StateIsTheOneAskedFor
<1>1. IInv => StateIsTheOneAskedFor
  BY DEF IInv
<1> QED
  BY <1>1, Invariance, PTL

-------------------------------------------------------------------------------
USE DEF PathsLeft

(* The files.  Two more invariants say where each file came from, and      *)
(* whose each claimed path is.                                             *)

(* What the steps of a request leave of its record. *)
LEMMA AtIs ==
  ASSUME TypeOK, NEW r \in Request, NEW p, At(r, p)
  PROVE  /\ \A q \in Request \ {r} : request'[q] = request[q]
         /\ request'[r].pc = p
         /\ request'[r].op = request[r].op /\ request'[r].id = request[r].id
         /\ request'[r].versions = request[r].versions /\ request'[r].old = request[r].old
         /\ request'[r].path = request[r].path /\ request'[r].left = request[r].left
BY DEF At, TypeOK, RequestState

LEMMA OverIs ==
  ASSUME TypeOK, NEW r \in Request, NEW p, Over(r, p)
  PROVE  /\ \A q \in Request \ {r} : request'[q] = request[q]
         /\ request'[r].pc = p
         /\ request'[r].op = request[r].op /\ request'[r].id = request[r].id
         /\ request'[r].path = request[r].path /\ request'[r].left = {}
BY DEF Over, TypeOK, Idle

LEMMA ChooseIs ==
  ASSUME TypeOK, NEW r \in Request, NEW p, Choose(r, p)
  PROVE  /\ \A q \in Request \ {r} : request'[q] = request[q]
         /\ request'[r].pc = "open" /\ request'[r].path = p
         /\ request'[r].op = request[r].op /\ request'[r].id = request[r].id
         /\ request'[r].versions = request[r].versions /\ request'[r].left = request[r].left
BY DEF Choose, TypeOK, RequestState

(* An operation that begins. *)
LEMMA AskIs ==
  ASSUME TypeOK, NEW r \in Request, Ask(r)
  PROVE  /\ \A q \in Request \ {r} : request'[q] = request[q]
         /\ UNCHANGED <<assets, storage, ghosts>>
         /\ pc(r) = "idle" /\ pc(r)' \in {"look", "version", "delete", "update", "failed"}
         /\ request'[r].path = NoPath
         /\ pc(r)' # "delete" => request'[r].left = {}
         /\ pc(r)' = "delete" =>
              LET id == request'[r].id
              IN /\ id \in DOMAIN assets /\ request'[r].versions = assets[id].versions
                 /\ request'[r].left = assets[id].versions
<1> USE DEF pc
<1>1. CASE Create(r)
  BY <1>1 DEF Create, TypeOK, Idle
<1>2. ASSUME NEW op, NEW id \in Id, NEW held, Get(r, op, id, held),
             id \in DOMAIN assets => /\ held.pc \in {"look", "version", "update"}
                                     /\ held.path = NoPath /\ held.left = {}
      PROVE  /\ \A q \in Request \ {r} : request'[q] = request[q]
             /\ UNCHANGED <<assets, storage, ghosts>>
             /\ pc(r) = "idle" /\ pc(r)' \in {"look", "version", "update", "failed"}
             /\ request'[r].path = NoPath /\ request'[r].left = {}
  <2>1. CASE id \in DOMAIN assets
    BY <1>2, <2>1 DEF Get, TypeOK
  <2>2. CASE id \notin DOMAIN assets
    BY <1>2, <2>2 DEF Get, TypeOK, Idle
  <2> QED
    BY <2>1, <2>2
<1>3. ASSUME NEW id \in Id, AddNewVersion(r, id) \/ AssetChangeName(r, id)
      PROVE  /\ \A q \in Request \ {r} : request'[q] = request[q]
             /\ UNCHANGED <<assets, storage, ghosts>>
             /\ pc(r) = "idle" /\ pc(r)' \in {"look", "version", "update", "failed"}
             /\ request'[r].path = NoPath /\ request'[r].left = {}
  <2>1. \A op : \A next \in {"look", "update"} :
          /\ AsRead(op, id, next).pc = next
          /\ AsRead(op, id, next).path = NoPath /\ AsRead(op, id, next).left = {}
    BY DEF AsRead, Idle
  <2> QED
    BY <1>2, <1>3, <2>1 DEF AddNewVersion, AssetChangeName
<1>4. ASSUME NEW id \in Id, NEW n, RestoreOldVersion(r, id, n)
      PROVE  /\ \A q \in Request \ {r} : request'[q] = request[q]
             /\ UNCHANGED <<assets, storage, ghosts>>
             /\ pc(r) = "idle" /\ pc(r)' \in {"look", "version", "update", "failed"}
             /\ request'[r].path = NoPath /\ request'[r].left = {}
  <2> DEFINE held == [AsRead("RestoreOldVersion", id, "version") EXCEPT
                        !.old = [NoVersion EXCEPT !.number = n]]
  <2>1. held.pc = "version" /\ held.path = NoPath /\ held.left = {}
    BY DEF AsRead, Idle
  <2>2. Get(r, "RestoreOldVersion", id, held)
    BY <1>4 DEF RestoreOldVersion
  <2> HIDE DEF held
  <2> QED
    BY <1>2, <2>1, <2>2
<1>5. ASSUME NEW id \in Id, NEW s, SetState(r, id, s)
      PROVE  /\ \A q \in Request \ {r} : request'[q] = request[q]
             /\ UNCHANGED <<assets, storage, ghosts>>
             /\ pc(r) = "idle" /\ pc(r)' \in {"look", "version", "update", "failed"}
             /\ request'[r].path = NoPath /\ request'[r].left = {}
  <2> DEFINE op == IF s = "Active" THEN "Activate" ELSE "Suspend"
             held == [AsRead(op, id, "update") EXCEPT !.state = s]
  <2>1. held.pc = "update" /\ held.path = NoPath /\ held.left = {}
    BY DEF AsRead, Idle
  <2>2. Get(r, op, id, held)
    BY <1>5 DEF SetState
  <2> HIDE DEF op, held
  <2> QED
    BY <1>2, <2>1, <2>2
<1>6. ASSUME NEW id \in Id, Delete(r, id)
      PROVE  /\ \A q \in Request \ {r} : request'[q] = request[q]
             /\ UNCHANGED <<assets, storage, ghosts>>
             /\ pc(r) = "idle" /\ request'[r].path = NoPath /\ request'[r].id = id
             /\ \/ /\ pc(r)' = "delete" /\ id \in DOMAIN assets
                   /\ request'[r].versions = assets[id].versions
                   /\ request'[r].left = assets[id].versions
                \/ pc(r)' = "failed" /\ request'[r].left = {}
  <2> DEFINE held == [AsRead("Delete", id, "delete") EXCEPT
                        !.left = assets[id].versions]
  <2>1. /\ held.pc = "delete" /\ held.path = NoPath /\ held.id = id
        /\ held.versions = assets[id].versions
        /\ held.left = assets[id].versions
    BY DEF AsRead, Idle
  <2>2. Get(r, "Delete", id, held)
    BY <1>6 DEF Delete
  <2> HIDE DEF held
  <2>3. CASE id \in DOMAIN assets
    BY <2>1, <2>2, <2>3 DEF Get, TypeOK
  <2>4. CASE id \notin DOMAIN assets
    BY <2>2, <2>4 DEF Get, TypeOK, Idle
  <2> QED
    BY <2>3, <2>4
<1>7. ASSUME NEW id \in Id, Delete(r, id)
      PROVE  LET i == request'[r].id
             IN pc(r)' = "delete" =>
                  /\ i \in DOMAIN assets /\ request'[r].versions = assets[i].versions
                  /\ request'[r].left = assets[i].versions
  BY <1>6, <1>7
<1> QED
  BY <1>1, <1>3, <1>4, <1>5, <1>6, <1>7 DEF Ask

(* What is recorded: one more row, and all that were there before. *)
LEMMA RecordIs ==
  ASSUME TypeOK, StepsFit, Rest, NEW r \in Request, RecordAsset(r) \/ RecordVersion(r),
         pc(r)' = "reply"
  PROVE  LET id == request[r].id
         IN /\ At(r, "reply") /\ UNCHANGED <<storage, ghosts>> /\ pc(r) = "record"
            /\ \E v \in Version :
                 /\ v.by = r
                 /\ IF request[r].op = "RestoreOldVersion"
                    THEN /\ v.path = request[r].old.path /\ v.of = request[r].old.of
                         /\ id \in DOMAIN assets
                    ELSE v.path = request[r].path /\ v.of = r
                 /\ DOMAIN assets' = DOMAIN assets \cup {id} /\ v \in assets'[id].versions
                 /\ \A i \in DOMAIN assets : assets[i].versions \subseteq assets'[i].versions
                 /\ \A i \in DOMAIN assets' : \A w \in assets'[i].versions :
                      \/ i = id /\ w = v
                      \/ i \in DOMAIN assets /\ w \in assets[i].versions
<1> USE DEF pc
<1> DEFINE id == request[r].id
<1>0. request[r] \in RequestState /\ id \in Id /\ r \in Upload
  BY Constants DEF TypeOK, RequestState
<1>1. CASE RecordAsset(r)
  <2> DEFINE v == Row(1, request[r].path, r, r)
             row == [state |-> "Active", versions |-> {v}]
  <2>1. /\ v \in Version /\ v.by = r /\ v.path = request[r].path /\ v.of = r
        /\ request[r].op = "Create" /\ pc(r) = "record"
    BY <1>0, <1>1 DEF RecordAsset, StepsFit, Row, Version
  <2>2. row \in AssetRow /\ row.versions = {v}
    BY <2>1 DEF AssetRow, AssetState
  <2>3. assets' = Put(id, row) /\ At(r, "reply") /\ UNCHANGED <<storage, ghosts>>
    BY <1>1 DEF RecordAsset
  <2>4. id \notin DOMAIN assets
    BY <2>1 DEF Rest, CreatedIsNew, Creating
  <2> HIDE DEF v, row
  <2>5. /\ DOMAIN assets' = DOMAIN assets \cup {id} /\ assets'[id] = row
        /\ \A i \in DOMAIN assets \ {id} : assets'[i] = assets[i]
    BY <1>0, <2>2, <2>3, PutType
  <2>6. v \in assets'[id].versions
    BY <2>2, <2>5
  <2>7. \A i \in DOMAIN assets : assets[i].versions \subseteq assets'[i].versions
    BY <2>4, <2>5
  <2>8. \A i \in DOMAIN assets' : \A w \in assets'[i].versions :
          \/ i = id /\ w = v
          \/ i \in DOMAIN assets /\ w \in assets[i].versions
    BY <2>2, <2>5
  <2> QED
    BY <2>1, <2>3, <2>5, <2>6, <2>7, <2>8
<1>2. CASE RecordVersion(r)
  <2> DEFINE v == NewRow(r)
             row == WithVersion(r)
  <2>0. pc(r) = "record" /\ request[r].op # "Create" /\ UNCHANGED <<storage, ghosts>>
    BY <1>2 DEF RecordVersion
  <2>1. id \in DOMAIN assets /\ assets' = Put(id, row) /\ At(r, "reply")
    <3>1. ASSUME id \notin DOMAIN assets PROVE FALSE
      BY <1>2, <3>1, OverIs DEF RecordVersion
    <3> QED
      BY <1>2, <3>1 DEF RecordVersion
  <2>2. /\ v \in Version /\ v.by = r
        /\ IF request[r].op = "RestoreOldVersion"
           THEN v.path = request[r].old.path /\ v.of = request[r].old.of
           ELSE v.path = request[r].path /\ v.of = r
    <3>1. v \in Version /\ v.by = r
      BY <2>0, NewRowType DEF Rest
    <3> QED
      BY <3>1 DEF NewRow, Row
  <2>3. row \in AssetRow /\ row.versions = assets[id].versions \cup {v}
    BY <2>0, <2>1, WithVersionType DEF WithVersion, Rest
  <2> HIDE DEF v, row
  <2>4. /\ DOMAIN assets' = DOMAIN assets \cup {id} /\ assets'[id] = row
        /\ \A i \in DOMAIN assets \ {id} : assets'[i] = assets[i]
    BY <1>0, <2>1, <2>3, PutType
  <2>5. v \in assets'[id].versions
    BY <2>3, <2>4
  <2>6. \A i \in DOMAIN assets : assets[i].versions \subseteq assets'[i].versions
    BY <2>3, <2>4
  <2>7. \A i \in DOMAIN assets' : \A w \in assets'[i].versions :
          \/ i = id /\ w = v
          \/ i \in DOMAIN assets /\ w \in assets[i].versions
    BY <2>1, <2>3, <2>4
  <2> QED
    BY <2>0, <2>1, <2>2, <2>4, <2>5, <2>6, <2>7
<1> QED
  BY <1>1, <1>2

LEMMA RemoveIs ==
  ASSUME TypeOK, NEW r \in Request, Remove(r)
  PROVE  LET id == request[r].id
         IN /\ Over(r, "done") /\ pc(r) = "delete" /\ request[r].left = {}
            /\ UNCHANGED <<files, tainted, halved>> /\ leaked \subseteq leaked'
            /\ DOMAIN assets' = DOMAIN assets \ {id}
            /\ \A i \in DOMAIN assets' : assets'[i] = assets[i]
            /\ id \in DOMAIN assets => \A v \in assets[id].versions :
                 v \in request[r].versions \/ v.path \in leaked'
BY DEF Remove, Restrict, storage, pc

LEMMA UpdateIs ==
  ASSUME TypeOK, NEW r \in Request, Update(r)
  PROVE  /\ Over(r, "done") \/ Over(r, "failed")
         /\ pc(r) = "update" /\ UNCHANGED <<storage, tainted, leaked, halved>>
         /\ DOMAIN assets' = DOMAIN assets
         /\ \A i \in DOMAIN assets : assets'[i].versions = assets[i].versions
<1>1. \A i \in DOMAIN assets : assets[i] \in AssetRow
  BY DEF TypeOK
<1> QED
  BY <1>1 DEF Update, AssetRow, storage, pc

-------------------------------------------------------------------------------
(* Where a file came from: an upload that goes on or failed, a Delete that *)
(* left it, or a row that no Delete under way has dealt with yet.          *)

(* Whoever inserted a row is past its last write. *)
Settled(u) == u \in Request => pc(u) \in {"reply", "done", "failed"}

RowsAreSettled ==
  /\ \A id \in DOMAIN assets : \A v \in assets[id].versions : Settled(v.by)
  /\ \A r \in Request : pc(r) = "delete" => \A v \in request[r].versions : Settled(v.by)

(* A Delete that has seen the row has its file still to delete. *)
Kept(id, v) ==
  \A r \in Request :
    pc(r) = "delete" /\ request[r].id = id /\ v \in request[r].versions => v \in request[r].left

Uploads(r, p) ==
  Uploading(r) /\ request[r].op # "RestoreOldVersion" /\ request[r].path = p

Explained(p) ==
  \/ p \in leaked
  \/ \E r \in Request : pc(r) = "failed" /\ request[r].path = p
  \/ \E r \in Request : Uploads(r, p)
  \/ \E id \in DOMAIN assets : \E v \in assets[id].versions : v.path = p /\ Kept(id, v)

FilesExplained == RowsAreSettled /\ \A p \in DOMAIN files : Explained(p)

LEMMA InitExplained == Init => FilesExplained
<1> SUFFICES ASSUME Init PROVE FilesExplained
  OBVIOUS
<1>1. /\ DOMAIN files = {Named(FirstId, AsUploaded)}
      /\ \A r \in Request : request[r].pc = "idle"
  BY DEF Init, Idle
<1>2. RowsAreSettled
  BY <1>1, InitRows, AssetsAssumption DEF RowsAreSettled, Settled, pc
<1>3. \E v \in assets[FirstId].versions : v.path = Named(FirstId, AsUploaded) /\ Kept(FirstId, v)
  BY <1>1, InitRows DEF Kept, pc
<1> QED
  BY <1>1, <1>2, <1>3, InitRows DEF FilesExplained, Explained

(* One step of a request at a time. *)
LEMMA SettledStays ==
  ASSUME TypeOK, NEW r \in Request, Ask(r) \/ GoOn(r)
  PROVE  /\ \A q \in Request \ {r} : request'[q] = request[q]
         /\ pc(r) \notin {"done", "failed"}
         /\ \A u : Settled(u) => Settled(u)'
<1> USE DEF pc
<1>1. /\ \A q \in Request \ {r} : request'[q] = request[q]
      /\ pc(r) \notin {"done", "failed"}
      /\ pc(r) = "reply" => pc(r)' \in {"done", "failed"}
  <2>1. CASE Ask(r)
    BY <2>1, AskIs
  <2>2. CASE LookUp(r) \/ Resolve(r)
    BY <2>2, AtIs, ChooseIs DEF LookUp, Resolve
  <2>3. CASE Open(r) \/ Write(r) \/ FileInfo(r)
    BY <2>3, AtIs, OverIs DEF Open, Write, FileInfo
  <2>4. CASE GetVersion(r)
    <3>1. ASSUME NEW v, HitIs(r, v) PROVE /\ \A q \in Request \ {r} : request'[q] = request[q]
                                               /\ pc(r)' = "record"
      BY <3>1, HitLeaves
    <3> QED
      BY <2>4, <3>1, OverIs, GetVersionIs
  <2>5. CASE RecordAsset(r) \/ RecordVersion(r)
    BY <2>5, AtIs, OverIs DEF RecordAsset, RecordVersion
  <2>6. CASE Reply(r) \/ Throws(r)
    BY <2>6, OverIs DEF Reply, Throws
  <2>7. CASE DeleteFile(r)
    BY <2>7 DEF DeleteFile, TypeOK
  <2>8. CASE Remove(r) \/ Update(r)
    BY <2>8, RemoveIs, UpdateIs, OverIs
  <2> QED
    BY <2>1, <2>2, <2>3, <2>4, <2>5, <2>6, <2>7, <2>8 DEF GoOn
<1>2. ASSUME NEW u, Settled(u) PROVE Settled(u)'
  BY <1>1, <1>2 DEF Settled
<1> QED
  BY <1>1, <1>2

(* A step that inserts no row, other than that of its request. *)
LEMMA RowsStaySettled ==
  ASSUME TypeOK, RowsAreSettled, NEW r \in Request, Ask(r) \/ GoOn(r),
         \A id \in DOMAIN assets' : \A v \in assets'[id].versions :
           \/ id \in DOMAIN assets /\ v \in assets[id].versions
           \/ v.by = r /\ pc(r)' = "reply",
         pc(r)' = "delete" =>
           \/ pc(r) = "delete" /\ request'[r].versions = request[r].versions
           \/ \E id \in DOMAIN assets : request'[r].versions = assets[id].versions
  PROVE  RowsAreSettled'
<1> USE DEF pc
<1>1. /\ \A q \in Request \ {r} : request'[q] = request[q]
      /\ \A u : Settled(u) => Settled(u)'
  BY SettledStays
<1>2. ASSUME NEW id \in DOMAIN assets', NEW v \in assets'[id].versions PROVE Settled(v.by)'
  <2>1. CASE id \in DOMAIN assets /\ v \in assets[id].versions
    BY <1>1, <2>1 DEF RowsAreSettled
  <2>2. CASE v.by = r /\ pc(r)' = "reply"
    BY <2>2 DEF Settled
  <2> QED
    BY <2>1, <2>2
<1>3. ASSUME NEW q \in Request, pc(q)' = "delete", NEW v \in request'[q].versions
      PROVE  Settled(v.by)'
  <2>1. CASE q # r
    BY <1>1, <1>3, <2>1 DEF RowsAreSettled
  <2>2. CASE q = r
    BY <1>1, <1>3, <2>2 DEF RowsAreSettled
  <2> QED
    BY <2>1, <2>2
<1> QED
  BY <1>2, <1>3 DEF RowsAreSettled

(* What is explained stays so, if the request's own upload does, and the   *)
(* row that explains it.                                                   *)
LEMMA StillExplained ==
  ASSUME TypeOK, NEW r \in Request, Ask(r) \/ GoOn(r), leaked \subseteq leaked',
         NEW p, Explained(p),
         Uploads(r, p) => Explained(p)',
         \A id \in DOMAIN assets : \A v \in assets[id].versions :
           v.path = p /\ Kept(id, v) =>
             \/ Explained(p)'
             \/ /\ id \in DOMAIN assets' /\ v \in assets'[id].versions
                /\ pc(r)' = "delete" /\ request'[r].id = id /\ v \in request'[r].versions
                     => v \in request'[r].left
  PROVE  Explained(p)'
<1> USE DEF pc
<1>1. /\ \A q \in Request \ {r} : request'[q] = request[q]
      /\ pc(r) \notin {"done", "failed"}
  BY SettledStays
<1>2. CASE p \in leaked
  BY <1>2 DEF Explained
<1>3. ASSUME NEW q \in Request, pc(q) = "failed", request[q].path = p PROVE Explained(p)'
  BY <1>1, <1>3 DEF Explained
<1>4. ASSUME NEW q \in Request, Uploads(q, p), q # r PROVE Explained(p)'
  BY <1>1, <1>4 DEF Explained, Uploads, Uploading
<1>5. ASSUME NEW id \in DOMAIN assets, NEW v \in assets[id].versions, v.path = p, Kept(id, v)
      PROVE  Explained(p)'
  <2>1. CASE /\ id \in DOMAIN assets' /\ v \in assets'[id].versions
             /\ pc(r)' = "delete" /\ request'[r].id = id /\ v \in request'[r].versions
                  => v \in request'[r].left
    <3>1. Kept(id, v)'
      BY <1>1, <1>5, <2>1 DEF Kept
    <3> QED
      BY <1>5, <2>1, <3>1 DEF Explained
  <2> QED
    BY <1>5, <2>1
<1> QED
  BY <1>2, <1>3, <1>4, <1>5 DEF Explained

LEMMA AskExplains ==
  ASSUME TypeOK, FilesExplained, NEW r \in Request, Ask(r)
  PROVE  FilesExplained'
<1> USE DEF pc
<1>1. /\ UNCHANGED <<assets, storage, ghosts>> /\ pc(r) = "idle"
      /\ pc(r)' = "delete" =>
           LET id == request'[r].id
           IN /\ id \in DOMAIN assets /\ request'[r].versions = assets[id].versions
              /\ request'[r].left = assets[id].versions
  BY AskIs
<1>2. RowsAreSettled'
  BY <1>1, RowsStaySettled DEF FilesExplained
<1>3. ASSUME NEW p \in DOMAIN files PROVE Explained(p)'
  <2>1. ~Uploads(r, p) /\ leaked \subseteq leaked' /\ Explained(p)
    BY <1>1 DEF Uploads, Uploading, ghosts, FilesExplained
  <2> QED
    BY <1>1, <2>1, StillExplained
<1> QED
  BY <1>1, <1>2, <1>3 DEF FilesExplained, storage

(* A request that goes on with what it holds: its path stays its own, or   *)
(* it failed at it; what it writes, it writes there.                       *)
LEMMA GoesOnExplains ==
  ASSUME TypeOK, FilesExplained, NEW r \in Request, GoOn(r),
         UNCHANGED leaked, DOMAIN assets' = DOMAIN assets,
         \A id \in DOMAIN assets : assets'[id].versions = assets[id].versions,
         pc(r)' # "delete",
         \A p : Uploads(r, p) => Uploads(r, p)' \/ (pc(r)' = "failed" /\ request'[r].path = p),
         \A p \in DOMAIN files' \ DOMAIN files : Uploads(r, p)'
  PROVE  FilesExplained'
<1>1. RowsAreSettled'
  BY RowsStaySettled DEF FilesExplained
<1>2. ASSUME NEW p, Uploads(r, p)' \/ (pc(r)' = "failed" /\ request'[r].path = p)
      PROVE  Explained(p)'
  BY <1>2 DEF Explained, pc, Uploads, Uploading
<1>3. ASSUME NEW p \in DOMAIN files PROVE Explained(p)'
  <2>1. Explained(p) /\ (Uploads(r, p) => Explained(p)')
    BY <1>2 DEF FilesExplained
  <2> QED
    BY <2>1, StillExplained
<1> QED
  BY <1>1, <1>2, <1>3 DEF FilesExplained

LEMMA QuietExplains ==
  ASSUME TypeOK, StepsFit, FilesExplained, NEW r \in Request,
         \/ LookUp(r) \/ Resolve(r) \/ Open(r) \/ Write(r) \/ FileInfo(r) \/ GetVersion(r)
         \/ Reply(r) \/ Throws(r) \/ Update(r) \/ (RecordVersion(r) /\ pc(r)' # "reply")
  PROVE  FilesExplained'
<1> USE DEF pc
<1>0. GoOn(r)
  BY DEF GoOn
<1>1. ASSUME UNCHANGED <<assets, leaked, files>>, pc(r)' # "delete",
             \A p : Uploads(r, p) => Uploads(r, p)' \/ (pc(r)' = "failed" /\ request'[r].path = p)
      PROVE  FilesExplained'
  BY <1>0, <1>1, GoesOnExplains
<1>2. CASE LookUp(r) \/ Resolve(r)
  <2>1. /\ UNCHANGED <<assets, leaked, files>> /\ pc(r)' # "delete"
        /\ \A p : ~Uploads(r, p)
    BY <1>2, AtIs, ChooseIs DEF LookUp, Resolve, Choose, storage, ghosts, Uploads, Uploading
  <2> QED
    BY <1>1, <2>1
<1>3. CASE Open(r) \/ Write(r)
  <2>0. PICK p : p = request[r].path
    OBVIOUS
  <2>1. /\ \E next \in {"write", "info"} : At(r, next)
        /\ UNCHANGED <<assets, leaked>> /\ pc(r) \in {"open", "write"}
        /\ request[r].op # "RestoreOldVersion"
    BY <1>3 DEF Open, Write, ghosts, StepsFit
  <2>2. /\ Uploading(r) /\ pc(r)' \in {"write", "info"}
        /\ request'[r].op = request[r].op /\ request'[r].path = p
    BY <2>0, <2>1, AtIs DEF Uploading
  <2>3. Uploads(r, p)' /\ \A q : Uploads(r, q) => q = p
    BY <2>0, <2>1, <2>2 DEF Uploads, Uploading
  <2>4. DOMAIN files' \subseteq DOMAIN files \cup {p}
    BY <1>3, <2>0 DEF Open, Write, Storage!OpenFile, Storage!OpenFails, Storage!WriteFile,
                Storage!WriteFails, Storage!With, Storage!storage
  <2>5. /\ \A x : Uploads(r, x) => Uploads(r, x)'
        /\ \A x \in DOMAIN files' \ DOMAIN files : Uploads(r, x)'
    BY <2>3, <2>4
  <2>6. pc(r)' # "delete" /\ UNCHANGED <<assets, leaked>>
    BY <2>1, <2>2
  <2> QED
    BY <1>0, <2>5, <2>6, GoesOnExplains
<1>4. CASE FileInfo(r)
  <2>1. CASE At(r, "record")
    <3>1. \A p : Uploads(r, p) => Uploads(r, p)'
      BY <2>1, AtIs DEF Uploads, Uploading
    <3> QED
      BY <1>1, <1>4, <2>1, <3>1, AtIs DEF FileInfo, storage, ghosts
  <2>2. CASE Over(r, "failed")
    <3>1. \A p : Uploads(r, p) => pc(r)' = "failed" /\ request'[r].path = p
      BY <2>2, OverIs DEF Uploads
    <3> QED
      BY <1>1, <1>4, <2>2, <3>1, OverIs DEF FileInfo, storage, ghosts
  <2> QED
    BY <1>4, <2>1, <2>2 DEF FileInfo
<1>5. CASE GetVersion(r)
  <2>1. pc(r) = "version" /\ pc(r)' \in {"record", "failed"} /\ UNCHANGED <<assets, leaked, files>>
    <3>1. pc(r) = "version" /\ UNCHANGED <<assets, leaked, files>>
      BY <1>5 DEF GetVersion, storage, ghosts
    <3>2. ASSUME NEW v, HitIs(r, v) PROVE pc(r)' = "record"
      BY <3>2, HitLeaves
    <3> QED
      BY <1>5, <3>1, <3>2, OverIs, GetVersionIs
  <2> QED
    BY <1>1, <2>1 DEF Uploads, Uploading
<1>6. CASE Reply(r)
  <2>1. pc(r) = "reply" /\ pc(r)' = "done" /\ UNCHANGED <<assets, leaked, files>>
    BY <1>6, OverIs DEF Reply, storage, ghosts
  <2> QED
    BY <1>1, <2>1 DEF Uploads, Uploading
<1>7. CASE Throws(r) \/ (RecordVersion(r) /\ pc(r)' # "reply")
  <2>1. Over(r, "failed") /\ UNCHANGED <<assets, leaked, files>>
    BY <1>7, AtIs DEF Throws, RecordVersion, storage, ghosts
  <2>2. \A p : Uploads(r, p) => pc(r)' = "failed" /\ request'[r].path = p
    BY <2>1, OverIs DEF Uploads
  <2> QED
    BY <1>1, <2>1, <2>2, OverIs
<1>8. CASE Update(r)
  <2>1. pc(r) = "update" /\ pc(r)' # "delete" /\ UNCHANGED <<files, leaked>>
    BY <1>8, UpdateIs, OverIs DEF storage
  <2>2. \A p : ~Uploads(r, p)
    BY <2>1 DEF Uploads, Uploading
  <2> QED
    BY <1>0, <1>8, <2>1, <2>2, UpdateIs, GoesOnExplains
<1> QED
  BY <1>2, <1>3, <1>4, <1>5, <1>6, <1>7, <1>8

(* The row explains the file from here on: no Delete has seen it yet. *)
LEMMA RecordExplains ==
  ASSUME TypeOK, StepsFit, Rest, FilesExplained, NEW r \in Request, RecordAsset(r) \/ RecordVersion(r),
         pc(r)' = "reply"
  PROVE  FilesExplained'
<1> USE DEF pc
<1>0. GoOn(r)
  BY DEF GoOn
<1>a. PICK id : id = request[r].id
  OBVIOUS
<1>1. /\ At(r, "reply") /\ UNCHANGED <<files, leaked>> /\ pc(r) = "record"
      /\ \A q \in Request \ {r} : request'[q] = request[q]
  BY RecordIs, AtIs DEF storage, ghosts
<1>2. PICK v \in Version :
        /\ v.by = r
        /\ request[r].op # "RestoreOldVersion" => v.path = request[r].path
        /\ DOMAIN assets' = DOMAIN assets \cup {id} /\ v \in assets'[id].versions
        /\ \A i \in DOMAIN assets : assets[i].versions \subseteq assets'[i].versions
        /\ \A i \in DOMAIN assets' : \A w \in assets'[i].versions :
             \/ i = id /\ w = v
             \/ i \in DOMAIN assets /\ w \in assets[i].versions
  BY <1>a, RecordIs
<1>3. RowsAreSettled'
  <2>1. \A i \in DOMAIN assets' : \A w \in assets'[i].versions :
          \/ i \in DOMAIN assets /\ w \in assets[i].versions
          \/ w.by = r /\ pc(r)' = "reply"
    BY <1>2
  <2> QED
    BY <1>0, <2>1, RowsStaySettled DEF FilesExplained
<1>4. Kept(id, v)'
  <2>1. ~Settled(v.by)
    BY <1>1, <1>2 DEF Settled
  <2> QED
    BY <1>1, <2>1 DEF Kept, FilesExplained, RowsAreSettled
<1>5. ASSUME NEW p, Uploads(r, p) PROVE Explained(p)'
  <2>1. v.path = p /\ id \in DOMAIN assets' /\ v \in assets'[id].versions
    BY <1>2, <1>5 DEF Uploads
  <2> QED
    BY <1>4, <2>1 DEF Explained
<1>6. ASSUME NEW p \in DOMAIN files PROVE Explained(p)'
  <2>1. Explained(p)
    BY DEF FilesExplained
  <2> QED
    BY <1>0, <1>1, <1>2, <1>5, <2>1, StillExplained
<1> QED
  BY <1>1, <1>3, <1>6 DEF FilesExplained

LEMMA DeleteFileExplains ==
  ASSUME TypeOK, FilesExplained, NEW r \in Request, DeleteFile(r)
  PROVE  FilesExplained'
<1> USE DEF pc
<1>0. GoOn(r)
  BY DEF GoOn
<1>1. PICK w \in request[r].left :
        /\ request' = [request EXCEPT ![r].left = @ \ {w}]
        /\ \/ Storage!DeleteFile(w.path) /\ UNCHANGED leaked
           \/ Storage!DeleteFails(w.path) /\ leaked' = leaked \cup {w.path}
  BY DEF DeleteFile
<1>2. /\ UNCHANGED assets /\ pc(r) = "delete" /\ pc(r)' = "delete"
      /\ request'[r].id = request[r].id /\ request'[r].versions = request[r].versions
      /\ request'[r].left = request[r].left \ {w} /\ leaked \subseteq leaked'
  BY <1>1 DEF DeleteFile, TypeOK, RequestState
<1>3. DOMAIN files' \subseteq DOMAIN files /\ (w.path \in DOMAIN files' => w.path \in leaked')
  BY <1>1 DEF Storage!DeleteFile, Storage!DeleteFails, Storage!storage, Restrict, Storage!Restrict
<1>4. RowsAreSettled'
  BY <1>0, <1>2, RowsStaySettled DEF FilesExplained
<1>5. ASSUME NEW x \in DOMAIN files' PROVE Explained(x)'
  <2>1. CASE x = w.path
    BY <1>3, <1>5, <2>1 DEF Explained
  <2>2. CASE x # w.path
    <3>1. Explained(x) /\ ~Uploads(r, x)
      BY <1>2, <1>3, <1>5 DEF FilesExplained, Uploads, Uploading
    <3>2. ASSUME NEW id \in DOMAIN assets, NEW v \in assets[id].versions, v.path = x, Kept(id, v),
                 pc(r)' = "delete", request'[r].id = id, v \in request'[r].versions
          PROVE  v \in request'[r].left
      BY <1>2, <2>2, <3>2 DEF Kept
    <3> QED
      BY <1>0, <1>2, <3>1, <3>2, StillExplained
  <2> QED
    BY <2>1, <2>2
<1> QED
  BY <1>4, <1>5 DEF FilesExplained

LEMMA RemoveExplains ==
  ASSUME TypeOK, FilesExplained, NEW r \in Request, Remove(r)
  PROVE  FilesExplained'
<1> USE DEF pc
<1> DEFINE id == request[r].id
<1>0. GoOn(r)
  BY DEF GoOn
<1>1. /\ pc(r) = "delete" /\ pc(r)' = "done" /\ request[r].left = {}
      /\ UNCHANGED files /\ leaked \subseteq leaked'
      /\ DOMAIN assets' = DOMAIN assets \ {id}
      /\ \A i \in DOMAIN assets' : assets'[i] = assets[i]
      /\ id \in DOMAIN assets => \A v \in assets[id].versions :
           v \in request[r].versions \/ v.path \in leaked'
  BY RemoveIs, OverIs
<1>2. RowsAreSettled'
  BY <1>0, <1>1, RowsStaySettled DEF FilesExplained
<1>3. ASSUME NEW p \in DOMAIN files PROVE Explained(p)'
  <2>1. Explained(p) /\ ~Uploads(r, p)
    BY <1>1 DEF FilesExplained, Uploads, Uploading
  <2>2. ASSUME NEW i \in DOMAIN assets, NEW v \in assets[i].versions, v.path = p, Kept(i, v)
        PROVE  Explained(p)' \/ (i \in DOMAIN assets' /\ v \in assets'[i].versions)
    <3>1. CASE i # id
      BY <1>1, <3>1
    <3>2. CASE i = id
      <4>1. v \notin request[r].versions
        BY <1>1, <2>2, <3>2 DEF Kept
      <4> QED
        BY <1>1, <2>2, <3>2, <4>1 DEF Explained
    <3> QED
      BY <3>1, <3>2
  <2> QED
    BY <1>0, <1>1, <2>1, <2>2, StillExplained
<1> QED
  BY <1>1, <1>2, <1>3 DEF FilesExplained

LEMMA StepExplains == IInv /\ FilesExplained /\ [Next]_vars => FilesExplained'
<1> SUFFICES ASSUME IInv, FilesExplained, [Next]_vars PROVE FilesExplained'
  OBVIOUS
<1>0. TypeOK /\ StepsFit /\ Rest
  BY DEF IInv, Rest
<1>1. ASSUME NEW r \in Request, Ask(r) PROVE FilesExplained'
  BY <1>0, <1>1, AskExplains
<1>2. ASSUME NEW r \in Request, GoOn(r) PROVE FilesExplained'
  <2>1. RecordAsset(r) => pc(r)' = "reply"
    BY <1>0, AtIs DEF RecordAsset, pc
  <2>2. CASE (RecordAsset(r) \/ RecordVersion(r)) /\ pc(r)' = "reply"
    BY <1>0, <2>2, RecordExplains
  <2>3. CASE DeleteFile(r)
    BY <1>0, <2>3, DeleteFileExplains
  <2>4. CASE Remove(r)
    BY <1>0, <2>4, RemoveExplains
  <2>5. CASE ~(RecordAsset(r) \/ (RecordVersion(r) /\ pc(r)' = "reply") \/ DeleteFile(r) \/ Remove(r))
    BY <1>0, <1>2, <2>5, QuietExplains DEF GoOn
  <2> QED
    BY <2>1, <2>2, <2>3, <2>4, <2>5
<1>3. CASE Tick \/ UNCHANGED vars
  <2>1. UNCHANGED <<assets, files, request, leaked>>
    BY <1>3 DEF Tick, vars, storage, ghosts
  <2> QED
    BY <2>1 DEF FilesExplained, RowsAreSettled, Settled, Explained, Kept, Uploads, Uploading, pc
<1> QED
  BY <1>1, <1>2, <1>3 DEF Next

(* When no request runs, the files that belong to no version are those of  *)
(* uploads that failed, and those a Delete could not delete or never saw:  *)
(* no other interleaving leaves garbage (BaseAssetService.Delete,          *)
(* AddNewVersion).                                                         *)
THEOREM NoOtherGarbage == Spec => []GarbageIsExplained
<1>1. Init => IInv /\ FilesExplained
  BY InitInv, InitExplained
<1>2. IInv /\ FilesExplained /\ [Next]_vars => (IInv /\ FilesExplained)'
  BY StepInv, StepExplains
<1>3. FilesExplained => GarbageIsExplained
  <2> SUFFICES ASSUME FilesExplained, \A r \in Request : ~Running(r), NEW p \in DOMAIN files
               PROVE  \/ p \in Recorded \cup leaked
                      \/ \E r \in Request : pc(r) = "failed" /\ request[r].path = p
    BY DEF GarbageIsExplained
  <2>1. Explained(p)
    BY DEF FilesExplained
  <2>2. \A r \in Request : ~Uploads(r, p)
    BY DEF Uploads, Uploading, Running
  <2>3. ASSUME NEW id \in DOMAIN assets, NEW v \in assets[id].versions, v.path = p
        PROVE  p \in Recorded
    BY <2>3 DEF Recorded
  <2> QED
    BY <2>1, <2>2, <2>3 DEF Explained
<1> QED
  BY <1>1, <1>2, <1>3, PTL DEF Spec

-------------------------------------------------------------------------------
(* Whose a path is.  One that is not tainted is either claimed by the one  *)
(* upload that made it up, which finds what it wrote there, or on record   *)
(* for one asset, whose Delete alone may take its file.                    *)

Marked ==
  \A r \in Request :
    /\ pc(r) # "delete" => request[r].left = {}
    /\ request[r].op = "RestoreOldVersion" /\ pc(r) \in {"version", "record"} =>
         request[r].path = NoPath
    /\ request[r].op = "RestoreOldVersion" /\ pc(r) = "record" =>
         request[r].old \in request[r].versions

OwnFile(r, p) ==
  /\ \A q \in Request \ {r} : ~Claims(q, p)
  /\ p \notin Recorded
  /\ pc(r) = "open" => ~Storage!Exists(p)
  /\ pc(r) = "info" /\ Storage!Exists(p) => files[p] = r
  /\ pc(r) = "record" => Storage!Exists(p) /\ files[p] = r

OwnRow(id, v) ==
  /\ id \notin halved => Storage!Exists(v.path) /\ files[v.path] = v.of
  /\ \A i \in DOMAIN assets : \A w \in assets[i].versions : w.path = v.path => i = id
  /\ \A r \in Request : v.path \in PathsLeft(r) => request[r].id = id

Owned(p) ==
  /\ \A r \in Request : Uploads(r, p) => OwnFile(r, p)
  /\ \A id \in DOMAIN assets : \A v \in assets[id].versions : v.path = p => OwnRow(id, v)

PathsAreOwned == Marked /\ \A p \in Path \ tainted : Owned(p)

LEMMA NoPathIsNone == NoPath \notin Path
<1>1. \A id \in Id : Scope(id) # 0
  <2> SUFFICES ASSUME NEW id \in Id PROVE Scope(id) # 0
    OBVIOUS
  <2>1. id \in Nat
    BY AssetsAssumption DEF Id
  <2>2. id \div 100 \in Nat /\ 100 * (id \div 100) \in Nat /\ 100 * (id \div 100 + 1) \in Nat
    BY <2>1
  <2>3. RoundOff(id) \in Nat
    BY <2>2 DEF RoundOff
  <2> QED
    BY <2>3 DEF Scope
<1> QED
  BY <1>1 DEF NoPath, Path

LEMMA RowIsRecorded ==
  ASSUME NEW id \in DOMAIN assets, NEW v \in assets[id].versions
  PROVE  v.path \in Recorded
BY DEF Recorded

LEMMA RecordedHasRow ==
  ASSUME NEW p \in Recorded
  PROVE  \E id \in DOMAIN assets : \E v \in assets[id].versions : v.path = p
BY DEF Recorded

LEMMA InitOwned == Init => PathsAreOwned
<1> SUFFICES ASSUME Init PROVE PathsAreOwned
  OBVIOUS
<1>0. PICK p : p = Named(FirstId, AsUploaded)
  OBVIOUS
<1>1. /\ DOMAIN files = {p} /\ files[p] = Seed
      /\ \A r \in Request : request[r].pc = "idle" /\ request[r].left = {}
  BY <1>0 DEF Init, Idle
<1>2. Marked
  BY <1>1 DEF Marked, pc
<1>3. \A r \in Request : \A x : ~Uploads(r, x)
  BY <1>1 DEF Uploads, Uploading, pc
<1>4. \A v \in assets[FirstId].versions : OwnRow(FirstId, v)
  BY <1>0, <1>1, InitRows DEF OwnRow, Storage!Exists
<1> QED
  BY <1>2, <1>3, <1>4, InitRows DEF PathsAreOwned, Owned

(* What the steps do to the marks on a request. *)
LEMMA MarkedStep ==
  ASSUME TypeOK, StepsFit, Marked, NEW r \in Request, Ask(r) \/ GoOn(r)
  PROVE  Marked'
<1> USE DEF pc
<1>1. \A q \in Request \ {r} : request'[q] = request[q]
  BY SettledStays
<1>2. ASSUME /\ pc(r)' # "delete" => request'[r].left = {}
             /\ request'[r].op = "RestoreOldVersion" /\ pc(r)' \in {"version", "record"} =>
                  request'[r].path = NoPath
             /\ request'[r].op = "RestoreOldVersion" /\ pc(r)' = "record" =>
                  request'[r].old \in request'[r].versions
      PROVE  Marked'
  BY <1>1, <1>2 DEF Marked
<1>3. CASE Ask(r)
  BY <1>2, <1>3, AskIs
<1>4. ASSUME NEW p \in {"done", "failed"}, Over(r, p) PROVE Marked'
  BY <1>2, <1>4, OverIs
<1>5. ASSUME NEW p \in {"resolve", "write", "info", "record", "reply"}, At(r, p), pc(r) # "delete",
             p = "record" => request[r].op # "RestoreOldVersion"
      PROVE  Marked'
  <2>1. request[r].left = {}
    BY <1>5 DEF Marked
  <2> QED
    BY <1>2, <1>5, <2>1, AtIs
<1>6. ASSUME NEW p, Choose(r, p), pc(r) # "delete" PROVE Marked'
  <2>1. request[r].left = {}
    BY <1>6 DEF Marked
  <2> QED
    BY <1>2, <1>6, <2>1, ChooseIs
<1>7. CASE LookUp(r) \/ Resolve(r)
  BY <1>5, <1>6, <1>7 DEF LookUp, Resolve
<1>8. CASE Open(r) \/ Write(r) \/ FileInfo(r)
  BY <1>4, <1>5, <1>8 DEF Open, Write, FileInfo, StepsFit
<1>9. CASE GetVersion(r)
  <2>1. pc(r) = "version" /\ request[r].op = "RestoreOldVersion"
    BY <1>9 DEF GetVersion, StepsFit
  <2>2. request[r].left = {} /\ request[r].path = NoPath
    BY <2>1 DEF Marked
  <2>3. ASSUME NEW v \in assets[request[r].id].versions, HitIs(r, v) PROVE Marked'
    BY <1>2, <2>2, <2>3, HitLeaves
  <2> QED
    BY <1>4, <1>9, <2>3, GetVersionIs
<1>10. CASE RecordAsset(r) \/ RecordVersion(r)
  BY <1>4, <1>5, <1>10 DEF RecordAsset, RecordVersion
<1>11. CASE Reply(r) \/ Throws(r) \/ Remove(r) \/ Update(r)
  BY <1>4, <1>11 DEF Reply, Throws, Remove, Update
<1>12. CASE DeleteFile(r)
  <2>1. pc(r)' = "delete"
    BY <1>12 DEF DeleteFile, TypeOK, RequestState
  <2> QED
    BY <1>2, <2>1
<1> QED
  BY <1>3, <1>7, <1>8, <1>9, <1>10, <1>11, <1>12 DEF GoOn

(* A step that leaves a path's file, adds no row and claims nothing new. *)
LEMMA StillOwned ==
  ASSUME NEW r \in Request, NEW p, Owned(p),
         \A q \in Request \ {r} : request'[q] = request[q],
         p \in DOMAIN files' <=> p \in DOMAIN files, p \in DOMAIN files => files'[p] = files[p],
         halved \subseteq halved', DOMAIN assets' \subseteq DOMAIN assets,
         \A id \in DOMAIN assets' : assets'[id].versions \subseteq assets[id].versions,
         p \in PathsLeft(r)' => p \in PathsLeft(r) /\ request'[r].id = request[r].id,
         Claims(r, p)' => Claims(r, p),
         Uploads(r, p)' =>
           /\ Uploads(r, p) /\ pc(r)' # "open"
           /\ pc(r)' = "info" /\ p \in DOMAIN files => files[p] = r
           /\ pc(r)' = "record" => p \in DOMAIN files /\ files[p] = r
  PROVE  Owned(p)'
<1> USE DEF pc, Storage!Exists
<1>1. p \in Recorded' => p \in Recorded
  BY DEF Recorded
<1>2. \A q \in Request : Claims(q, p)' => Claims(q, p)
  BY DEF Claims, Uploading
<1>3. ASSUME NEW q \in Request, Uploads(q, p)' PROVE OwnFile(q, p)'
  <2>1. Uploads(q, p)
    BY <1>3 DEF Uploads, Uploading
  <2>2. OwnFile(q, p)
    BY <2>1 DEF Owned
  <2>3. \A s \in Request \ {q} : ~Claims(s, p)'
    BY <1>2, <2>2 DEF OwnFile
  <2>4. p \notin Recorded'
    BY <1>1, <2>2 DEF OwnFile
  <2>5. CASE q = r
    BY <1>3, <2>3, <2>4, <2>5 DEF OwnFile
  <2>6. CASE q # r
    BY <2>2, <2>3, <2>4, <2>6 DEF OwnFile
  <2> QED
    BY <2>5, <2>6
<1>4. ASSUME NEW id \in DOMAIN assets', NEW v \in assets'[id].versions, v.path = p
      PROVE  OwnRow(id, v)'
  <2>1. id \in DOMAIN assets /\ v \in assets[id].versions
    OBVIOUS
  <2>2. OwnRow(id, v)
    BY <1>4, <2>1 DEF Owned
  <2>3. id \notin halved' => p \in DOMAIN files' /\ files'[p] = v.of
    BY <1>4, <2>2 DEF OwnRow
  <2>4. \A i \in DOMAIN assets' : \A w \in assets'[i].versions : w.path = p => i = id
    BY <1>4, <2>2 DEF OwnRow
  <2>5. \A q \in Request : p \in PathsLeft(q)' => request'[q].id = id
    BY <1>4, <2>2 DEF OwnRow
  <2> QED
    BY <1>4, <2>3, <2>4, <2>5 DEF OwnRow
<1> QED
  BY <1>3, <1>4 DEF Owned

(* A new claim: a Delete's is on recorded paths, an upload's on one that   *)
(* is free.                                                                *)
LEMMA AskOwned ==
  ASSUME TypeOK, Marked, NEW r \in Request, Ask(r), NEW p \in Path, Owned(p)
  PROVE  Owned(p)'
<1> USE DEF pc
<1>1. /\ \A q \in Request \ {r} : request'[q] = request[q]
      /\ UNCHANGED <<assets, files, halved>>
      /\ pc(r)' \in {"look", "version", "delete", "update", "failed"}
      /\ pc(r)' # "delete" => request'[r].left = {}
  BY AskIs DEF storage, ghosts
<1>2. ~Uploads(r, p)' /\ (Claims(r, p)' => p \in PathsLeft(r)')
  BY <1>1 DEF Uploads, Uploading, Claims
<1>3. CASE p \notin PathsLeft(r)'
  BY <1>1, <1>2, <1>3, StillOwned
<1>4. CASE p \in PathsLeft(r)'
  <2>1. PICK i : i = request'[r].id
    OBVIOUS
  <2>2. i \in DOMAIN assets /\ request'[r].left = assets[i].versions
    BY <1>1, <1>4, <2>1, AskIs
  <2>3. PICK v \in assets[i].versions : v.path = p
    BY <1>4, <2>2
  <2>4. p \in Recorded
    BY <2>2, <2>3, RowIsRecorded
  <2>5. \A q \in Request : ~Uploads(q, p)
    BY <2>4 DEF Owned, OwnFile
  <2>6. \A q \in Request : ~Uploads(q, p)'
    <3>1. \A q \in Request \ {r} : ~Uploads(q, p)'
      BY <1>1, <2>5 DEF Uploads, Uploading
    <3> QED
      BY <1>2, <3>1
  <2>7. ASSUME NEW id \in DOMAIN assets, NEW w \in assets[id].versions, w.path = p
        PROVE  OwnRow(id, w)'
    <3>1. OwnRow(id, w) /\ OwnRow(i, v)
      BY <2>2, <2>3, <2>7 DEF Owned
    <3>2. id = i
      BY <2>2, <2>3, <2>7, <3>1 DEF OwnRow
    <3>3. \A q \in Request : p \in PathsLeft(q)' => request'[q].id = id
      BY <1>1, <2>1, <2>7, <3>1, <3>2 DEF OwnRow
    <3> QED
      BY <1>1, <2>7, <3>1, <3>3 DEF OwnRow, Storage!Exists
  <2> QED
    BY <1>1, <2>6, <2>7 DEF Owned
<1> QED
  BY <1>3, <1>4

LEMMA ChooseOwned ==
  ASSUME TypeOK, Marked, NEW r \in Request, NEW x \in Path, Choose(r, x),
         pc(r) # "delete", x.ticks = AsUploaded => ~Storage!Exists(x),
         NEW p \in Path \ tainted', Owned(p)
  PROVE  Owned(p)'
<1> USE DEF pc
<1>1. /\ \A q \in Request \ {r} : request'[q] = request[q]
      /\ request'[r].path = x /\ request'[r].pc = "open" /\ request'[r].left = {}
      /\ UNCHANGED <<assets, files, halved>>
  BY ChooseIs DEF Choose, Marked, storage
<1>2. CASE p # x
  <2>1. ~Uploads(r, p)' /\ ~Claims(r, p)'
    BY <1>1, <1>2 DEF Uploads, Uploading, Claims
  <2> QED
    BY <1>1, <2>1, StillOwned
<1>3. CASE p = x
  <2>1. ~Contested(r, p)
    BY <1>3 DEF Choose
  <2>2. ~Storage!Exists(p) /\ p \notin Recorded /\ \A q \in Request \ {r} : ~Claims(q, p)
    BY <1>3, <2>1 DEF Contested
  <2>3. p \notin Recorded' /\ ~Storage!Exists(p)'
    BY <1>1, <2>2 DEF Recorded, Storage!Exists
  <2>4. \A q \in Request \ {r} : ~Claims(q, p)' /\ ~Uploads(q, p)'
    BY <1>1, <2>2 DEF Claims, Uploads, Uploading
  <2>5. OwnFile(r, p)'
    BY <1>1, <2>3, <2>4 DEF OwnFile
  <2>6. \A id \in DOMAIN assets : \A v \in assets[id].versions : v.path # p
    BY <2>2, RowIsRecorded
  <2> QED
    BY <1>1, <2>4, <2>5, <2>6 DEF Owned
<1> QED
  BY <1>2, <1>3

(* The file is written at the path of the upload, which nobody else        *)
(* claims.                                                                 *)
LEMMA WriteOwned ==
  ASSUME TypeOK, StepsFit, NEW r \in Request, Open(r) \/ Write(r),
         NEW p \in Path \ tainted', Owned(p)
  PROVE  Owned(p)'
<1> USE DEF pc
<1>0. PICK x : x = request[r].path
  OBVIOUS
<1>1. PICK next \in {"write", "info"} : At(r, next)
  BY DEF Open, Write
<1>2. /\ \A q \in Request \ {r} : request'[q] = request[q]
      /\ request'[r].pc = next /\ request'[r].path = x /\ request'[r].op = request[r].op
      /\ request'[r].id = request[r].id /\ request'[r].left = request[r].left
      /\ UNCHANGED <<assets, halved>>
      /\ pc(r) \in {"open", "write"} /\ request[r].op # "RestoreOldVersion"
      /\ files \in [DOMAIN files -> Upload \cup {Truncated}]
  BY <1>0, <1>1, AtIs DEF Open, Write, ghosts, StepsFit, TypeOK, Storage!StorageTypeOK
<1>3. \/ Storage!OpenFile(x) /\ next = "write"
      \/ Storage!OpenFails(x) /\ next = "info" /\ pc(r) = "open"
      \/ Storage!WriteFile(x, r) /\ next = "info"
      \/ UNCHANGED files /\ x \in tainted'
  <2>1. At(r, "write") => next = "write"
    BY <1>2, AtIs
  <2>2. At(r, "info") => next = "info"
    BY <1>2, AtIs
  <2> QED
    BY <1>0, <2>1, <2>2 DEF Open, Write, Storage!WriteFails
<1>4. CASE p # x
  <2>1. (p \in DOMAIN files' <=> p \in DOMAIN files) /\ (p \in DOMAIN files => files'[p] = files[p])
    BY <1>3, <1>4 DEF Storage!OpenFile, Storage!OpenFails, Storage!WriteFile, Storage!With, Storage!storage
  <2>2. ~Uploads(r, p)' /\ (Claims(r, p)' => Claims(r, p))
    BY <1>2, <1>4 DEF Uploads, Claims, Uploading
  <2> QED
    BY <1>2, <2>1, <2>2, StillOwned
<1>5. CASE p = x
  <2>1. Uploads(r, p)
    BY <1>0, <1>2, <1>5 DEF Uploads, Uploading
  <2>2. OwnFile(r, p)
    BY <2>1 DEF Owned
  <2>3. p \notin Recorded' /\ \A q \in Request \ {r} : ~Claims(q, p)' /\ ~Uploads(q, p)'
    BY <1>2, <2>2 DEF OwnFile, Recorded, Claims, Uploads, Uploading
  <2>4. next = "info" /\ p \in DOMAIN files' => files'[p] = r
    BY <1>3, <1>5, <2>2 DEF OwnFile, Storage!OpenFails, Storage!WriteFile, Storage!With, Storage!storage,
                            Storage!Exists
  <2>5. OwnFile(r, p)'
    BY <1>2, <2>3, <2>4 DEF OwnFile, Storage!Exists
  <2>6. \A id \in DOMAIN assets : \A v \in assets[id].versions : v.path # p
    BY <2>2, RowIsRecorded DEF OwnFile
  <2> QED
    BY <1>2, <2>3, <2>5, <2>6 DEF Owned
<1> QED
  BY <1>4, <1>5

(* The only file a Delete can take is of its own asset, which is halved    *)
(* from then on.                                                           *)
LEMMA DeleteFileOwned ==
  ASSUME TypeOK, NEW r \in Request, DeleteFile(r), NEW p \in Path, Owned(p)
  PROVE  Owned(p)'
<1> USE DEF pc
<1>1. PICK w \in request[r].left :
        /\ request' = [request EXCEPT ![r].left = @ \ {w}]
        /\ \/ Storage!DeleteFile(w.path) /\ halved' = halved \cup {request[r].id}
           \/ Storage!DeleteFails(w.path) /\ UNCHANGED halved
  BY DEF DeleteFile
<1>2. /\ \A q \in Request \ {r} : request'[q] = request[q]
      /\ request'[r].pc = "delete" /\ pc(r) = "delete" /\ request'[r].id = request[r].id
      /\ request'[r].path = request[r].path
      /\ request'[r].left = request[r].left \ {w} /\ UNCHANGED assets /\ halved \subseteq halved'
  BY <1>1 DEF DeleteFile, TypeOK, RequestState
<1>3. ~Uploads(r, p)' /\ (Claims(r, p)' => Claims(r, p))
  BY <1>2 DEF Uploads, Claims, Uploading
<1>4. CASE p # w.path \/ Storage!DeleteFails(w.path)
  <2>1. (p \in DOMAIN files' <=> p \in DOMAIN files) /\ (p \in DOMAIN files => files'[p] = files[p])
    BY <1>1, <1>4 DEF Storage!DeleteFile, Storage!DeleteFails, Restrict, Storage!Restrict, Storage!storage
  <2> QED
    BY <1>2, <1>3, <2>1, StillOwned
<1>5. CASE p = w.path /\ ~Storage!DeleteFails(w.path)
  <2>1. request[r].id \in halved'
    BY <1>1, <1>5
  <2>2. Claims(r, p) /\ ~Uploads(r, p)
    BY <1>2, <1>5 DEF Claims, Uploads, Uploading
  <2>3. \A q \in Request : ~Uploads(q, p)
    BY <2>2 DEF Owned, OwnFile
  <2>4. \A q \in Request : ~Uploads(q, p)'
    <3>1. \A q \in Request \ {r} : ~Uploads(q, p)'
      BY <1>2, <2>3 DEF Uploads, Uploading
    <3> QED
      BY <1>3, <3>1
  <2>5. ASSUME NEW id \in DOMAIN assets, NEW v \in assets[id].versions, v.path = p
        PROVE  OwnRow(id, v)'
    <3>1. OwnRow(id, v)
      BY <2>5 DEF Owned
    <3>2. id = request[r].id
      BY <1>5, <2>5, <3>1 DEF OwnRow
    <3>3. \A q \in Request : p \in PathsLeft(q)' => request'[q].id = id
      BY <1>2, <2>5, <3>1 DEF OwnRow
    <3> QED
      BY <1>2, <2>1, <2>5, <3>1, <3>2, <3>3 DEF OwnRow
  <2> QED
    BY <1>2, <2>4, <2>5 DEF Owned
<1> QED
  BY <1>4, <1>5

(* What is recorded: the upload's own file, or the one a version that is   *)
(* on record already has.                                                  *)
LEMMA RecordOwned ==
  ASSUME TypeOK, StepsFit, Rest, Marked, NEW r \in Request, RecordAsset(r) \/ RecordVersion(r),
         pc(r)' = "reply", NEW p \in Path, Owned(p)
  PROVE  Owned(p)'
<1> USE DEF pc
<1>0. PICK id : id = request[r].id
  OBVIOUS
<1>1. /\ \A q \in Request \ {r} : request'[q] = request[q]
      /\ request'[r].left = {} /\ request[r].left = {} /\ pc(r) = "record"
      /\ UNCHANGED <<files, halved>>
  <2>1. At(r, "reply") /\ pc(r) = "record" /\ UNCHANGED <<storage, ghosts>>
    BY RecordIs
  <2> QED
    BY <2>1, AtIs DEF Marked, storage, ghosts
<1>2. PICK v \in Version :
        /\ IF request[r].op = "RestoreOldVersion"
           THEN /\ v.path = request[r].old.path /\ v.of = request[r].old.of
                /\ id \in DOMAIN assets
           ELSE v.path = request[r].path /\ v.of = r
        /\ DOMAIN assets' = DOMAIN assets \cup {id}
        /\ \A i \in DOMAIN assets' : \A w \in assets'[i].versions :
             \/ i = id /\ w = v
             \/ i \in DOMAIN assets /\ w \in assets[i].versions
  BY <1>0, RecordIs
<1>3. ~Uploads(r, p)' /\ ~Claims(r, p)'
  BY <1>1 DEF Uploads, Claims, Uploading
<1>4. \A q \in Request : /\ Uploads(q, p)' => q # r /\ Uploads(q, p)
                         /\ Claims(q, p)' => q # r /\ Claims(q, p)
                         /\ p \in PathsLeft(q)' => q # r /\ p \in PathsLeft(q)
  <2>1. \A q \in Request \ {r} : /\ Uploads(q, p)' <=> Uploads(q, p)
                                 /\ Claims(q, p)' <=> Claims(q, p)
    BY <1>1 DEF Uploads, Claims, Uploading
  <2> QED
    BY <1>1, <1>3, <2>1
<1>5. CASE v.path # p
  <2>1. \A i \in DOMAIN assets' : \A w \in assets'[i].versions :
          w.path = p => i \in DOMAIN assets /\ w \in assets[i].versions
    BY <1>2, <1>5
  <2>2. p \in Recorded' => p \in Recorded
    BY <2>1 DEF Recorded
  <2>3. ASSUME NEW q \in Request, Uploads(q, p)' PROVE OwnFile(q, p)'
    <3>1. q # r /\ OwnFile(q, p)
      BY <1>4, <2>3 DEF Owned
    <3>2. \A s \in Request \ {q} : ~Claims(s, p)'
      BY <1>4, <3>1 DEF OwnFile
    <3> QED
      BY <1>1, <2>2, <3>1, <3>2 DEF OwnFile, Storage!Exists
  <2>4. ASSUME NEW i \in DOMAIN assets', NEW w \in assets'[i].versions, w.path = p
        PROVE  OwnRow(i, w)'
    <3>1. OwnRow(i, w)
      BY <2>1, <2>4 DEF Owned
    <3>2. \A q \in Request : p \in PathsLeft(q)' => request'[q].id = i
      BY <1>1, <2>4, <3>1 DEF OwnRow
    <3>3. \A j \in DOMAIN assets' : \A u \in assets'[j].versions : u.path = p => j = i
      BY <2>1, <2>4, <3>1 DEF OwnRow
    <3> QED
      BY <1>1, <2>4, <3>1, <3>2, <3>3 DEF OwnRow, Storage!Exists
  <2> QED
    BY <2>3, <2>4 DEF Owned
<1>6. CASE v.path = p /\ request[r].op # "RestoreOldVersion"
  <2>1. Uploads(r, p) /\ v.of = r
    BY <1>1, <1>2, <1>6 DEF Uploads, Uploading
  <2>2. OwnFile(r, p)
    BY <2>1 DEF Owned
  <2>3. \A q \in Request : ~Uploads(q, p)' /\ p \notin PathsLeft(q)'
    BY <1>4, <2>2 DEF OwnFile, Claims, Uploads
  <2>4. \A i \in DOMAIN assets' : \A w \in assets'[i].versions : w.path = p => i = id /\ w = v
    BY <1>2, <2>2, RowIsRecorded DEF OwnFile
  <2>5. p \in DOMAIN files' /\ files'[p] = r
    BY <1>1, <2>2 DEF OwnFile, Storage!Exists
  <2>6. ASSUME NEW i \in DOMAIN assets', NEW w \in assets'[i].versions, w.path = p
        PROVE  OwnRow(i, w)'
    BY <2>1, <2>3, <2>4, <2>5, <2>6 DEF OwnRow, Storage!Exists
  <2> QED
    BY <2>3, <2>6 DEF Owned
<1>7. CASE v.path = p /\ request[r].op = "RestoreOldVersion"
  <2>1. PICK old : old = request[r].old
    OBVIOUS
  <2>2. /\ id \in DOMAIN assets /\ old \in assets[id].versions
        /\ old.path = p /\ v.of = old.of
    <3>1. Holds(r) /\ old \in request[r].versions
      BY <1>1, <1>7, <2>1 DEF Holds, Marked
    <3> QED
      BY <1>0, <1>2, <1>7, <2>1, <3>1 DEF Rest, HeldIsStillThere
  <2>3. OwnRow(id, old) /\ p \in Recorded
    BY <2>2, RowIsRecorded DEF Owned
  <2>4. \A q \in Request : ~Uploads(q, p)'
    BY <1>4, <2>3 DEF Owned, OwnFile
  <2>5. ASSUME NEW i \in DOMAIN assets', NEW w \in assets'[i].versions, w.path = p
        PROVE  /\ i = id
               /\ id \notin halved => p \in DOMAIN files /\ files[p] = w.of
    <3>1. CASE i = id /\ w = v
      BY <1>7, <2>2, <2>3, <3>1 DEF OwnRow, Storage!Exists
    <3>2. CASE i \in DOMAIN assets /\ w \in assets[i].versions
      <4>1. OwnRow(i, w)
        BY <2>5, <3>2 DEF Owned
      <4> QED
        BY <2>2, <2>3, <2>5, <3>2, <4>1 DEF OwnRow, Storage!Exists
    <3> QED
      BY <1>2, <3>1, <3>2
  <2>6. \A q \in Request : p \in PathsLeft(q)' => request'[q].id = id
    BY <1>1, <1>4, <2>2, <2>3 DEF OwnRow
  <2>7. ASSUME NEW i \in DOMAIN assets', NEW w \in assets'[i].versions, w.path = p
        PROVE  OwnRow(i, w)'
    BY <1>1, <2>5, <2>6, <2>7 DEF OwnRow, Storage!Exists
  <2> QED
    BY <2>4, <2>7 DEF Owned
<1> QED
  BY <1>5, <1>6, <1>7

(* The steps that neither claim a path nor write. *)
LEMMA QuietOwned ==
  ASSUME TypeOK, StepsFit, Marked, NEW r \in Request,
         \/ (LookUp(r) /\ At(r, "resolve")) \/ FileInfo(r) \/ GetVersion(r)
         \/ Reply(r) \/ Throws(r) \/ Remove(r) \/ Update(r)
         \/ (RecordVersion(r) /\ pc(r)' # "reply"),
         NEW p \in Path, Owned(p)
  PROVE  Owned(p)'
<1> USE DEF pc
<1>0. ASSUME UNCHANGED <<files, halved>>, DOMAIN assets' \subseteq DOMAIN assets,
             \A id \in DOMAIN assets' : assets'[id].versions \subseteq assets[id].versions,
             Over(r, "done") \/ Over(r, "failed")
      PROVE  Owned(p)'
  <2>1. /\ \A q \in Request \ {r} : request'[q] = request[q]
        /\ request'[r].left = {} /\ request'[r].pc \in {"done", "failed"}
    BY <1>0, OverIs
  <2>2. ~Uploads(r, p)' /\ ~Claims(r, p)'
    BY <2>1 DEF Uploads, Claims, Uploading
  <2> QED
    BY <1>0, <2>1, <2>2, StillOwned
<1>1. CASE LookUp(r) /\ At(r, "resolve")
  <2>1. UNCHANGED <<assets, files, halved>>
    BY <1>1, AtIs, ChooseIs DEF LookUp, Choose, storage, ghosts
  <2>2. /\ \A q \in Request \ {r} : request'[q] = request[q]
        /\ request'[r].left = request[r].left /\ request'[r].id = request[r].id
        /\ request'[r].pc = "resolve"
    BY <1>1, AtIs
  <2>3. ~Uploads(r, p)' /\ (Claims(r, p)' => Claims(r, p))
    BY <2>2 DEF Uploads, Claims, Uploading
  <2> QED
    BY <2>1, <2>2, <2>3, StillOwned
<1>2. CASE FileInfo(r)
  <2>0. UNCHANGED <<assets, files, halved>> /\ pc(r) = "info"
    BY <1>2 DEF FileInfo, storage, ghosts
  <2>1. CASE At(r, "record") /\ Storage!Exists(request[r].path)
    <3>1. /\ \A q \in Request \ {r} : request'[q] = request[q]
          /\ request'[r].left = request[r].left /\ request'[r].id = request[r].id
          /\ request'[r].op = request[r].op /\ request'[r].path = request[r].path
          /\ request'[r].pc = "record"
      BY <2>1, AtIs
    <3>2. /\ Uploads(r, p)' => Uploads(r, p)
          /\ Claims(r, p)' => Claims(r, p)
      BY <2>0, <3>1 DEF Uploads, Claims, Uploading
    <3>3. Uploads(r, p) => p \in DOMAIN files /\ files[p] = r
      BY <2>0, <2>1 DEF Owned, OwnFile, Uploads, Storage!Exists
    <3> QED
      BY <2>0, <3>1, <3>2, <3>3, StillOwned
  <2>2. CASE Over(r, "failed")
    BY <1>0, <2>0, <2>2
  <2> QED
    BY <1>2, <2>1, <2>2 DEF FileInfo
<1>3. CASE GetVersion(r)
  <2>0. UNCHANGED <<assets, files, halved>> /\ pc(r) = "version" /\ request[r].op = "RestoreOldVersion"
    BY <1>3 DEF GetVersion, StepsFit, storage, ghosts
  <2>1. ASSUME NEW v, HitIs(r, v) PROVE Owned(p)'
    <3>1. /\ \A q \in Request \ {r} : request'[q] = request[q]
          /\ request'[r].left = request[r].left /\ request'[r].id = request[r].id
          /\ request'[r].op = request[r].op /\ request'[r].path = request[r].path
          /\ request'[r].pc = "record"
      BY <2>1, HitLeaves
    <3>2. request[r].path # p
      BY <2>0, NoPathIsNone DEF Marked
    <3>3. ~Uploads(r, p)' /\ (Claims(r, p)' => Claims(r, p))
      BY <3>1, <3>2 DEF Uploads, Claims, Uploading
    <3> QED
      BY <2>0, <3>1, <3>3, StillOwned
  <2> QED
    BY <1>0, <1>3, <2>0, <2>1, GetVersionIs
<1>4. CASE Reply(r) \/ Throws(r) \/ (RecordVersion(r) /\ pc(r)' # "reply")
  <2>1. (Over(r, "done") \/ Over(r, "failed")) /\ UNCHANGED <<assets, files, halved>>
    BY <1>4, AtIs DEF Reply, Throws, RecordVersion, storage, ghosts
  <2> QED
    BY <1>0, <2>1
<1>5. CASE Remove(r)
  BY <1>0, <1>5, RemoveIs
<1>6. CASE Update(r)
  BY <1>0, <1>6, UpdateIs DEF storage
<1> QED
  BY <1>1, <1>2, <1>3, <1>4, <1>5, <1>6

LEMMA StepOwned == IInv /\ PathsAreOwned /\ [Next]_vars => PathsAreOwned'
<1> SUFFICES ASSUME IInv, PathsAreOwned, [Next]_vars PROVE PathsAreOwned'
  OBVIOUS
<1>0. TypeOK /\ StepsFit /\ Rest /\ Marked
  BY DEF IInv, Rest, PathsAreOwned
<1>1. ASSUME NEW r \in Request, Ask(r) \/ GoOn(r) PROVE PathsAreOwned'
  <2>1. Marked'
    BY <1>0, <1>1, MarkedStep
  <2>2. tainted \subseteq tainted'
    <3>1. CASE Ask(r)
      BY <1>0, <3>1, AskIs DEF ghosts
    <3>2. CASE GoOn(r)
      BY <3>2 DEF GoOn, LookUp, Resolve, Choose, Open, Write, FileInfo, GetVersion, RecordAsset,
                  RecordVersion, Reply, DeleteFile, Remove, Update, Throws, ghosts
    <3> QED
      BY <1>1, <3>1, <3>2
  <2>3. ASSUME NEW p \in Path \ tainted' PROVE Owned(p)'
    <3>0. p \in Path /\ Owned(p)
      BY <2>2 DEF PathsAreOwned
    <3>1. CASE Ask(r)
      BY <1>0, <3>0, <3>1, AskOwned
    <3>2. CASE LookUp(r) /\ ~At(r, "resolve")
      <4>1. PICK x : x = Named(request[r].id, AsUploaded)
        OBVIOUS
      <4>2. x \in Path
        BY <1>0, <4>1, NamedType DEF TypeOK, RequestState
      <4> QED
        BY <1>0, <2>3, <3>0, <3>2, <4>1, <4>2, ChooseOwned DEF LookUp, pc
    <3>3. CASE Resolve(r)
      <4>1. PICK x : x = Named(request[r].id, now)
        OBVIOUS
      <4>2. x \in Path /\ x.ticks # AsUploaded
        <5>1. now \in Now /\ request[r].id \in Id
          BY <1>0 DEF TypeOK, RequestState
        <5> QED
          BY <4>1, <5>1, NamedType, AssetsAssumption DEF Named, AsUploaded
      <4> QED
        BY <1>0, <2>3, <3>0, <3>3, <4>1, <4>2, ChooseOwned DEF Resolve, pc
    <3>4. CASE Open(r) \/ Write(r)
      BY <1>0, <2>3, <3>0, <3>4, WriteOwned
    <3>5. CASE DeleteFile(r)
      BY <1>0, <3>0, <3>5, DeleteFileOwned
    <3>6. CASE (RecordAsset(r) \/ RecordVersion(r)) /\ pc(r)' = "reply"
      BY <1>0, <3>0, <3>6, RecordOwned
    <3>7. CASE \/ (LookUp(r) /\ At(r, "resolve")) \/ FileInfo(r) \/ GetVersion(r)
               \/ Reply(r) \/ Throws(r) \/ Remove(r) \/ Update(r)
               \/ (RecordVersion(r) /\ pc(r)' # "reply")
      BY <1>0, <3>0, <3>7, QuietOwned
    <3>8. RecordAsset(r) => pc(r)' = "reply"
      BY <1>0, AtIs DEF RecordAsset, pc
    <3> QED
      BY <1>1, <3>1, <3>2, <3>3, <3>4, <3>5, <3>6, <3>7, <3>8 DEF GoOn
  <2> QED
    BY <2>1, <2>3 DEF PathsAreOwned
<1>2. CASE Tick \/ UNCHANGED vars
  <2>1. UNCHANGED <<assets, files, request, tainted, halved>>
    BY <1>2 DEF Tick, vars, storage, ghosts
  <2> QED
    BY <2>1 DEF PathsAreOwned, Marked, Owned, OwnFile, OwnRow, Uploads, Uploading, Claims,
                Recorded, Storage!Exists, pc
<1> QED
  BY <1>1, <1>2 DEF Next

(* The file of a recorded version is the one that was uploaded for it,     *)
(* unless its path was contested when it was chosen (another request was   *)
(* storing a file there, or had one to delete there still, once for each   *)
(* version that has it), or a write to it failed, or a Delete has gone at  *)
(* the asset itself: nothing else that comes between the check for a free  *)
(* name (ScopedFileStorage.ResoveNameIfExists) and the write, or after it, *)
(* can take or replace the file.                                           *)
THEOREM RightFile == Spec => []RecordedFileIsTheOneUploaded
<1>1. Init => IInv /\ PathsAreOwned
  BY InitInv, InitOwned
<1>2. IInv /\ PathsAreOwned /\ [Next]_vars => (IInv /\ PathsAreOwned)'
  BY StepInv, StepOwned
<1>3. IInv /\ PathsAreOwned => RecordedFileIsTheOneUploaded
  <2> SUFFICES ASSUME IInv, PathsAreOwned, NEW id \in DOMAIN assets \ halved,
                      NEW v \in assets[id].versions, v.path \notin tainted
               PROVE  Storage!Exists(v.path) /\ files[v.path] = v.of
    BY DEF RecordedFileIsTheOneUploaded
  <2>1. v.path \in Path
    BY DEF IInv, TypeOK, AssetRow, Version
  <2>2. OwnRow(id, v)
    BY <2>1 DEF PathsAreOwned, Owned
  <2> QED
    BY <2>2 DEF OwnRow
<1> QED
  BY <1>1, <1>2, <1>3, PTL DEF Spec
===============================================================================
