-------------------------- MODULE ReconcilerProof --------------------------
(***************************************************************************)
(* Theorems about Reconciler, for every set of names, every bound and any  *)
(* mix of requests.                                                        *)
(***************************************************************************)
EXTENDS Reconciler, TLAPS

----------------------------------------------------------------------------
(* Types.  First the operators the actions are built from.                 *)

LEMMA MarkDeletingType ==
    ASSUME NEW t \in Tables, NEW n \in Names, t[n] # None, NEW b \in BOOLEAN
    PROVE  MarkDeleting(t, n, b) \in Tables
<1>1. [t[n] EXCEPT !.desired = "deleting", !.purge = b] \in Row
  BY DEF Tables, Row
<1> QED
  BY <1>1 DEF Tables, MarkDeleting

LEMMA UpdateStateType ==
    ASSUME NEW t \in Tables, NEW n \in Names, t[n] # None,
           NEW d \in {"running", "stopped", "deleting"}
    PROVE  UpdateState(t, n, d) \in Tables
<1>1. [t[n] EXCEPT !.desired = d] \in Row
  BY DEF Tables, Row
<1> QED
  BY <1>1 DEF Tables, UpdateState

LEMMA UpdateServerConfigType ==
    ASSUME NEW t \in Tables, NEW n \in Names, t[n] # None, NEW c \in Config
    PROVE  UpdateServerConfig(t, n, c) \in Tables
<1>1. [t[n] EXCEPT !.cfg = c] \in Row
  BY DEF Tables, Row
<1> QED
  BY <1>1 DEF Tables, UpdateServerConfig

LEMMA OutcomeTypes ==
    ASSUME NEW t \in Tables, NEW n \in Names, t[n] # None
    PROVE  /\ DeleteServer(t, n) \in Tables
           /\ IncrementFailure(t, n) \in Tables
           /\ ResetFailures(t, n) \in Tables
<1>1. t[n] \in Row
  BY DEF Tables
<1>2. [t[n] EXCEPT !.fails = IF @ = RecreateEvery THEN 1 ELSE @ + 1] \in Row
  BY <1>1, ServersTableAssumption DEF Row
<1>3. [t[n] EXCEPT !.fails = 0] \in Row
  BY <1>1, ServersTableAssumption DEF Row
<1> QED
  BY <1>1, <1>2, <1>3 DEF Tables, DeleteServer, IncrementFailure, ResetFailures

LEMMA NewRowTypes ==
    ASSUME NEW t \in Tables, NEW n \in Names, NEW c \in Config
    PROVE  /\ CreateServer(t, n, c) \in Tables
           /\ InsertOrphanTombstone(t, n) \in Tables
           /\ ResetDatabase \in Tables
<1>1. NewRow(c) \in Row /\ Tombstone(n) \in Row
  BY ServersTableAssumption DEF NewRow, Tombstone, Row, Config
<1> QED
  BY <1>1 DEF Tables, CreateServer, InsertOrphanTombstone, ResetDatabase

(* What the cluster's part of TypeOK says of the objects and the streams.  *)
ObjectsOK ==
    /\ pvc \in [Names -> {"none", "bound", "dying"}]
    /\ secret \in [Names -> Config \cup {None}]
    /\ cm \in [Names -> Config \cup {None}]
    /\ svc \subseteq Names
    /\ dep \in [Names -> Deployment \cup {None}]
    /\ depEvents \in [Names -> Seq(Events)]
    /\ svcAdds \subseteq Names

LEMMA SetDeploymentType ==
    ASSUME ObjectsOK, NEW n \in Names, NEW d \in Deployment \cup {None},
           SetDeployment(n, d)
    PROVE  ObjectsOK'
<1>1. d # None => d.replicas \in Events
  BY DEF Deployment, Events
<1>2. None \in Events
  BY DEF Events
<1>3. dep' \in [Names -> Deployment \cup {None}]
  BY DEF ObjectsOK, SetDeployment
<1>4. depEvents' \in [Names -> Seq(Events)]
  <2>1. ASSUME NEW e \in Events, Emit(n, e)
        PROVE  depEvents' \in [Names -> Seq(Events)]
    <3>1. Append(depEvents[n], e) \in Seq(Events)
      BY <2>1 DEF ObjectsOK
    <3> QED
      BY <2>1, <3>1 DEF ObjectsOK, Emit
  <2> QED
    BY <1>1, <1>2, <2>1 DEF ObjectsOK, SetDeployment
<1> QED
  BY <1>3, <1>4 DEF ObjectsOK, SetDeployment

LEMMA ObjectTypes ==
    ASSUME ObjectsOK, NEW n \in Names, NEW c \in Config,
           \/ CreatePVC(n) \/ CreateSecret(n, c) \/ CreateConfigMap(n, c)
           \/ CreateService(n) \/ DeleteService(n) \/ DeleteConfigMap(n)
           \/ DeleteSecret(n) \/ DeletePVC(n)
           \/ UpdateConfigMap(n, c) \/ UpdateSecret(n, c)
    PROVE  ObjectsOK'
  BY DEF ObjectsOK, streams, CreatePVC, CreateSecret, CreateConfigMap,
         CreateService, DeleteService, DeleteConfigMap, DeleteSecret,
         DeletePVC, UpdateConfigMap, UpdateSecret

LEMMA DeploymentTypes ==
    ASSUME ObjectsOK, NEW n \in Names, NEW c \in Config,
           CreateDeployment(n, c) \/ DeleteDeployment(n)
    PROVE  ObjectsOK'
<1>1. [hash |-> c, replicas |-> 1, dying |-> FALSE] \in Deployment
  BY DEF Deployment
<1>2. dep[n] \in Deployment \cup {None}
  BY DEF ObjectsOK
<1>3. dep[n] # None => [dep[n] EXCEPT !.dying = TRUE] \in Deployment
  BY <1>2 DEF Deployment
<1>4. CASE CreateDeployment(n, c)
  BY <1>1, <1>2, <1>4, SetDeploymentType DEF CreateDeployment
<1>5. CASE DeleteDeployment(n)
  <2>1. PICK d \in {None} \cup (IF dep[n] = None THEN {}
                                ELSE {[dep[n] EXCEPT !.dying = TRUE]}) :
             SetDeployment(n, d)
    BY <1>5 DEF DeleteDeployment
  <2>2. d \in Deployment \cup {None}
    BY <1>3
  <2> QED
    BY <2>1, <2>2, SetDeploymentType
<1> QED
  BY <1>4, <1>5

LEMMA SpendType ==
    ASSUME TypeOK, NEW k \in {"request", "fault", "crash", "tamper"}, Spend(k)
    PROVE  budget' \in [{"request", "fault", "crash", "tamper"} -> Nat]
  BY DEF TypeOK, Spend

(* While a row is being converged its listing names objects to work on.    *)
LEMMA ListedType ==
    ASSUME TypeOK, Cursor, pc \in KubeCalls \cup StoreCalls
    PROVE  /\ cur \in Names /\ cur \in todo
           /\ Listed \in Row /\ Target \in Names /\ Listed.cfg \in Config
           /\ Want \in {0, 1}
<1>1. pc # "drift"
  BY DEF KubeCalls, StoreCalls
<1>2. cur \in todo /\ cur \in Names /\ snap[cur] # None
  BY <1>1 DEF Cursor, TypeOK
<1>3. Listed \in Row
  BY <1>2 DEF TypeOK, Tables, Listed
<1> QED
  BY <1>2, <1>3 DEF Row, Config, Target, Want

LEMMA ObjectsPart ==
    ASSUME TypeOK
    PROVE  ObjectsOK
  BY DEF TypeOK, ClusterTypeOK, ObjectsOK

(* A Kubernetes call moves the pc and spends at most a fault.              *)
LEMMA CallTypes ==
    ASSUME TypeOK, Cursor, ObjectsOK', asked' \subseteq Names,
           NEW here \in KubeCalls, NEW next \in KubeCalls \cup StoreCalls,
           Call(here, next) \/ Refused(here) \/ CallFails
    PROVE  TypeOK' /\ Cursor'
<1>1. pc \in KubeCalls /\ pc' \in KubeCalls \cup StoreCalls /\ Unmoved
  BY DEF Call, Refused, CallFails, Answer, StoreCalls
<1>2. budget' \in [{"request", "fault", "crash", "tamper"} -> Nat]
  <2>1. budget' = budget \/ Spend("fault")
    BY DEF Call, Refused, CallFails, Answer
  <2> QED
    BY <2>1, SpendType DEF TypeOK
<1>3. ClusterTypeOK'
  BY <1>1 DEF TypeOK, ClusterTypeOK, ObjectsOK, Unmoved
<1>4. TypeOK'
  BY <1>1, <1>2, <1>3 DEF TypeOK, Unmoved, Places
<1>5. Cursor'
  BY <1>1 DEF Cursor, Unmoved, KubeCalls, StoreCalls
<1> QED
  BY <1>4, <1>5

LEMMA ConvergeTypes ==
    ASSUME TypeOK, Cursor, ConvergeStep
    PROVE  TypeOK' /\ Cursor'
<1> USE ObjectsPart
<1>1. CASE DeleteAllStep
  <2>1. asked' \subseteq Names
    BY <1>1 DEF DeleteAllStep, TypeOK
  <2>2. CASE Call("delDep", "delSvc") /\ DeleteDeployment(Target)
    <3>1. ObjectsOK'
      BY <2>2, ListedType, DeploymentTypes DEF Call, KubeCalls
    <3> QED
      BY <2>1, <2>2, <3>1, CallTypes DEF KubeCalls
  <2>3. CASE Call("delSvc", "delCm") /\ DeleteService(Target)
    <3>1. ObjectsOK'
      BY <2>3, ListedType, ObjectTypes DEF Call, KubeCalls
    <3> QED
      BY <2>1, <2>3, <3>1, CallTypes DEF KubeCalls
  <2>4. CASE Call("delCm", "delSecret") /\ DeleteConfigMap(Target)
    <3>1. ObjectsOK'
      BY <2>4, ListedType, ObjectTypes DEF Call, KubeCalls
    <3> QED
      BY <2>1, <2>4, <3>1, CallTypes DEF KubeCalls
  <2>5. CASE Call("delSecret", AfterDeleteSecret) /\ DeleteSecret(Target)
    <3>1. ObjectsOK'
      BY <2>5, ListedType, ObjectTypes DEF Call, KubeCalls
    <3>2. AfterDeleteSecret \in KubeCalls \cup StoreCalls
      BY DEF AfterDeleteSecret, KubeCalls, StoreCalls
    <3> QED
      BY <2>1, <2>5, <3>1, <3>2, CallTypes DEF KubeCalls
  <2>6. CASE Call("delPvc", "dropRow") /\ DeletePVC(Target)
    <3>1. ObjectsOK'
      BY <2>6, ListedType, ObjectTypes DEF Call, KubeCalls
    <3> QED
      BY <2>1, <2>6, <3>1, CallTypes DEF KubeCalls, StoreCalls
  <2> QED
    BY <1>1, <2>2, <2>3, <2>4, <2>5, <2>6 DEF DeleteAllStep
<1>2. CASE AwaitGone
  <2>1. ObjectsOK' /\ asked' \subseteq Names
    BY <1>2 DEF AwaitGone, Refused, TypeOK, ObjectsOK, objects, streams
  <2>2. Call("await", "mkPvc") \/ Refused("await")
    BY <1>2 DEF AwaitGone
  <2> QED
    BY <2>1, <2>2, CallTypes DEF KubeCalls
<1>3. CASE CreateAllStep
  <2>1. asked' \subseteq Names
    BY <1>3 DEF CreateAllStep, CreatePVCStep, TypeOK
  <2>2. CASE CreatePVCStep
    <3>1. ObjectsOK'
      BY <2>2, ListedType, ObjectTypes DEF CreatePVCStep, Call, KubeCalls
    <3> QED
      BY <2>1, <2>2, <3>1, CallTypes DEF CreatePVCStep, KubeCalls
  <2>3. CASE Call("mkSecret", "mkCm") /\ CreateSecret(Target, Listed.cfg)
    <3>1. ObjectsOK'
      BY <2>3, ListedType, ObjectTypes DEF Call, KubeCalls
    <3> QED
      BY <2>1, <2>3, <3>1, CallTypes DEF KubeCalls
  <2>4. CASE Call("mkCm", "mkSvc") /\ CreateConfigMap(Target, Listed.cfg)
    <3>1. ObjectsOK'
      BY <2>4, ListedType, ObjectTypes DEF Call, KubeCalls
    <3> QED
      BY <2>1, <2>4, <3>1, CallTypes DEF KubeCalls
  <2>5. CASE Call("mkSvc", "mkDep") /\ CreateService(Target)
    <3>1. ObjectsOK'
      BY <2>5, ListedType, ObjectTypes DEF Call, KubeCalls
    <3> QED
      BY <2>1, <2>5, <3>1, CallTypes DEF KubeCalls
  <2>6. CASE Call("mkDep", AfterCreateDeployment) /\ CreateDeployment(Target, Listed.cfg)
    <3>1. ObjectsOK'
      BY <2>6, ListedType, DeploymentTypes DEF Call, KubeCalls
    <3>2. AfterCreateDeployment \in KubeCalls \cup StoreCalls
      BY DEF AfterCreateDeployment, KubeCalls
    <3> QED
      BY <2>1, <2>6, <3>1, <3>2, CallTypes DEF KubeCalls
  <2> QED
    BY <1>3, <2>2, <2>3, <2>4, <2>5, <2>6 DEF CreateAllStep
<1>4. CASE CompareHash
  <2>1. ObjectsOK' /\ asked' \subseteq Names
    BY <1>4 DEF CompareHash, TypeOK, ObjectsOK, objects, streams
  <2>2. (IF UpToDate THEN "scale" ELSE "putCm") \in KubeCalls \cup StoreCalls
    BY DEF KubeCalls
  <2> QED
    BY <1>4, <2>1, <2>2, CallTypes DEF CompareHash, KubeCalls
<1>5. CASE ApplyConfigStep
  <2>1. asked' \subseteq Names
    BY <1>5 DEF ApplyConfigStep, Refused, TypeOK
  <2>2. CASE Call("putCm", "putSecret") /\ UpdateConfigMap(Target, Listed.cfg)
    <3>1. ObjectsOK'
      BY <2>2, ListedType, ObjectTypes DEF Call, KubeCalls
    <3> QED
      BY <2>1, <2>2, <3>1, CallTypes DEF KubeCalls
  <2>3. CASE Call("putSecret", "putDep") /\ UpdateSecret(Target, Listed.cfg)
    <3>1. ObjectsOK'
      BY <2>3, ListedType, ObjectTypes DEF Call, KubeCalls
    <3> QED
      BY <2>1, <2>3, <3>1, CallTypes DEF KubeCalls
  <2>4. CASE /\ Call("putDep", "scale")
             /\ dep[Target] # None
             /\ SetDeployment(Target, [dep[Target] EXCEPT !.hash = Listed.cfg])
    <3>1. Target \in Names /\ Listed.cfg \in Config
      BY <2>4, ListedType DEF Call, KubeCalls
    <3>2. [dep[Target] EXCEPT !.hash = Listed.cfg] \in Deployment
      BY <2>4, <3>1 DEF ObjectsOK, Deployment
    <3>3. ObjectsOK'
      BY <2>4, <3>1, <3>2, SetDeploymentType
    <3> QED
      BY <2>1, <2>4, <3>3, CallTypes DEF KubeCalls
  <2>5. CASE Refused("putCm") \/ Refused("putSecret") \/ Refused("putDep")
    <3>1. ObjectsOK'
      BY <2>5 DEF Refused, ObjectsOK, objects, streams
    <3> QED
      BY <2>1, <2>5, <3>1, CallTypes DEF KubeCalls
  <2> QED
    BY <1>5, <2>2, <2>3, <2>4, <2>5 DEF ApplyConfigStep
<1>6. CASE EnsureReplicas
  <2>1. asked' \subseteq Names
    BY <1>6 DEF EnsureReplicas, Refused, TypeOK
  <2>2. Call("scale", "reset") \/ Refused("scale")
    BY <1>6 DEF EnsureReplicas
  <2>3. cur \in Names /\ Want \in {0, 1}
    BY <2>2, ListedType DEF Call, Refused, KubeCalls
  <2>4. ObjectsOK'
    <3>1. CASE dep[cur] # None /\ SetDeployment(cur, [dep[cur] EXCEPT !.replicas = Want])
      <4>1. dep[cur] \in Deployment /\ Want \in 0 .. 1
        BY <2>3, <3>1 DEF ObjectsOK
      <4>2. [dep[cur] EXCEPT !.replicas = Want] \in Deployment
        BY <4>1 DEF Deployment
      <4> QED
        BY <2>3, <3>1, <4>2, SetDeploymentType
    <3>2. CASE UNCHANGED <<objects, streams>>
      BY <3>2 DEF ObjectsOK, objects, streams
    <3>3. CASE Refused("scale")
      BY <3>2, <3>3 DEF Refused
    <3> QED
      BY <1>6, <3>1, <3>2, <3>3 DEF EnsureReplicas
  <2> QED
    BY <2>1, <2>2, <2>4, CallTypes DEF KubeCalls, StoreCalls
<1>7. CASE CallFails
  <2>1. ObjectsOK' /\ asked' \subseteq Names
    BY <1>7 DEF CallFails, TypeOK, ObjectsOK, objects, streams
  <2> QED
    BY <1>7, <2>1, CallTypes DEF KubeCalls
<1>8. CASE ResetFailuresStep \/ DropRow \/ Bump
  <2>1. pc \in StoreCalls /\ pc \in KubeCalls \cup StoreCalls
    BY <1>8 DEF ResetFailuresStep, DropRow, Bump, StoreCall, StoreCalls
  <2>2. cur \in Names /\ cur \in todo
    BY <2>1, ListedType
  <2>3. rows' \in Tables
    BY <1>8, <2>2, OutcomeTypes
    DEF ResetFailuresStep, DropRow, Bump, StoreCall, TypeOK
  <2>4. budget' \in [{"request", "fault", "crash", "tamper"} -> Nat]
    BY <1>8, SpendType DEF ResetFailuresStep, DropRow, Bump, StoreCall, TypeOK
  <2>5. /\ UNCHANGED <<trigger, snap, drift, unseen>> /\ Quiet /\ Idle
        /\ RowDone \/ (pc' = "bump" /\ UNCHANGED <<todo, cur>>)
    BY <1>8 DEF ResetFailuresStep, DropRow, Bump, StoreCall
  <2>6. ClusterTypeOK'
    BY <2>5 DEF TypeOK, ClusterTypeOK, Idle, objects, streams
  <2>7. TypeOK'
    BY <2>3, <2>4, <2>5, <2>6 DEF TypeOK, Quiet, RowDone, Places, StoreCalls
  <2>8. Cursor'
    BY <2>1, <2>2, <2>5 DEF Cursor, RowDone, KubeCalls, StoreCalls
  <2> QED
    BY <2>7, <2>8
<1> QED
  BY <1>1, <1>2, <1>3, <1>4, <1>5, <1>6, <1>7, <1>8 DEF ConvergeStep

LEMMA PassTypes ==
    ASSUME TypeOK, Cursor, PassStep
    PROVE  TypeOK' /\ Cursor'
<1>1. ClusterTypeOK'
  BY DEF PassStep, WakeUp, Tick, ListRows, RowsDone, PassDone, PickRow,
         DriftEntry, Idle, TypeOK, ClusterTypeOK, objects, streams
<1>2. inflight' = inflight /\ pokesDue' = pokesDue
      /\ asked' = asked /\ withdrawn' = withdrawn
  BY DEF PassStep, WakeUp, Tick, ListRows, RowsDone, PassDone, PickRow,
         DriftEntry, Quiet
<1>3. CASE WakeUp \/ Tick \/ RowsDone
  BY <1>1, <1>2, <1>3
  DEF TypeOK, Cursor, WakeUp, Tick, RowsDone, Places, KubeCalls, StoreCalls
<1>4. CASE ListRows
  <2>1. budget' \in [{"request", "fault", "crash", "tamper"} -> Nat]
    BY <1>4, SpendType DEF ListRows, TypeOK
  <2> QED
    BY <1>1, <1>2, <1>4, <2>1
    DEF TypeOK, Cursor, ListRows, Places, KubeCalls, StoreCalls
<1>5. CASE PassDone
  <2>1. ResetDatabase \in Tables
    BY DEF ResetDatabase, Tables
  <2> QED
    BY <1>1, <1>2, <1>5, <2>1
    DEF TypeOK, Cursor, PassDone, Places, KubeCalls, StoreCalls
<1>6. ASSUME NEW n \in Names, PickRow(n)
      PROVE  TypeOK' /\ Cursor'
  <2>1. FirstCall(snap[n]) \in KubeCalls
    BY DEF FirstCall, KubeCalls
  <2> QED
    BY <1>1, <1>2, <1>6, <2>1 DEF TypeOK, Cursor, PickRow, Places, KubeCalls, StoreCalls
<1>7. ASSUME NEW n \in Names, DriftEntry(n)
      PROVE  TypeOK' /\ Cursor'
  <2> DEFINE seen == IF drift[n] = DriftLimit THEN DriftLimit ELSE drift[n] + 1
  <2>1. drift[n] \in 0 .. DriftLimit
    BY DEF TypeOK
  <2>2. seen \in 0 .. DriftLimit
    BY <2>1, ReconcilerAssumption
  <2>3. drift' = [drift EXCEPT ![n] = 0] \/ drift' = [drift EXCEPT ![n] = seen]
    BY <1>7 DEF DriftEntry
  <2>4. drift' \in [Names -> 0 .. DriftLimit]
    <3> HIDE DEF seen
    <3> QED
      BY <2>2, <2>3, ReconcilerAssumption DEF TypeOK
  <2>5. budget' \in [{"request", "fault", "crash", "tamper"} -> Nat]
    <3>1. budget' = budget \/ Spend("fault")
      BY <1>7 DEF DriftEntry
    <3> QED
      BY <3>1, SpendType DEF TypeOK
  <2>6. rows' \in Tables
    <3>1. rows' = rows \/ rows' = InsertOrphanTombstone(rows, n)
      BY <1>7 DEF DriftEntry
    <3>2. Tombstone(n) \in Row
      BY ServersTableAssumption DEF Tombstone, Row, Config
    <3> QED
      BY <3>1, <3>2 DEF TypeOK, Tables, InsertOrphanTombstone
  <2>7. /\ UNCHANGED <<trigger, pc, snap, cur, unseen>>
        /\ pc = "drift" /\ todo' = todo \ {n}
    BY <1>7 DEF DriftEntry
  <2>8. TypeOK'
    BY <1>1, <1>2, <2>4, <2>5, <2>6, <2>7 DEF TypeOK
  <2>9. Cursor'
    BY <2>7 DEF Cursor, KubeCalls, StoreCalls
  <2> QED
    BY <2>8, <2>9
<1> QED
  BY <1>3, <1>4, <1>5, <1>6, <1>7 DEF PassStep

(* Outside the controller its own variables do not move.                   *)
LEMMA CursorKept ==
    ASSUME Cursor, UNCHANGED <<pc, snap, todo, cur>>
    PROVE  Cursor'
  BY DEF Cursor

LEMMA RequestStepTypes ==
    ASSUME TypeOK, Cursor, ResetRequest \/ \E n \in Names : UserRequest(n)
    PROVE  TypeOK' /\ Cursor'
<1>1. /\ Spend("request") /\ UNCHANGED <<trigger, pass, objects, streams>>
      /\ registry' = registry
  BY DEF UserRequest, ResetRequest, BeginCreate, StartRequest, StopRequest,
         ConfigRequest, PurgeRequest, DeleteRequest, Request, Write
<1>2. Cursor'
  BY <1>1, CursorKept DEF pass
<1>3. budget' \in [{"request", "fault", "crash", "tamper"} -> Nat]
  BY <1>1, SpendType
<1>4. /\ inflight' \subseteq [step : HandlerSteps, name : Names]
      /\ pokesDue' \in Nat /\ asked' \subseteq Names
      /\ withdrawn' \subseteq Names /\ unseen' \subseteq Names
  BY DEF UserRequest, ResetRequest, BeginCreate, StartRequest, StopRequest,
         ConfigRequest, PurgeRequest, DeleteRequest, Write, Enter, history,
         HandlerSteps, TypeOK
<1>5. rows' \in Tables
  <2>1. ASSUME NEW n \in Names, BeginCreate(n) \/ PurgeRequest(n)
        PROVE  rows' \in Tables
    BY <2>1 DEF BeginCreate, PurgeRequest, TypeOK
  <2>2. ASSUME NEW n \in Names, StartRequest(n) \/ StopRequest(n)
        PROVE  rows' \in Tables
    <3>1. rows[n] # None
      BY <2>2 DEF StartRequest, StopRequest
    <3>2. \/ rows' = UpdateState(rows, n, "running")
          \/ rows' = UpdateState(rows, n, "stopped")
      BY <2>2 DEF StartRequest, StopRequest, Write
    <3> QED
      BY <3>1, <3>2, UpdateStateType DEF TypeOK
  <2>3. ASSUME NEW n \in Names, ConfigRequest(n)
        PROVE  rows' \in Tables
    <3>1. PICK c \in Sent(n) : rows' = UpdateServerConfig(rows, n, c)
      BY <2>3 DEF ConfigRequest, Write
    <3>2. c \in Config
      BY DEF Sent, Config
    <3> QED
      BY <2>3, <3>1, <3>2, UpdateServerConfigType DEF ConfigRequest, TypeOK
  <2>4. ASSUME NEW n \in Names, NEW purge \in BOOLEAN, DeleteRequest(n, purge)
        PROVE  rows' \in Tables
    <3>1. MarkDeleting(rows, n, purge) \in Tables
      BY <2>4, MarkDeletingType DEF DeleteRequest, TypeOK
    <3> QED
      BY <2>4, <3>1 DEF DeleteRequest
  <2>5. CASE ResetRequest
    BY <2>5 DEF ResetRequest, ResetDatabase, Tables
  <2> QED
    BY <2>1, <2>2, <2>3, <2>4, <2>5 DEF UserRequest
<1>6. ClusterTypeOK'
  BY <1>1 DEF TypeOK, ClusterTypeOK, objects, streams
<1>7. TypeOK'
  BY <1>1, <1>3, <1>4, <1>5, <1>6 DEF TypeOK, pass
<1> QED
  BY <1>2, <1>7

LEMMA HandlerTypes ==
    ASSUME TypeOK, Cursor, NEW n \in Names, HandlerStep(n)
    PROVE  TypeOK' /\ Cursor'
<1>1. UNCHANGED <<trigger, pass, streams, budget>>
  BY DEF HandlerStep, InsertServer, AddEntry, CheckEntry, MarkEntry,
         PurgeStorage, Handler
<1>2. Cursor'
  BY <1>1, CursorKept DEF pass
<1>3. /\ inflight' \subseteq [step : HandlerSteps, name : Names]
      /\ pokesDue' \in Nat /\ asked' \subseteq Names
      /\ withdrawn' \subseteq Names /\ unseen' \subseteq Names
  BY DEF HandlerStep, InsertServer, AddEntry, CheckEntry, MarkEntry,
         PurgeStorage, Move, Leave, GoPoke, history, HandlerSteps, TypeOK
<1>4. rows' \in Tables
  <2>1. ASSUME NEW c \in Sent(n), rows' = CreateServer(rows, n, c)
        PROVE  rows' \in Tables
    <3>1. c \in Config
      BY DEF Sent, Config
    <3> QED
      BY <2>1, <3>1, NewRowTypes DEF TypeOK
  <2> QED
    BY <2>1 DEF HandlerStep, InsertServer, AddEntry, CheckEntry, MarkEntry,
                PurgeStorage, TypeOK
<1>5. ClusterTypeOK'
  <2>1. ObjectsOK'
    <3>1. CASE PurgeStorage(n)
      BY <3>1, ObjectsPart DEF PurgeStorage, DeletePVC, ObjectsOK, streams
    <3>2. CASE UNCHANGED objects
      BY <1>1, <3>2, ObjectsPart DEF ObjectsOK, objects, streams
    <3> QED
      BY <3>1, <3>2 DEF HandlerStep, InsertServer, AddEntry, CheckEntry, MarkEntry
  <2>2. registry' \in [Names -> {0, 1, None}]
    BY DEF HandlerStep, InsertServer, AddEntry, CheckEntry, MarkEntry,
           PurgeStorage, TypeOK, ClusterTypeOK
  <2> QED
    BY <2>1, <2>2 DEF ObjectsOK, ClusterTypeOK
<1>6. TypeOK'
  BY <1>1, <1>3, <1>4, <1>5 DEF TypeOK, pass
<1> QED
  BY <1>2, <1>6

LEMMA EnvironmentTypes ==
    ASSUME TypeOK, Cursor, NEW n \in Names, Environment(n)
    PROVE  TypeOK' /\ Cursor'
<1>1. Outside
  BY DEF Environment, FinalizerLetsGo, HandleDeployment, HandleService,
         Refresh, Tamper
<1>2. Cursor'
  BY <1>1, CursorKept DEF Outside, pass
<1>3. budget' \in [{"request", "fault", "crash", "tamper"} -> Nat]
  BY SpendType DEF Environment, FinalizerLetsGo, HandleDeployment,
                   HandleService, Refresh, Tamper, TypeOK
<1>4. ObjectsOK' /\ registry' \in [Names -> {0, 1, None}]
  <2>1. CASE Reap(n)
    <3>1. registry' = registry
      BY <2>1 DEF Reap
    <3>2. CASE SetDeployment(n, None)
      BY <3>1, <3>2, ObjectsPart, SetDeploymentType DEF TypeOK, ClusterTypeOK
    <3>3. CASE pvc' = [pvc EXCEPT ![n] = "none"]
                /\ UNCHANGED <<secret, cm, svc, dep, streams>>
      BY <3>1, <3>3 DEF TypeOK, ClusterTypeOK, ObjectsOK, streams
    <3> QED
      BY <2>1, <3>2, <3>3 DEF Reap
  <2>2. CASE DeliverDeployment(n)
    <3>1. depEvents[n] \in Seq(Events) /\ depEvents[n] # <<>>
      BY <2>2 DEF DeliverDeployment, TypeOK, ClusterTypeOK
    <3>2. Head(depEvents[n]) \in Events /\ Tail(depEvents[n]) \in Seq(Events)
      BY <3>1
    <3> QED
      BY <2>2, <3>2
      DEF DeliverDeployment, TypeOK, ClusterTypeOK, ObjectsOK, objects, Events
  <2>3. CASE DeliverService(n)
    BY <2>3 DEF DeliverService, UpsertService, TypeOK, ClusterTypeOK, ObjectsOK, objects
  <2>4. CASE Resync(n)
    <3>1. dep[n] # None => dep[n].replicas \in {0, 1}
      BY DEF TypeOK, ClusterTypeOK, Deployment
    <3> QED
      BY <2>4, <3>1
      DEF Resync, UpsertService, TypeOK, ClusterTypeOK, ObjectsOK, objects, streams
  <2>5. CASE Tamper(n)
    <3>1. registry' = registry
      BY <2>5 DEF Tamper
    <3>2. CASE DeleteDeployment(n)
      <4>1. dep[n] # None => [dep[n] EXCEPT !.dying = TRUE] \in Deployment
        BY DEF TypeOK, ClusterTypeOK, Deployment
      <4>2. PICK d \in {None} \cup (IF dep[n] = None THEN {}
                                    ELSE {[dep[n] EXCEPT !.dying = TRUE]}) :
                 SetDeployment(n, d)
        BY <3>2 DEF DeleteDeployment
      <4>3. d \in Deployment \cup {None}
        BY <4>1
      <4> QED
        BY <3>1, <4>2, <4>3, ObjectsPart, SetDeploymentType DEF TypeOK, ClusterTypeOK
    <3>3. CASE DeleteService(n) \/ DeleteConfigMap(n) \/ DeleteSecret(n)
      BY <3>1, <3>3 DEF DeleteService, DeleteConfigMap, DeleteSecret,
                        TypeOK, ClusterTypeOK, ObjectsOK, streams
    <3> QED
      BY <2>5, <3>2, <3>3 DEF Tamper
  <2> QED
    BY <2>1, <2>2, <2>3, <2>4, <2>5
    DEF Environment, FinalizerLetsGo, HandleDeployment, HandleService, Refresh
<1>5. ClusterTypeOK'
  BY <1>4 DEF ObjectsOK, ClusterTypeOK
<1>6. TypeOK'
  BY <1>1, <1>3, <1>5 DEF TypeOK, Outside, pass, api, history
<1> QED
  BY <1>2, <1>6

LEMMA CrashTypes ==
    ASSUME TypeOK, Cursor, Crash
    PROVE  TypeOK' /\ Cursor'
<1>1. budget' \in [{"request", "fault", "crash", "tamper"} -> Nat]
  BY SpendType DEF Crash
<1>2. \A n \in Names : dep[n] # None => dep[n].replicas \in {0, 1}
  BY DEF TypeOK, ClusterTypeOK, Deployment
<1>3. SyncedRegistry \in [Names -> {0, 1, None}]
  BY <1>2 DEF SyncedRegistry
<1>4. [n \in Names |-> <<>>] \in [Names -> Seq(Events)]
  OBVIOUS
<1>5. ClusterTypeOK'
  BY <1>3, <1>4 DEF Crash, TypeOK, ClusterTypeOK, objects
<1>6. ResetDatabase \in Tables
  BY DEF ResetDatabase, Tables
<1>7. TypeOK'
  <2>1. drift' \in [Names -> 0 .. DriftLimit]
    BY ReconcilerAssumption DEF Crash
  <2>2. /\ rows' \in Tables /\ asked' \subseteq Names
        /\ withdrawn' \subseteq Names /\ unseen' \subseteq Names
    BY DEF Crash, TypeOK, history
  <2> QED
    BY <1>1, <1>5, <1>6, <2>1, <2>2 DEF Crash, TypeOK, Places
<1>8. Cursor'
  BY DEF Crash, Cursor, KubeCalls, StoreCalls
<1> QED
  BY <1>7, <1>8

LEMMA InitTypes ==
    ASSUME Init
    PROVE  TypeOK /\ Cursor
<1>1. ResetDatabase \in Tables
  BY DEF ResetDatabase, Tables
<1>2. [n \in Names |-> <<>>] \in [Names -> Seq(Events)]
  OBVIOUS
<1>3. ClusterTypeOK
  BY <1>2 DEF Init, ClusterInit, ClusterTypeOK
<1>4. TypeOK
  <2>1. drift \in [Names -> 0 .. DriftLimit]
    BY ReconcilerAssumption DEF Init
  <2> QED
    BY <1>1, <1>3, <2>1, ReconcilerAssumption DEF Init, TypeOK, Places
<1>5. Cursor
  BY DEF Init, Cursor, KubeCalls, StoreCalls
<1> QED
  BY <1>4, <1>5

LEMMA NextTypes ==
    ASSUME TypeOK, Cursor, [Next]_vars
    PROVE  TypeOK' /\ Cursor'
<1>1. CASE Controller
  BY <1>1, PassTypes, ConvergeTypes DEF Controller
<1>2. CASE Poke
  <2>1. Cursor'
    BY <1>2, CursorKept DEF Poke, pass
  <2>2. ClusterTypeOK'
    BY <1>2 DEF Poke, TypeOK, ClusterTypeOK, objects, streams
  <2>3. TypeOK'
    BY <1>2, <2>2 DEF Poke, TypeOK, pass, history
  <2> QED
    BY <2>1, <2>3
<1>3. CASE Crash
  BY <1>3, CrashTypes
<1>4. CASE ResetRequest
  BY <1>4, RequestStepTypes
<1>5. ASSUME NEW n \in Names, UserRequest(n) \/ HandlerStep(n) \/ Environment(n)
      PROVE  TypeOK' /\ Cursor'
  BY <1>5, RequestStepTypes, HandlerTypes, EnvironmentTypes
<1>6. CASE UNCHANGED vars
  <2>1. Cursor'
    BY <1>6, CursorKept DEF vars, pass
  <2> QED
    BY <1>6, <2>1 DEF TypeOK, ClusterTypeOK, vars, pass, api, history, objects, streams
<1> QED
  BY <1>1, <1>2, <1>3, <1>4, <1>5, <1>6 DEF Next

(* Every variable keeps its type, and the row being converged is one that  *)
(* was listed, so that its config names objects to work on (Reconcile).    *)
THEOREM TypeCorrect == Spec => [](TypeOK /\ Cursor)
<1>1. Init => TypeOK /\ Cursor
  BY InitTypes
<1>2. TypeOK /\ Cursor /\ [Next]_vars => (TypeOK /\ Cursor)'
  BY NextTypes
<1> QED
  BY <1>1, <1>2, PTL DEF Spec

----------------------------------------------------------------------------
(* Wake-ups.  A handler that has written its row stays on its way to the   *)
(* poke until it has poked, whatever other handlers do.                    *)

OnItsWay == {"addEntry", "checkEntry", "markEntry"}

LEMMA HandlersKeepTheirPoke ==
    ASSUME TypeOK, NEW n \in Names, HandlerStep(n)
    PROVE  \/ WrittenNotPoked'
           \/ rows' = rows /\ (WrittenNotPoked => WrittenNotPoked')
<1>1. CASE InsertServer(n)
  <2>1. CASE Move("insert", "addEntry", n)
    <3>1. [step |-> "addEntry", name |-> n] \in inflight'
      BY <2>1 DEF Move
    <3> QED
      BY <3>1 DEF WrittenNotPoked
  <2>2. CASE Leave("insert", n) /\ rows' = rows
    <3>1. \A h \in inflight : h.step \in OnItsWay => h \in inflight'
      BY <2>2 DEF Leave, OnItsWay
    <3> QED
      BY <1>1, <2>2, <3>1 DEF InsertServer, WrittenNotPoked, OnItsWay
  <2> QED
    BY <1>1, <2>1, <2>2 DEF InsertServer
<1>2. CASE AddEntry(n) \/ MarkEntry(n)
  <2>1. pokesDue' = pokesDue + 1 /\ pokesDue \in Nat
    BY <1>2 DEF AddEntry, MarkEntry, GoPoke, TypeOK
  <2> QED
    BY <2>1 DEF WrittenNotPoked
<1>3. CASE CheckEntry(n)
  <2>1. CASE Move("checkEntry", "markEntry", n)
    <3>1. [step |-> "markEntry", name |-> n] \in inflight'
      BY <2>1 DEF Move
    <3> QED
      BY <3>1 DEF WrittenNotPoked
  <2>2. CASE GoPoke("checkEntry", n)
    BY <2>2 DEF GoPoke, WrittenNotPoked, TypeOK
  <2> QED
    BY <1>3, <2>1, <2>2 DEF CheckEntry
<1>4. CASE PurgeStorage(n)
  <2>1. \A h \in inflight : h.step \in OnItsWay => h \in inflight'
    BY <1>4 DEF PurgeStorage, Leave, OnItsWay
  <2> QED
    BY <1>4, <2>1 DEF PurgeStorage, WrittenNotPoked, OnItsWay
<1> QED
  BY <1>1, <1>2, <1>3, <1>4 DEF HandlerStep

(* A request only adds to what is on its way, and what it writes goes      *)
(* there too, unless it is a reset that fails half-way.                    *)
LEMMA RequestsPoke ==
    ASSUME TypeOK, ResetRequest \/ \E n \in Names : UserRequest(n)
    PROVE  \/ WrittenNotPoked'
           \/ rows' \in {rows, ResetDatabase} /\ (WrittenNotPoked => WrittenNotPoked')
<1>1. ASSUME NEW n \in Names, BeginCreate(n) \/ PurgeRequest(n)
      PROVE  rows' = rows /\ (WrittenNotPoked => WrittenNotPoked')
  <2>1. inflight \subseteq inflight' /\ pokesDue' = pokesDue
    BY <1>1 DEF BeginCreate, PurgeRequest, Enter
  <2> QED
    BY <1>1, <2>1 DEF BeginCreate, PurgeRequest, WrittenNotPoked
<1>2. ASSUME NEW n \in Names, NEW purge \in BOOLEAN, DeleteRequest(n, purge)
      PROVE  WrittenNotPoked'
  <2>1. [step |-> "checkEntry", name |-> n] \in inflight'
    BY <1>2 DEF DeleteRequest, Enter
  <2> QED
    BY <2>1 DEF WrittenNotPoked
<1>3. ASSUME pokesDue' = pokesDue + 1
      PROVE  WrittenNotPoked'
  BY <1>3 DEF WrittenNotPoked, TypeOK
<1>4. CASE ResetRequest /\ pokesDue' = pokesDue
  BY <1>4 DEF ResetRequest, WrittenNotPoked
<1> QED
  BY <1>1, <1>2, <1>3, <1>4
  DEF UserRequest, ResetRequest, StartRequest, StopRequest, ConfigRequest, Write

WakeupStep ==
    /\ HandlerWrites => Awake' \/ rows' = ResetDatabase
    /\ Awake /\ ~ Awake' => unseen' = {} \/ ListingFails \/ Restarts

LEMMA NextKeepsWakeups ==
    ASSUME TypeOK, [Next]_vars
    PROVE  WakeupStep
<1>1. CASE ConvergeStep
  <2>1. UNCHANGED <<trigger, inflight, pokesDue>> /\ pc # "list"
    BY <1>1 DEF ConvergeStep, DeleteAllStep, AwaitGone, CreateAllStep, CreatePVCStep,
       CompareHash, ApplyConfigStep, EnsureReplicas, ResetFailuresStep, DropRow,
       CallFails, Bump, Call, Refused, StoreCall, Unmoved, Quiet, KubeCalls
  <2>2. rows' = rows \/ pc' # pc
    BY <1>1 DEF ConvergeStep, DeleteAllStep, AwaitGone, CreateAllStep, CreatePVCStep,
       CompareHash, ApplyConfigStep, EnsureReplicas, ResetFailuresStep, DropRow,
       CallFails, Bump, Call, Refused, StoreCall, RowDone, Unmoved
  <2> QED
    BY <2>1, <2>2 DEF WakeupStep, HandlerWrites, pass, Awake, WrittenNotPoked
<1>2. CASE PassStep
  <2>1. rows' = rows \/ todo' # todo
    BY <1>2 DEF PassStep, WakeUp, Tick, ListRows, RowsDone, PassDone, PickRow, DriftEntry
  <2>2. Awake /\ ~ Awake' => unseen' = {} \/ ListingFails
    BY <1>2 DEF PassStep, WakeUp, Tick, ListRows, RowsDone, PassDone, PickRow,
                DriftEntry, Quiet, Awake, WrittenNotPoked, ListingFails
  <2> QED
    BY <2>1, <2>2 DEF WakeupStep, HandlerWrites, pass
<1>3. CASE Poke
  BY <1>3 DEF Poke, WakeupStep, HandlerWrites, Awake
<1>4. CASE ResetRequest \/ \E n \in Names : UserRequest(n)
  <2>1. UNCHANGED <<trigger, pc>>
    BY <1>4 DEF UserRequest, ResetRequest, BeginCreate, StartRequest, StopRequest,
                ConfigRequest, PurgeRequest, DeleteRequest, Request, pass
  <2> QED
    BY <1>4, <2>1, RequestsPoke DEF WakeupStep, HandlerWrites, Awake
<1>5. CASE Crash
  <2>1. Restarts
    BY <1>5 DEF Crash, Spend, Restarts, TypeOK
  <2>2. rows' = rows
    BY <1>5 DEF Crash
  <2> QED
    BY <2>1, <2>2 DEF WakeupStep, HandlerWrites
<1>6. ASSUME NEW n \in Names, HandlerStep(n)
      PROVE  WakeupStep
  <2>1. UNCHANGED <<trigger, pc>>
    BY <1>6 DEF HandlerStep, InsertServer, AddEntry, CheckEntry, MarkEntry,
                PurgeStorage, Handler, pass
  <2> QED
    BY <1>6, <2>1, HandlersKeepTheirPoke DEF WakeupStep, HandlerWrites, Awake
<1>7. CASE (\E n \in Names : Environment(n)) \/ UNCHANGED vars
  <2>1. UNCHANGED <<rows, trigger, pc, inflight, pokesDue>>
    BY <1>7 DEF Environment, FinalizerLetsGo, HandleDeployment, HandleService,
                Refresh, Tamper, Outside, vars, pass, api
  <2> QED
    BY <2>1 DEF WakeupStep, HandlerWrites, Awake, WrittenNotPoked
<1> QED
  BY <1>1, <1>2, <1>3, <1>4, <1>5, <1>6, <1>7 DEF Next, Controller

(* The one-place channel loses no wake-up (Poke, Run), whatever the number *)
(* of handlers and of names: a handler that writes a row leaves a poke to  *)
(* come, a full channel or a listing ahead, and that lasts until a listing *)
(* has seen every row written till then.  What does lose one, and leaves   *)
(* the rows to the ticker, is a listing that fails, a restart, and a reset *)
(* that fails half-way.                                                    *)
THEOREM WakeupsKept == Spec => NoLostWakeup
<1>1. TypeOK /\ [Next]_vars => [WakeupStep]_vars
  BY NextKeepsWakeups
<1> QED
  BY <1>1, TypeCorrect, PTL DEF Spec, NoLostWakeup, WakeupStep

----------------------------------------------------------------------------
(* Teardowns.  The ServerManager works on the objects its row is named     *)
(* after, as long as no request carries another server_name.               *)

Own(t) == \A n \in Names : t[n] # None => t[n].cfg.target = n

(* What a step does to the table: it wipes it, clears the row converged,   *)
(* or writes one row, which gets a purge only from a user who asks for it. *)
Written(n, r) ==
    /\ rows' = [rows EXCEPT ![n] = r]
    /\ ~ AllowRename /\ Own(rows) => r.cfg.target = n
    /\ Doomed(r) /\ r.purge
         => PurgePending(n) \/ (n \in asked' /\ n \notin withdrawn')

LEMMA RowsStep ==
    ASSUME TypeOK, Cursor, [Next]_vars
    PROVE  \/ rows' = rows
           \/ ResetRequest
           \/ DropRow /\ cur \in Names /\ rows' = [rows EXCEPT ![cur] = None]
           \/ \E n \in Names : \E r \in Row : Written(n, r)
<1> DEFINE Change == \E n \in Names : \E r \in Row : Written(n, r)
<1>1. ASSUME NEW n \in Names, NEW c \in Sent(n)
      PROVE  c \in Config /\ (~ AllowRename => c.target = n)
  BY <1>1 DEF Sent, Config
<1>2. ASSUME NEW n \in Names, rows[n] # None
      PROVE  rows[n] \in Row /\ (Own(rows) => rows[n].cfg.target = n)
  BY <1>2 DEF Own, TypeOK, Tables
<1>3. ASSUME NEW n \in Names, HandlerStep(n), rows' # rows
      PROVE  Change
  <2>1. PICK c \in Sent(n) : rows' = CreateServer(rows, n, c)
    BY <1>3 DEF HandlerStep, InsertServer, AddEntry, CheckEntry, MarkEntry, PurgeStorage
  <2>2. /\ NewRow(c) \in Row /\ ~ Doomed(NewRow(c))
        /\ ~ AllowRename => NewRow(c).cfg.target = n
    BY <1>1, ServersTableAssumption DEF NewRow, Row, Doomed
  <2> QED
    BY <2>1, <2>2 DEF CreateServer, Written
<1>4. ASSUME NEW n \in Names, ConfigRequest(n)
      PROVE  Change
  <2>1. PICK c \in Sent(n) : rows' = UpdateServerConfig(rows, n, c)
    BY <1>4 DEF ConfigRequest, Write
  <2> DEFINE r == [rows[n] EXCEPT !.cfg = c]
  <2>2. /\ r \in Row /\ (~ AllowRename => r.cfg.target = n)
        /\ Doomed(r) /\ r.purge => PurgePending(n)
    BY <1>1, <1>2, <1>4 DEF ConfigRequest, Row, Doomed, PurgePending
  <2>3. rows' = [rows EXCEPT ![n] = r]
    BY <2>1 DEF UpdateServerConfig, TypeOK, Tables
  <2> HIDE DEF r
  <2> QED
    BY <2>2, <2>3 DEF Written
<1>5. ASSUME NEW n \in Names, StartRequest(n) \/ StopRequest(n)
      PROVE  Change
  <2>1. PICK d \in {"running", "stopped"} : rows' = UpdateState(rows, n, d)
    BY <1>5 DEF StartRequest, StopRequest, Write
  <2> DEFINE r == [rows[n] EXCEPT !.desired = d]
  <2>2. r \in Row /\ (Own(rows) => r.cfg.target = n) /\ ~ Doomed(r)
    BY <1>2, <1>5 DEF StartRequest, StopRequest, Row, Doomed
  <2>3. rows' = [rows EXCEPT ![n] = r]
    BY <2>1 DEF UpdateState, TypeOK, Tables
  <2> HIDE DEF r
  <2> QED
    BY <2>2, <2>3 DEF Written
<1>6. ASSUME NEW n \in Names, NEW purge \in BOOLEAN, DeleteRequest(n, purge)
      PROVE  Change
  <2> DEFINE r == [rows[n] EXCEPT !.desired = "deleting", !.purge = purge]
  <2>1. /\ r \in Row /\ (Own(rows) => r.cfg.target = n)
        /\ r.purge => n \in asked' /\ n \notin withdrawn'
    BY <1>2, <1>6 DEF DeleteRequest, Row
  <2>2. rows' = [rows EXCEPT ![n] = r]
    BY <1>6 DEF DeleteRequest, MarkDeleting, TypeOK, Tables
  <2> HIDE DEF r
  <2> QED
    BY <2>1, <2>2 DEF Written
<1>7. CASE ResetFailuresStep \/ Bump
  <2>1. pc \in StoreCalls
    BY <1>7 DEF ResetFailuresStep, Bump, StoreCall, StoreCalls
  <2>2. cur \in Names
    BY <2>1, ListedType
  <2>3. CASE rows' = rows
    BY <2>3
  <2>4. CASE rows' # rows
    <3> DEFINE f == IF ResetFailuresStep THEN 0
                    ELSE IF rows[cur].fails = RecreateEvery THEN 1
                    ELSE rows[cur].fails + 1
    <3> DEFINE r == [rows[cur] EXCEPT !.fails = f]
    <3>1. rows[cur] # None
      BY <1>7, <2>4 DEF ResetFailuresStep, Bump, StoreCall
    <3>2. f \in 0 .. RecreateEvery
      BY <1>2, <2>2, <3>1, ServersTableAssumption DEF Row
    <3>3. rows' = [rows EXCEPT ![cur] = r]
      BY <1>7, <2>2, <2>4, <3>1
      DEF ResetFailuresStep, Bump, StoreCall, ResetFailures, IncrementFailure, TypeOK, Tables
    <3> HIDE DEF f
    <3>4. /\ r \in Row /\ (Own(rows) => r.cfg.target = cur)
          /\ Doomed(r) /\ r.purge => PurgePending(cur)
      BY <1>2, <2>2, <3>1, <3>2 DEF Row, Doomed, PurgePending
    <3> HIDE DEF r
    <3> QED
      BY <2>2, <3>3, <3>4 DEF Written
  <2> QED
    BY <2>3, <2>4
<1>8. CASE DropRow /\ rows' # rows
  <2>1. pc \in StoreCalls
    BY <1>8 DEF DropRow, StoreCall, StoreCalls
  <2>2. cur \in Names
    BY <2>1, ListedType
  <2> QED
    BY <1>8, <2>2 DEF DropRow, StoreCall, DeleteServer
<1>9. ASSUME NEW n \in Names, DriftEntry(n), rows' # rows
      PROVE  Change
  <2>1. rows' = InsertOrphanTombstone(rows, n)
    BY <1>9 DEF DriftEntry
  <2>2. Tombstone(n) \in Row /\ Tombstone(n).cfg.target = n /\ ~ Tombstone(n).purge
    BY ServersTableAssumption DEF Tombstone, Row, Config
  <2> QED
    BY <2>1, <2>2 DEF InsertOrphanTombstone, Written
<1>10. CASE DeleteAllStep \/ AwaitGone \/ CreateAllStep \/ CompareHash
            \/ ApplyConfigStep \/ EnsureReplicas \/ CallFails
  BY <1>10 DEF DeleteAllStep, AwaitGone, CreateAllStep, CreatePVCStep, CompareHash,
     ApplyConfigStep, EnsureReplicas, CallFails, Call, Refused, Unmoved
<1>11. ASSUME NEW n \in Names, BeginCreate(n) \/ PurgeRequest(n)
       PROVE  rows' = rows
  BY <1>11 DEF BeginCreate, PurgeRequest
<1>12. CASE WakeUp \/ Tick \/ ListRows \/ RowsDone \/ PassDone \/ \E n \in Names : PickRow(n)
  BY <1>12 DEF WakeUp, Tick, ListRows, RowsDone, PassDone, PickRow
<1>13. CASE Poke \/ Crash \/ (\E n \in Names : Environment(n)) \/ UNCHANGED vars
  BY <1>13 DEF Poke, Crash, Environment, FinalizerLetsGo, HandleDeployment,
     HandleService, Refresh, Tamper, Outside, vars
<1> HIDE DEF Change
<1>14. CASE ConvergeStep
  BY <1>7, <1>8, <1>10, <1>14 DEF ConvergeStep, Change
<1>15. CASE PassStep
  BY <1>9, <1>12, <1>15 DEF PassStep, Change
<1>16. ASSUME NEW n \in Names, UserRequest(n)
       PROVE  rows' = rows \/ Change
  BY <1>4, <1>5, <1>6, <1>11, <1>16 DEF UserRequest
<1>17. ASSUME NEW n \in Names, HandlerStep(n)
       PROVE  rows' = rows \/ Change
  BY <1>3, <1>17
<1> QED
  BY <1>13, <1>14, <1>15, <1>16, <1>17 DEF Next, Controller, Change

LEMMA RowsOwn ==
    ASSUME ~ AllowRename, TypeOK, Cursor, Own(rows), [Next]_vars
    PROVE  Own(rows')
<1>1. ASSUME NEW n \in Names, NEW r \in Row, Written(n, r)
      PROVE  Own(rows')
  BY <1>1 DEF Written, Own, TypeOK, Tables
<1>2. CASE ResetRequest
  BY <1>2 DEF ResetRequest, ResetDatabase, Own
<1>3. ASSUME rows' = [rows EXCEPT ![cur] = None], cur \in Names
      PROVE  Own(rows')
  BY <1>3 DEF Own, TypeOK, Tables
<1> QED
  BY <1>1, <1>2, <1>3, RowsStep

(* The same of the listing, which is a copy of the table or empty.         *)
LEMMA ListingOwn ==
    ASSUME ~ AllowRename, Own(rows), Own(snap), [Next]_vars
    PROVE  Own(snap')
<1>1. Own(ResetDatabase)
  BY DEF Own, ResetDatabase
<1>2. snap' = snap \/ snap' = rows \/ snap' = ResetDatabase
  BY DEF Next, Controller, PassStep, WakeUp, Tick, ListRows, RowsDone, PassDone,
     PickRow, DriftEntry, ConvergeStep, DeleteAllStep, AwaitGone, CreateAllStep,
     CreatePVCStep, CompareHash, ApplyConfigStep, EnsureReplicas, ResetFailuresStep,
     DropRow, CallFails, Bump, Call, Refused, StoreCall, Unmoved, RowDone, Poke,
     ResetRequest, Crash, UserRequest, BeginCreate, StartRequest, StopRequest,
     ConfigRequest, PurgeRequest, DeleteRequest, Request, HandlerStep, InsertServer,
     AddEntry, CheckEntry, MarkEntry, PurgeStorage, Handler, Environment,
     FinalizerLetsGo, HandleDeployment, HandleService, Refresh, Tamper, Outside,
     vars, pass
<1> QED
  BY <1>1, <1>2

(* Where DeleteAll has something behind it, or nothing of it ahead.        *)
TeardownPlaces == {"await", "mkPvc", "delSvc", "delCm", "delSecret", "delPvc", "dropRow"}

LEMMA NoTeardown ==
    ASSUME pc' \notin TeardownPlaces
    PROVE  TeardownOrder'
  BY DEF TeardownOrder, TeardownPlaces

(* Nobody but the controller moves the pass or gives the row it converges  *)
(* an object back.                                                         *)
LEMMA NobodyRestores ==
    ASSUME TypeOK, Cursor, TeardownOrder, UNCHANGED <<pc, snap, cur>>,
           \A n \in Names :
              /\ dep'[n] # dep[n] => dep'[n] = None \/ dep'[n].dying
              /\ cm'[n] \in {cm[n], None} /\ secret'[n] \in {secret[n], None}
              /\ pvc[n] # "bound" => pvc'[n] # "bound",
           svc' \subseteq svc
    PROVE  TeardownOrder'
<1>1. CASE pc \in TeardownPlaces
  <2>1. Target \in Names
    BY <1>1, ListedType DEF TeardownPlaces, KubeCalls, StoreCalls
  <2>2. Listed' = Listed /\ Target' = Target
    BY DEF Listed, Target
  <2> QED
    BY <2>1, <2>2 DEF TeardownOrder, Live, Doomed
<1>2. CASE pc \notin TeardownPlaces
  BY <1>2, NoTeardown
<1> QED
  BY <1>1, <1>2

LEMMA DeleteAllOrder ==
    ASSUME TypeOK, Cursor, TeardownOrder, DeleteAllStep
    PROVE  TeardownOrder'
<1>1. pc \in KubeCalls /\ Unmoved
  BY DEF DeleteAllStep, Call, KubeCalls
<1>2. Target \in Names
  BY <1>1, ListedType DEF KubeCalls
<1>3. Listed' = Listed /\ Target' = Target
  BY <1>1 DEF Listed, Target, Unmoved
<1>5. CASE pc' = "bump"
  BY <1>5, NoTeardown DEF TeardownPlaces
<1>6. CASE pc = "delDep" /\ pc' = "delSvc" /\ DeleteDeployment(Target)
  <2>1. dep'[Target] = None \/ dep'[Target].dying
    <3>1. PICK d \in {None} \cup (IF dep[Target] = None THEN {}
                                  ELSE {[dep[Target] EXCEPT !.dying = TRUE]}) :
               dep' = [dep EXCEPT ![Target] = d]
      BY <1>6 DEF DeleteDeployment, SetDeployment
    <3>2. dep'[Target] = d
      BY <1>2, <3>1 DEF TypeOK, ClusterTypeOK
    <3>3. dep[Target] # None => [dep[Target] EXCEPT !.dying = TRUE].dying
      BY <1>2 DEF TypeOK, ClusterTypeOK, Deployment
    <3> QED
      BY <3>1, <3>2, <3>3
  <2> QED
    BY <1>3, <1>6, <2>1 DEF TeardownOrder, Live
<1>7. CASE pc = "delSvc" /\ pc' = "delCm" /\ DeleteService(Target)
  BY <1>3, <1>7 DEF TeardownOrder, Live, DeleteService
<1>8. CASE pc = "delCm" /\ pc' = "delSecret" /\ DeleteConfigMap(Target)
  BY <1>2, <1>3, <1>8 DEF TeardownOrder, Live, DeleteConfigMap, TypeOK, ClusterTypeOK
<1>9. CASE pc = "delSecret" /\ pc' = AfterDeleteSecret /\ DeleteSecret(Target)
  <2>1. secret'[Target] = None /\ UNCHANGED <<pvc, cm, svc, dep>>
    BY <1>2, <1>9 DEF DeleteSecret, TypeOK, ClusterTypeOK
  <2> QED
    BY <1>3, <1>9, <2>1 DEF TeardownOrder, Live, AfterDeleteSecret, Doomed
<1>10. CASE pc = "delPvc" /\ pc' = "dropRow" /\ DeletePVC(Target)
  <2>1. pvc'[Target] # "bound" /\ UNCHANGED <<secret, cm, svc, dep>>
    BY <1>2, <1>10 DEF DeletePVC, TypeOK, ClusterTypeOK
  <2> QED
    BY <1>3, <1>10, <2>1 DEF TeardownOrder, Live, Doomed
<1> QED
  BY <1>5, <1>6, <1>7, <1>8, <1>9, <1>10 DEF DeleteAllStep, Call, Answer

LEMMA NextTeardownOrder ==
    ASSUME TypeOK, Cursor, TeardownOrder, [Next]_vars
    PROVE  TeardownOrder'
<1>1. CASE DeleteAllStep
  BY <1>1, DeleteAllOrder
<1>2. CASE AwaitGone
  <2>1. pc = "await" /\ pc' \in {"mkPvc", "bump"} /\ UNCHANGED <<snap, cur>>
    BY <1>2 DEF AwaitGone, Call, Refused, Answer, Unmoved
  <2>2. Listed' = Listed
    BY <2>1 DEF Listed
  <2> QED
    BY <2>1, <2>2 DEF TeardownOrder, Doomed
<1>3. CASE \/ CreateAllStep \/ CompareHash \/ ApplyConfigStep \/ EnsureReplicas
           \/ CallFails \/ ResetFailuresStep \/ DropRow \/ Bump
  <2>1. pc' \notin TeardownPlaces
    BY <1>3 DEF CreateAllStep, CreatePVCStep, CompareHash, ApplyConfigStep,
       EnsureReplicas, CallFails, ResetFailuresStep, DropRow, Bump, Call, Answer,
       Refused, StoreCall, RowDone, AfterCreateDeployment, TeardownPlaces
  <2> QED
    BY <2>1, NoTeardown
<1>4. CASE PassStep
  <2>1. CASE WakeUp \/ Tick \/ ListRows \/ RowsDone \/ PassDone \/ \E n \in Names : DriftEntry(n)
    <3>1. pc' \notin TeardownPlaces
      BY <2>1 DEF WakeUp, Tick, ListRows, RowsDone, PassDone, DriftEntry, TeardownPlaces
    <3> QED
      BY <3>1, NoTeardown
  <2>2. ASSUME NEW n \in Names, PickRow(n)
        PROVE  TeardownOrder'
    <3>1. Listed' = snap[n]
      BY <2>2 DEF PickRow, Listed
    <3>2. pc' = "delDep" \/ (pc' = "mkPvc" /\ ~ Doomed(snap[n]))
      BY <2>2 DEF PickRow, FirstCall
    <3> QED
      BY <3>1, <3>2 DEF TeardownOrder, Doomed
  <2> QED
    BY <1>4, <2>1, <2>2 DEF PassStep
<1>5. CASE Crash
  <2>1. pc' \notin TeardownPlaces
    BY <1>5 DEF Crash, TeardownPlaces
  <2> QED
    BY <2>1, NoTeardown
<1>6. CASE UNCHANGED <<pc, snap, cur, objects>>
  BY <1>6, NobodyRestores DEF objects
<1>7. ASSUME NEW n \in Names, PurgeStorage(n)
      PROVE  TeardownOrder'
  <2>1. UNCHANGED <<pc, snap, cur, secret, cm, svc, dep>>
    BY <1>7 DEF PurgeStorage, Handler, DeletePVC, pass
  <2>2. \A m \in Names : pvc[m] # "bound" => pvc'[m] # "bound"
    BY <1>7 DEF PurgeStorage, DeletePVC, TypeOK, ClusterTypeOK
  <2> QED
    BY <2>1, <2>2, NobodyRestores
<1>8. ASSUME NEW n \in Names, FinalizerLetsGo(n) \/ Tamper(n)
      PROVE  TeardownOrder'
  <2>1. UNCHANGED <<pc, snap, cur>>
    BY <1>8 DEF FinalizerLetsGo, Tamper, Outside, pass
  <2>2. svc' \subseteq svc
    BY <1>8 DEF FinalizerLetsGo, Tamper, Reap, SetDeployment, DeleteDeployment,
                DeleteService, DeleteConfigMap, DeleteSecret
  <2>3. \A m \in Names : /\ cm'[m] \in {cm[m], None} /\ secret'[m] \in {secret[m], None}
                         /\ pvc[m] # "bound" => pvc'[m] # "bound"
    BY <1>8 DEF FinalizerLetsGo, Tamper, Reap, SetDeployment, DeleteDeployment,
                DeleteService, DeleteConfigMap, DeleteSecret, TypeOK, ClusterTypeOK
  <2>4. \A m \in Names : dep'[m] # dep[m] => dep'[m] = None \/ dep'[m].dying
    <3>1. CASE dep' = dep \/ dep' = [dep EXCEPT ![n] = None]
      BY <3>1 DEF TypeOK, ClusterTypeOK
    <3>2. CASE dep[n] # None /\ dep' = [dep EXCEPT ![n] = [dep[n] EXCEPT !.dying = TRUE]]
      <4>1. dep[n] \in Deployment
        BY <3>2 DEF TypeOK, ClusterTypeOK
      <4>2. [dep[n] EXCEPT !.dying = TRUE].dying
        BY <4>1 DEF Deployment
      <4> QED
        BY <3>2, <4>2 DEF TypeOK, ClusterTypeOK
    <3> QED
      BY <1>8, <3>1, <3>2
      DEF FinalizerLetsGo, Tamper, Reap, SetDeployment, DeleteDeployment,
          DeleteService, DeleteConfigMap, DeleteSecret
  <2> QED
    BY <2>1, <2>2, <2>3, <2>4, NobodyRestores
<1>9. CASE Poke \/ ResetRequest \/ (\E n \in Names : UserRequest(n)) \/ UNCHANGED vars
  <2>1. UNCHANGED <<pc, snap, cur, objects>>
    BY <1>9 DEF Poke, ResetRequest, UserRequest, BeginCreate, StartRequest, StopRequest,
       ConfigRequest, PurgeRequest, DeleteRequest, Request, vars, pass
  <2> QED
    BY <1>6, <2>1
<1>10. ASSUME NEW n \in Names,
              \/ InsertServer(n) \/ AddEntry(n) \/ CheckEntry(n) \/ MarkEntry(n)
              \/ HandleDeployment(n) \/ HandleService(n) \/ Refresh(n)
       PROVE  TeardownOrder'
  <2>1. UNCHANGED <<pc, snap, cur, objects>>
    BY <1>10 DEF InsertServer, AddEntry, CheckEntry, MarkEntry, Handler,
       HandleDeployment, HandleService, Refresh, DeliverDeployment, DeliverService,
       Resync, Outside, pass
  <2> QED
    BY <1>6, <2>1
<1> QED
  BY <1>1, <1>2, <1>3, <1>4, <1>5, <1>7, <1>8, <1>9, <1>10
  DEF Next, Controller, ConvergeStep, HandlerStep, Environment

(* A record is cleared only after a complete teardown (convergeRow,        *)
(* DeleteAll), for any number of servers, requests, faults and crashes,    *)
(* and whatever server_name the requests carry.                            *)
THEOREM TeardownsComplete == Spec => []ClearedWhenTornDown
<1>1. Init => TeardownOrder
  BY DEF Init, TeardownOrder
<1>2. TypeOK /\ Cursor /\ TeardownOrder /\ [Next]_vars => TeardownOrder'
  BY NextTeardownOrder
<1>3. TypeOK /\ Cursor /\ TeardownOrder => ClearedWhenTornDown
  BY DEF ClearedWhenTornDown, TeardownOrder, TornDown, Live
<1> QED
  BY <1>1, <1>2, <1>3, TypeCorrect, PTL DEF Spec

----------------------------------------------------------------------------
(* Deployments and records.  Unless an administrator resets the database,  *)
(* a listed row stays until the controller itself is done with it.         *)

LEMMA TodoStep ==
    ASSUME [Next]_vars, pc' # "drift"
    PROVE  \/ todo' = {}
           \/ todo' = {n \in Names : rows[n] # None} /\ rows' = rows
           \/ pc # "drift" /\ todo' \subseteq todo
<1>1. CASE ConvergeStep
  BY <1>1 DEF ConvergeStep, DeleteAllStep, AwaitGone, CreateAllStep, CreatePVCStep,
     CompareHash, ApplyConfigStep, EnsureReplicas, ResetFailuresStep, DropRow,
     CallFails, Bump, Call, Refused, StoreCall, Unmoved, RowDone, KubeCalls
<1>2. CASE PassStep
  BY <1>2 DEF PassStep, WakeUp, Tick, ListRows, RowsDone, PassDone, PickRow, DriftEntry
<1>3. CASE Crash
  BY <1>3 DEF Crash
<1>4. CASE \/ Poke \/ ResetRequest \/ UNCHANGED vars
           \/ \E n \in Names : UserRequest(n) \/ HandlerStep(n) \/ Environment(n)
  <2>1. UNCHANGED <<pc, todo>>
    BY <1>4 DEF Poke, ResetRequest, UserRequest, BeginCreate, StartRequest, StopRequest,
       ConfigRequest, PurgeRequest, DeleteRequest, Request, HandlerStep, InsertServer,
       AddEntry, CheckEntry, MarkEntry, PurgeStorage, Handler, Environment,
       FinalizerLetsGo, HandleDeployment, HandleService, Refresh, Tamper, Outside,
       vars, pass
  <2> QED
    BY <2>1
<1> QED
  BY <1>1, <1>2, <1>3, <1>4 DEF Next, Controller

LEMMA NextListedStillThere ==
    ASSUME "reset" \notin Ops, TypeOK, Cursor, ListedStillThere, [Next]_vars
    PROVE  ListedStillThere'
<1> SUFFICES ASSUME pc' # "drift", NEW n \in todo', n \in Names
             PROVE  rows'[n] # None
  BY NextTypes DEF ListedStillThere, TypeOK
<1>1. CASE todo' = {m \in Names : rows[m] # None} /\ rows' = rows
  BY <1>1
<1>2. CASE pc # "drift" /\ todo' \subseteq todo
  <2>1. rows[n] # None
    BY <1>2 DEF ListedStillThere
  <2>2. ASSUME NEW m \in Names, NEW r \in Row, Written(m, r)
        PROVE  rows'[n] # None
    BY <2>1, <2>2, NoneAssumption DEF Written, TypeOK, Tables
  <2>3. ASSUME DropRow, cur \in Names, rows' = [rows EXCEPT ![cur] = None]
        PROVE  rows'[n] # None
    <3>1. rows'[cur] = None
      BY <2>3 DEF TypeOK, Tables
    <3>2. rows[cur] # None => n # cur
      BY <2>3, <3>1 DEF DropRow, StoreCall, RowDone
    <3> QED
      BY <2>1, <2>3, <3>2 DEF TypeOK, Tables
  <2>4. ~ ResetRequest
    BY DEF ResetRequest, Request
  <2> QED
    BY <2>1, <2>2, <2>3, <2>4, RowsStep
<1> QED
  BY <1>1, <1>2, TodoStep


LEMMA DeploymentsAppear ==
    ASSUME TypeOK, Cursor, Own(snap), ListedStillThere, [Next]_vars
    PROVE  \A n \in Names : dep[n] = None /\ dep'[n] # None => rows[n] # None
<1> SUFFICES ASSUME NEW n \in Names, dep[n] = None, dep'[n] # None
             PROVE  rows[n] # None
  OBVIOUS
<1>1. CASE Call("mkDep", AfterCreateDeployment) /\ CreateDeployment(Target, Listed.cfg)
  <2>1. pc = "mkDep" /\ pc \in KubeCalls
    BY <1>1 DEF Call, KubeCalls
  <2>2. cur \in todo /\ cur \in Names /\ snap[cur] # None
    BY <2>1, ListedType DEF Cursor, KubeCalls
  <2>3. Target = cur
    BY <2>2 DEF Own, Target, Listed
  <2>4. n = cur
    BY <1>1, <2>3 DEF CreateDeployment, SetDeployment, TypeOK, ClusterTypeOK
  <2> QED
    BY <2>1, <2>2, <2>4 DEF ListedStillThere
<1>2. ASSUME NEW m \in Names, DeleteDeployment(m) PROVE FALSE
  BY <1>2, NoDeploymentAssumption DEF DeleteDeployment, SetDeployment, TypeOK, ClusterTypeOK
<1>3. ASSUME NEW m \in Names, NEW d, dep[m] # None, SetDeployment(m, d) PROVE FALSE
  BY <1>3 DEF SetDeployment, TypeOK, ClusterTypeOK
<1>4. pc \in KubeCalls => Target \in Names /\ cur \in Names
  BY ListedType
<1>5. ~ DeleteAllStep
  BY <1>2, <1>4 DEF DeleteAllStep, Call, KubeCalls, DeleteService, DeleteConfigMap,
     DeleteSecret, DeletePVC
<1>6. ~ ApplyConfigStep /\ ~ EnsureReplicas
  BY <1>3, <1>4 DEF ApplyConfigStep, EnsureReplicas, Call, Refused, KubeCalls,
     UpdateConfigMap, UpdateSecret, objects
<1>7. CASE CreateAllStep
  BY <1>1, <1>7 DEF CreateAllStep, CreatePVCStep, CreatePVC, CreateSecret,
     CreateConfigMap, CreateService
<1>8. ~ AwaitGone /\ ~ CompareHash /\ ~ ResetFailuresStep /\ ~ DropRow
      /\ ~ CallFails /\ ~ Bump
  BY DEF AwaitGone, CompareHash, ResetFailuresStep, DropRow, CallFails, Bump,
         Refused, StoreCall, Idle, objects
<1>9. ~ PassStep
  BY DEF PassStep, WakeUp, Tick, ListRows, RowsDone, PassDone, PickRow, DriftEntry,
         Idle, objects
<1>10. \A m \in Names : ~ Environment(m)
  <2> SUFFICES ASSUME NEW m \in Names, Environment(m) PROVE FALSE
    OBVIOUS
  <2>1. CASE FinalizerLetsGo(m)
    BY <1>3, <2>1 DEF FinalizerLetsGo, Reap
  <2>2. CASE Tamper(m)
    BY <1>2, <2>2 DEF Tamper, DeleteService, DeleteConfigMap, DeleteSecret
  <2>3. CASE HandleDeployment(m) \/ HandleService(m) \/ Refresh(m)
    BY <2>3 DEF HandleDeployment, HandleService, Refresh, DeliverDeployment,
       DeliverService, Resync, objects
  <2> QED
    BY <2>1, <2>2, <2>3 DEF Environment
<1>11. \A m \in Names : ~ UserRequest(m) /\ ~ HandlerStep(m)
  BY DEF UserRequest, BeginCreate, StartRequest, StopRequest, ConfigRequest,
     PurgeRequest, DeleteRequest, Request, HandlerStep, InsertServer, AddEntry,
     CheckEntry, MarkEntry, PurgeStorage, DeletePVC, objects
<1>12. ~ Poke /\ ~ ResetRequest /\ ~ Crash /\ ~ UNCHANGED vars
  BY DEF Poke, ResetRequest, Request, Crash, vars, objects
<1> QED
  BY <1>5, <1>6, <1>7, <1>8, <1>9, <1>10, <1>11, <1>12 DEF Next, Controller, ConvergeStep

(* The table comes first (stateActions): no deployment appears for a name  *)
(* without a record, though the pass works from a listing that other       *)
(* requests have outdated since.  A reset of the database would break it.  *)
THEOREM RecordsComeFirst ==
    ASSUME ~ AllowRename, "reset" \notin Ops
    PROVE  Spec => OnlyRecordedServersAppear
<1> DEFINE Ind == Own(rows) /\ Own(snap) /\ ListedStillThere
<1>1. Init => Ind
  BY DEF Init, Own, ResetDatabase, ListedStillThere
<1>2. TypeOK /\ Cursor /\ Ind /\ [Next]_vars => Ind'
  <2> SUFFICES ASSUME TypeOK, Cursor, Ind, [Next]_vars PROVE Ind'
    OBVIOUS
  <2>1. Own(rows')
    BY RowsOwn
  <2>2. Own(snap')
    BY ListingOwn
  <2>3. ListedStillThere'
    BY NextListedStillThere
  <2> QED
    BY <2>1, <2>2, <2>3 DEF Own
<1>3. TypeOK /\ Cursor /\ Ind /\ [Next]_vars
      => [\A n \in Names : dep[n] = None /\ dep'[n] # None => rows[n] # None]_vars
  BY DeploymentsAppear
<1> QED
  BY <1>1, <1>2, <1>3, TypeCorrect, PTL DEF Spec, OnlyRecordedServersAppear

----------------------------------------------------------------------------
(* Worlds.  A volume goes only at the end of a teardown whose listing says *)
(* purge, and whoever put that purge into the table had asked for it.      *)

NoPurges == \A h \in inflight : h.step # "purge"

LEMMA NextNoPurges ==
    ASSUME "purge" \notin Ops, NoPurges, [Next]_vars
    PROVE  NoPurges'
<1>1. CASE inflight' = inflight
  BY <1>1 DEF NoPurges
<1>2. CASE inflight' # inflight
  <2>1. Crash \/ \E n \in Names : UserRequest(n) \/ HandlerStep(n)
    BY <1>2 DEF Next, Controller, PassStep, WakeUp, Tick, ListRows, RowsDone, PassDone,
       PickRow, DriftEntry, ConvergeStep, DeleteAllStep, AwaitGone, CreateAllStep,
       CreatePVCStep, CompareHash, ApplyConfigStep, EnsureReplicas, ResetFailuresStep,
       DropRow, CallFails, Bump, Call, Refused, StoreCall, Unmoved, Quiet, Poke,
       ResetRequest, Environment, FinalizerLetsGo, HandleDeployment, HandleService,
       Refresh, Tamper, Outside, api, vars
  <2>2. CASE Crash
    BY <2>2 DEF Crash, NoPurges
  <2>3. ASSUME NEW n \in Names, UserRequest(n)
        PROVE  \E s \in {"insert", "checkEntry"} : Enter(s, n)
    BY <1>2, <2>3 DEF UserRequest, BeginCreate, StartRequest, StopRequest,
       ConfigRequest, PurgeRequest, DeleteRequest, Request, Write
  <2>4. ASSUME NEW n \in Names, HandlerStep(n)
        PROVE  \E s \in HandlerSteps : \/ Leave(s, n) \/ Move(s, "addEntry", n)
                                      \/ Move(s, "markEntry", n)
    BY <2>4 DEF HandlerStep, InsertServer, AddEntry, CheckEntry, MarkEntry,
       PurgeStorage, GoPoke, HandlerSteps
  <2> QED
    BY <2>1, <2>2, <2>3, <2>4 DEF NoPurges, Enter, Leave, Move
<1> QED
  BY <1>1, <1>2

(* A step makes a world and lets its old consent go, or only adds consent. *)
LEMMA AskedStep ==
    ASSUME TypeOK, Cursor, Own(snap), [Next]_vars
    PROVE  \/ asked \subseteq asked' /\ \E n \in Names : asked' \subseteq asked \cup {n}
           \/ asked' = asked
           \/ CreatePVCStep /\ cur \in Names /\ Target = cur /\ pvc[cur] = "none"
              /\ ~ PurgePending(cur) /\ asked' = asked \ {cur}
<1>1. CASE CreatePVCStep
  <2>1. pc = "mkPvc" /\ pc \in KubeCalls
    BY <1>1 DEF CreatePVCStep, Call, KubeCalls
  <2>2. cur \in todo /\ cur \in Names /\ snap[cur] # None
    BY <2>1, ListedType DEF Cursor, KubeCalls
  <2>3. Target = cur
    BY <2>2 DEF Own, Target, Listed
  <2> QED
    BY <1>1, <2>2, <2>3 DEF CreatePVCStep
<1>2. CASE \E n \in Names : UserRequest(n) \/ HandlerStep(n)
  BY <1>2 DEF UserRequest, BeginCreate, StartRequest, StopRequest, ConfigRequest,
     PurgeRequest, DeleteRequest, Write, HandlerStep, InsertServer, AddEntry,
     CheckEntry, MarkEntry, PurgeStorage, history
<1> QED
  BY <1>1, <1>2 DEF Next, Controller, PassStep, WakeUp, Tick, ListRows, RowsDone,
     PassDone, PickRow, DriftEntry, ConvergeStep, DeleteAllStep, AwaitGone,
     CreateAllStep, CompareHash, ApplyConfigStep, EnsureReplicas, ResetFailuresStep,
     DropRow, CallFails, Bump, Call, Refused, StoreCall, Quiet, Poke, ResetRequest,
     Crash, Environment, FinalizerLetsGo, HandleDeployment, HandleService, Refresh,
     Tamper, Outside, history, vars

(* A purge is taken back only by a delete that says so.                    *)
LEMMA WithdrawnStep ==
    ASSUME TypeOK, NEW n \in Names, [Next]_vars, n \in withdrawn', n \notin withdrawn
    PROVE  ~ PurgePending(n)'
<1>1. \A m \in Names : ~ HandlerStep(m) /\ ~ Environment(m)
  BY DEF HandlerStep, InsertServer, AddEntry, CheckEntry, MarkEntry, PurgeStorage,
     Environment, FinalizerLetsGo, HandleDeployment, HandleService, Refresh,
     Tamper, Outside, history
<1>2. ~ Controller
  BY DEF Controller, PassStep, WakeUp, Tick, ListRows, RowsDone, PassDone, PickRow,
     DriftEntry, ConvergeStep, DeleteAllStep, AwaitGone, CreateAllStep, CreatePVCStep,
     CompareHash, ApplyConfigStep, EnsureReplicas, ResetFailuresStep, DropRow,
     CallFails, Bump, Call, Refused, Unmoved, StoreCall, Quiet
<1>3. PICK m \in Names : UserRequest(m)
  BY <1>1, <1>2 DEF Next, Poke, ResetRequest, Crash, history, vars
<1>4. PICK purge \in BOOLEAN : DeleteRequest(m, purge)
  BY <1>3 DEF UserRequest, BeginCreate, StartRequest, StopRequest, ConfigRequest,
     PurgeRequest, Write, history
<1>5. m = n /\ ~ purge
  BY <1>4 DEF DeleteRequest
<1> QED
  BY <1>4, <1>5 DEF DeleteRequest, MarkDeleting, PurgePending, TypeOK, Tables

(* The part of PurgesAsked about the table.                                *)
LEMMA PendingAsked ==
    ASSUME TypeOK, Cursor, Own(snap), PurgesAsked, [Next]_vars,
           NEW n \in Names, PurgePending(n)'
    PROVE  n \in asked' /\ n \notin withdrawn'
<1>1. PurgePending(n) => n \in asked' /\ n \notin withdrawn'
  BY AskedStep, WithdrawnStep DEF PurgesAsked
<1>2. CASE rows'[n] = rows[n]
  BY <1>1, <1>2 DEF PurgePending
<1>3. ASSUME NEW m \in Names, NEW r \in Row, Written(m, r)
      PROVE  n \in asked' /\ n \notin withdrawn'
  <2>1. CASE n = m
    <3>1. rows'[n] = r
      BY <1>3, <2>1 DEF Written, TypeOK, Tables
    <3> QED
      BY <1>1, <1>3, <2>1, <3>1 DEF Written, PurgePending
  <2>2. CASE n # m
    BY <1>2, <1>3, <2>2 DEF Written, TypeOK, Tables
  <2> QED
    BY <2>1, <2>2
<1>4. ASSUME cur \in Names, rows' = [rows EXCEPT ![cur] = None]
      PROVE  n \in asked' /\ n \notin withdrawn'
  BY <1>2, <1>4 DEF PurgePending, TypeOK, Tables
<1>5. CASE ResetRequest
  BY <1>5 DEF PurgePending, ResetRequest, ResetDatabase
<1> QED
  BY <1>2, <1>3, <1>4, <1>5, RowsStep

(* What a step does to the listing and to the rows still to be visited.    *)
LEMMA ListingStep ==
    ASSUME [Next]_vars, pc' # "drift"
    PROVE  \/ todo' = {}
           \/ snap' = rows /\ rows' = rows /\ asked' = asked
           \/ pc # "drift" /\ todo' \subseteq todo /\ snap' = snap
<1>1. CASE ConvergeStep
  BY <1>1 DEF ConvergeStep, DeleteAllStep, AwaitGone, CreateAllStep, CreatePVCStep,
     CompareHash, ApplyConfigStep, EnsureReplicas, ResetFailuresStep, DropRow,
     CallFails, Bump, Call, Refused, StoreCall, Unmoved, RowDone, KubeCalls
<1>2. CASE PassStep
  BY <1>2 DEF PassStep, WakeUp, Tick, ListRows, RowsDone, PassDone, PickRow, DriftEntry, Quiet
<1>3. CASE Crash
  BY <1>3 DEF Crash
<1>4. CASE \/ Poke \/ ResetRequest \/ UNCHANGED vars
           \/ \E n \in Names : UserRequest(n) \/ HandlerStep(n) \/ Environment(n)
  <2>1. UNCHANGED <<pc, todo, snap>>
    BY <1>4 DEF Poke, ResetRequest, UserRequest, BeginCreate, StartRequest, StopRequest,
       ConfigRequest, PurgeRequest, DeleteRequest, Request, HandlerStep, InsertServer,
       AddEntry, CheckEntry, MarkEntry, PurgeStorage, Handler, Environment,
       FinalizerLetsGo, HandleDeployment, HandleService, Refresh, Tamper, Outside,
       vars, pass
  <2> QED
    BY <2>1
<1> QED
  BY <1>1, <1>2, <1>3, <1>4 DEF Next, Controller

LEMMA NextPurgesAsked ==
    ASSUME TypeOK, Cursor, Own(snap), TeardownOrder, PurgesAsked, [Next]_vars
    PROVE  PurgesAsked'
<1>1. ASSUME NEW n \in Names, n \in todo', pc' # "drift", PurgeListed(n)'
      PROVE  n \in asked'
  <2>1. CASE snap' = rows /\ rows' = rows /\ asked' = asked
    BY <1>1, <2>1 DEF PurgesAsked, PurgeListed, PurgePending
  <2>2. CASE pc # "drift" /\ todo' \subseteq todo /\ snap' = snap
    <3>1. n \in asked /\ PurgeListed(n)
      BY <1>1, <2>2 DEF PurgesAsked, PurgeListed
    <3>2. CreatePVCStep => ~ Doomed(snap[cur])
      BY DEF CreatePVCStep, Call, TeardownOrder, Listed
    <3> QED
      BY <3>1, <3>2, AskedStep DEF PurgeListed
  <2> QED
    BY <1>1, <2>1, <2>2, ListingStep
<1> QED
  BY <1>1, PendingAsked DEF PurgesAsked

(* Which steps touch a volume, and what they do to the worlds.             *)
VolumeStep(n) ==
    \/ pvc' = [pvc EXCEPT ![n] = "none"] /\ pvc[n] # "bound" /\ asked' = asked
    \/ /\ pc = "delPvc" /\ n = cur /\ pvc[n] = "bound" /\ asked' = asked
       /\ pvc' = [pvc EXCEPT ![n] = "none"] \/ pvc' = [pvc EXCEPT ![n] = "dying"]
    \/ /\ pvc[n] = "none" /\ pvc' = [pvc EXCEPT ![n] = "bound"]
       /\ asked' \in {asked, asked \ {n}}

LEMMA VolumesStep ==
    ASSUME TypeOK, Cursor, Own(snap), NoPurges, [Next]_vars
    PROVE  pvc' = pvc \/ \E n \in Names : VolumeStep(n)
<1>1. ASSUME pc \in KubeCalls
      PROVE  cur \in Names /\ Target = cur
  <2>1. cur \in Names /\ snap[cur] # None
    BY <1>1, ListedType DEF Cursor, KubeCalls, TypeOK
  <2> QED
    BY <2>1 DEF Own, Target, Listed
<1>2. CASE CreatePVCStep
  <2>1. pc \in KubeCalls /\ CreatePVC(cur)
    BY <1>1, <1>2 DEF CreatePVCStep, Call, KubeCalls
  <2>2. asked' \in {asked, asked \ {cur}}
    BY <1>1, <1>2, <2>1 DEF CreatePVCStep
  <2>3. CASE pvc[cur] = "none"
    <3>1. pvc' = [pvc EXCEPT ![cur] = "bound"]
      BY <2>1, <2>3 DEF CreatePVC, TypeOK, ClusterTypeOK
    <3> QED
      BY <1>1, <2>1, <2>2, <2>3, <3>1 DEF VolumeStep
  <2>4. CASE pvc[cur] # "none"
    BY <1>1, <2>1, <2>4 DEF CreatePVC, TypeOK, ClusterTypeOK
  <2> QED
    BY <2>3, <2>4
<1>3. CASE Call("delPvc", "dropRow") /\ DeletePVC(Target) /\ UNCHANGED asked
  <2>1. pc = "delPvc" /\ cur \in Names /\ DeletePVC(cur)
    BY <1>1, <1>3 DEF Call, KubeCalls
  <2> QED
    BY <1>3, <2>1 DEF DeletePVC, VolumeStep, TypeOK, ClusterTypeOK
<1>4. ASSUME NEW n \in Names, FinalizerLetsGo(n)
      PROVE  pvc' = pvc \/ VolumeStep(n)
  BY <1>4 DEF FinalizerLetsGo, Reap, SetDeployment, Outside, history, VolumeStep
<1>5. \A n \in Names : ~ PurgeStorage(n)
  BY DEF PurgeStorage, Handler, Holds, NoPurges
<1>6. CASE ConvergeStep
  BY <1>2, <1>3, <1>6 DEF ConvergeStep, DeleteAllStep, AwaitGone, CreateAllStep,
     CompareHash, ApplyConfigStep, EnsureReplicas, ResetFailuresStep, DropRow,
     CallFails, Bump, Refused, StoreCall, Idle, objects, SetDeployment,
     CreateDeployment, DeleteDeployment, CreateSecret, CreateConfigMap, CreateService,
     DeleteService, DeleteConfigMap, DeleteSecret, UpdateConfigMap, UpdateSecret
<1>7. CASE PassStep \/ Poke \/ ResetRequest \/ Crash \/ UNCHANGED vars
  BY <1>7 DEF PassStep, WakeUp, Tick, ListRows, RowsDone, PassDone, PickRow, DriftEntry,
     Idle, Poke, ResetRequest, Request, Crash, vars, objects
<1>8. ASSUME NEW n \in Names, UserRequest(n) \/ HandlerStep(n)
      PROVE  pvc' = pvc
  BY <1>5, <1>8 DEF UserRequest, BeginCreate, StartRequest, StopRequest, ConfigRequest,
     PurgeRequest, DeleteRequest, Request, HandlerStep, InsertServer, AddEntry,
     CheckEntry, MarkEntry, objects
<1>9. ASSUME NEW n \in Names, Environment(n)
      PROVE  pvc' = pvc \/ VolumeStep(n)
  BY <1>4, <1>9 DEF Environment, HandleDeployment, HandleService, Refresh, Tamper,
     DeliverDeployment, DeliverService, Resync, objects, DeleteDeployment,
     SetDeployment, DeleteService, DeleteConfigMap, DeleteSecret
<1> QED
  BY <1>6, <1>7, <1>8, <1>9 DEF Next, Controller

(* The worlds of WorldStorage, named for the proof.                        *)
Bound == {n \in Names : pvc[n] = "bound"}

LEMMA WorldsStep ==
    ASSUME TypeOK, Cursor, Own(snap), TeardownOrder, PurgesAsked, NoPurges, [Next]_vars
    PROVE  \/ Bound' = Bound /\ asked' = asked
           \/ Bound' = Bound /\ \E n \in Names : asked' = asked \cup {n}
           \/ \E n \in Names : n \in Bound /\ n \in asked /\ Bound' = Bound \ {n} /\ asked' = asked
           \/ \E n \in Names : /\ n \notin Bound /\ Bound' = Bound \cup {n}
                              /\ asked' \in {asked, asked \ {n}}
<1>1. CASE pvc' = pvc
  <2>1. Bound' = Bound
    BY <1>1 DEF Bound
  <2>2. ~ (CreatePVCStep /\ cur \in Names /\ Target = cur /\ pvc[cur] = "none")
    BY <1>1 DEF CreatePVCStep, CreatePVC, TypeOK, ClusterTypeOK
  <2>3. asked' = asked \/ \E n \in Names : asked' = asked \cup {n}
    BY <2>2, AskedStep
  <2> QED
    BY <2>1, <2>3
<1>2. ASSUME NEW n \in Names, pvc' = [pvc EXCEPT ![n] = "none"], pvc[n] # "bound",
             asked' = asked
      PROVE  Bound' = Bound /\ asked' = asked
  BY <1>2 DEF Bound, TypeOK, ClusterTypeOK
<1>3. ASSUME NEW n \in Names, pc = "delPvc", n = cur, pvc[n] = "bound", asked' = asked,
             pvc' = [pvc EXCEPT ![n] = "none"] \/ pvc' = [pvc EXCEPT ![n] = "dying"]
      PROVE  n \in Bound /\ n \in asked /\ Bound' = Bound \ {n} /\ asked' = asked
  <2>1. n \in Bound /\ Bound' = Bound \ {n}
    BY <1>3 DEF Bound, TypeOK, ClusterTypeOK
  <2>2. n \in todo /\ snap[n] # None
    BY <1>3, ListedType DEF Cursor, KubeCalls
  <2>3. PurgeListed(n)
    BY <1>3, <2>2 DEF TeardownOrder, PurgeListed, Listed
  <2> QED
    BY <1>3, <2>1, <2>2, <2>3 DEF PurgesAsked
<1>4. ASSUME NEW n \in Names, pvc[n] = "none", pvc' = [pvc EXCEPT ![n] = "bound"],
             asked' \in {asked, asked \ {n}}
      PROVE  n \notin Bound /\ Bound' = Bound \cup {n}
  BY <1>4 DEF Bound, TypeOK, ClusterTypeOK
<1> QED
  BY <1>1, <1>2, <1>3, <1>4, VolumesStep DEF VolumeStep

(* The reconciler implements WorldStorage: through soft deletes, restarts, *)
(* clean rebuilds and orphan teardowns (DeleteAll, RecreateAll, driftPass) *)
(* a world goes only once somebody has asked for it since it was made.     *)
(* Purging an orphan's volume directly (HandlerDeletePVC) is left out: it  *)
(* checks for a record, not for a world made since.                        *)
THEOREM WorldsAreKept ==
    ASSUME ~ AllowRename, "purge" \notin Ops
    PROVE  Spec => WorldsKept
<1> DEFINE Ind == /\ Own(rows) /\ Own(snap) /\ TeardownOrder
                  /\ PurgesAsked /\ NoPurges
<1>1. Init => Ind
  BY DEF Init, Own, ResetDatabase, TeardownOrder, PurgesAsked, PurgePending,
         PurgeListed, NoPurges
<1>2. TypeOK /\ Cursor /\ Ind /\ [Next]_vars => Ind'
  <2> SUFFICES ASSUME TypeOK, Cursor, Ind, [Next]_vars PROVE Ind'
    OBVIOUS
  <2>1. Own(rows')
    BY RowsOwn
  <2>2. Own(snap')
    BY ListingOwn
  <2>3. TeardownOrder'
    BY NextTeardownOrder
  <2>4. PurgesAsked'
    BY NextPurgesAsked
  <2>5. NoPurges'
    BY NextNoPurges
  <2> QED
    BY <2>1, <2>2, <2>3, <2>4, <2>5 DEF Own
<1>3. Init => Worlds!Init
  BY DEF Init, ClusterInit, Worlds!Init
<1>4. TypeOK /\ Cursor /\ Ind /\ [Next]_vars => [Worlds!Next]_(Worlds!worldVars)
  <2> SUFFICES ASSUME TypeOK, Cursor, Ind, [Next]_vars
               PROVE  [Worlds!Next]_(Worlds!worldVars)
    OBVIOUS
  <2> QED
    BY WorldsStep DEF Bound, Worlds!Next, Worlds!worldVars, Worlds!Make,
                      Worlds!Ask, Worlds!Destroy
<1> QED
  BY <1>1, <1>2, <1>3, <1>4, TypeCorrect, PTL DEF Spec, WorldsKept, Worlds!Spec
=============================================================================
