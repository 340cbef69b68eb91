---------------------------- MODULE RecordProof ----------------------------
(***************************************************************************)
(* Theorems about Reconciler: what the controller does to deployments and  *)
(* volumes is what the records say, for every set of names, every bound    *)
(* and any mix of requests, database resets and direct purges included.    *)
(***************************************************************************)
EXTENDS ReconcilerProof

----------------------------------------------------------------------------
(* Who moves the pass, and where it goes.                                  *)

LEMMA OthersLeaveThePass ==
    ASSUME [Next]_vars
    PROVE  Controller \/ Crash \/ UNCHANGED <<pc, snap, todo, cur>>
  BY DEF Next, Poke, ResetRequest, UserRequest, BeginCreate, StartRequest, StopRequest,
     ConfigRequest, PurgeRequest, DeleteRequest, Request, HandlerStep, InsertServer,
     AddEntry, CheckEntry, MarkEntry, PurgeStorage, Handler, Environment,
     FinalizerLetsGo, HandleDeployment, HandleService, Refresh, Tamper, Outside,
     vars, pass

(* Between passes there is nothing to do.                                  *)
NothingToDo == pc \in {"idle", "list"} => todo = {}

LEMMA NextNothingToDo ==
    ASSUME NothingToDo, [Next]_vars
    PROVE  NothingToDo'
<1>1. CASE PassStep
  BY <1>1 DEF NothingToDo, PassStep, WakeUp, Tick, ListRows, RowsDone, PassDone,
     PickRow, DriftEntry, FirstCall
<1>2. CASE ConvergeStep
  <2>1. pc' \notin {"idle", "list"}
    BY <1>2 DEF ConvergeStep, DeleteAllStep, AwaitGone, CreateAllStep, CreatePVCStep,
       CompareHash, ApplyConfigStep, EnsureReplicas, ResetFailuresStep, DropRow,
       CallFails, Bump, Call, Answer, Refused, StoreCall, RowDone,
       AfterDeleteSecret, AfterCreateDeployment
  <2> QED
    BY <2>1 DEF NothingToDo
<1>3. CASE Crash
  BY <1>3 DEF Crash, NothingToDo
<1>4. CASE UNCHANGED <<pc, snap, todo, cur>>
  BY <1>4 DEF NothingToDo
<1> QED
  BY <1>1, <1>2, <1>3, <1>4, OthersLeaveThePass DEF Controller

----------------------------------------------------------------------------
(* The listing stays current but for what handlers write.                  *)

(* Who writes a record: a handler, which makes it unseen; the controller,  *)
(* which is then done with the row and has changed no more than its        *)
(* failures, or has cleared it; or driftPass, where there was none.        *)
OnlyFailures(n) ==
    /\ rows[n] # None /\ rows'[n] # None
    /\ rows'[n].desired = rows[n].desired /\ rows'[n].cfg = rows[n].cfg

LEMMA RecordStep ==
    ASSUME TypeOK, Cursor, [Next]_vars, NEW n \in Names, rows'[n] # rows[n]
    PROVE  \/ n \in unseen'
           \/ n = cur /\ n \notin todo' /\ (OnlyFailures(n) \/ pc = "dropRow")
           \/ pc' = "drift" /\ rows[n] = None
<1>1. ASSUME NEW m \in Names, HandlerStep(m)
      PROVE  n \in unseen'
  BY <1>1 DEF HandlerStep, InsertServer, AddEntry, CheckEntry, MarkEntry, PurgeStorage,
     CreateServer, TypeOK, Tables
<1>2. ASSUME NEW m \in Names, UserRequest(m)
      PROVE  n \in unseen'
  BY <1>2 DEF UserRequest, BeginCreate, StartRequest, StopRequest, ConfigRequest,
     PurgeRequest, DeleteRequest, Write, UpdateState, UpdateServerConfig,
     MarkDeleting, TypeOK, Tables
<1>3. CASE ResetRequest
  BY <1>3 DEF ResetRequest, ResetDatabase
<1>4. CASE ResetFailuresStep \/ Bump
  <2>1. cur \in Names /\ RowDone /\ rows[cur] # None
        /\ (rows' = ResetFailures(rows, cur) \/ rows' = IncrementFailure(rows, cur))
    BY <1>4, ListedType DEF ResetFailuresStep, Bump, StoreCall, StoreCalls
  <2>2. n = cur /\ rows[n] \in Row
    BY <2>1 DEF ResetFailures, IncrementFailure, TypeOK, Tables
  <2> DEFINE f == IF rows' = ResetFailures(rows, cur) THEN 0
                  ELSE IF rows[n].fails = RecreateEvery THEN 1 ELSE rows[n].fails + 1
  <2>3. rows'[n] = [rows[n] EXCEPT !.fails = f]
    BY <2>1, <2>2 DEF ResetFailures, IncrementFailure, TypeOK, Tables
  <2>4. f \in 0 .. RecreateEvery
    BY <2>2, ServersTableAssumption DEF Row
  <2> HIDE DEF f
  <2>5. rows'[n].desired = rows[n].desired /\ rows'[n].cfg = rows[n].cfg
    BY <2>2, <2>3 DEF Row
  <2>6. rows'[n] \in Row
    BY <2>2, <2>3, <2>4 DEF Row
  <2> QED
    BY <2>1, <2>2, <2>5, <2>6, NoneAssumption DEF OnlyFailures, RowDone
<1>5. CASE DropRow
  <2>1. pc = "dropRow" /\ cur \in Names
    BY <1>5, ListedType DEF DropRow, StoreCall, StoreCalls
  <2> QED
    BY <1>5, <2>1 DEF DropRow, StoreCall, DeleteServer, RowDone, TypeOK, Tables
<1>6. ASSUME NEW m \in Names, DriftEntry(m)
      PROVE  pc' = "drift" /\ rows[n] = None
  BY <1>6 DEF DriftEntry, InsertOrphanTombstone, TypeOK, Tables
<1>7. CASE \/ WakeUp \/ Tick \/ ListRows \/ RowsDone \/ PassDone
           \/ \E m \in Names : PickRow(m)
           \/ DeleteAllStep \/ AwaitGone \/ CreateAllStep \/ CompareHash
           \/ ApplyConfigStep \/ EnsureReplicas \/ CallFails
  BY <1>7 DEF WakeUp, Tick, ListRows, RowsDone, PassDone, PickRow, DeleteAllStep,
     AwaitGone, CreateAllStep, CreatePVCStep, CompareHash, ApplyConfigStep,
     EnsureReplicas, CallFails, Call, Refused, Unmoved
<1>8. CASE Poke \/ Crash \/ (\E m \in Names : Environment(m)) \/ UNCHANGED vars
  BY <1>8 DEF Poke, Crash, Environment, FinalizerLetsGo, HandleDeployment,
     HandleService, Refresh, Tamper, Outside, vars
<1>9. CASE ConvergeStep
  BY <1>4, <1>5, <1>7, <1>9 DEF ConvergeStep
<1>10. CASE PassStep
  BY <1>6, <1>7, <1>10 DEF PassStep
<1> QED
  BY <1>1, <1>2, <1>3, <1>8, <1>9, <1>10 DEF Next, Controller

(* What is unseen is only seen by listing, or lost in a crash.             *)
LEMMA UnseenStep ==
    ASSUME NothingToDo, [Next]_vars
    PROVE  unseen \subseteq unseen' \/ todo' = {} \/ (snap' = rows /\ rows' = rows)
<1>1. CASE PassStep
  BY <1>1 DEF NothingToDo, PassStep, WakeUp, Tick, ListRows, RowsDone, PassDone,
     PickRow, DriftEntry
<1>2. CASE ConvergeStep
  BY <1>2 DEF ConvergeStep, DeleteAllStep, AwaitGone, CreateAllStep, CreatePVCStep,
     CompareHash, ApplyConfigStep, EnsureReplicas, ResetFailuresStep, DropRow,
     CallFails, Bump, Call, Refused, StoreCall, Unmoved
<1>3. CASE Crash
  BY <1>3 DEF Crash
<1>4. CASE \/ Poke \/ ResetRequest \/ UNCHANGED vars
           \/ \E n \in Names : UserRequest(n) \/ HandlerStep(n) \/ Environment(n)
  BY <1>4 DEF Poke, ResetRequest, UserRequest, BeginCreate, StartRequest, StopRequest,
     ConfigRequest, PurgeRequest, DeleteRequest, Write, HandlerStep, InsertServer,
     AddEntry, CheckEntry, MarkEntry, PurgeStorage, Environment, FinalizerLetsGo,
     HandleDeployment, HandleService, Refresh, Tamper, Outside, history, vars
<1> QED
  BY <1>1, <1>2, <1>3, <1>4 DEF Next, Controller

LEMMA WritesAreRemembered ==
    ASSUME [Next]_vars, rows' # rows
    PROVE  unseen \subseteq unseen'
<1>1. CASE PassStep
  BY <1>1 DEF PassStep, WakeUp, Tick, ListRows, RowsDone, PassDone, PickRow, DriftEntry
<1>2. CASE ConvergeStep
  BY <1>2 DEF ConvergeStep, DeleteAllStep, AwaitGone, CreateAllStep, CreatePVCStep,
     CompareHash, ApplyConfigStep, EnsureReplicas, ResetFailuresStep, DropRow,
     CallFails, Bump, Call, Refused, StoreCall, Unmoved
<1>3. ~ Crash /\ ~ UNCHANGED vars
  BY DEF Crash, vars
<1>4. CASE \/ Poke \/ ResetRequest
           \/ \E n \in Names : UserRequest(n) \/ HandlerStep(n) \/ Environment(n)
  BY <1>4 DEF Poke, ResetRequest, UserRequest, BeginCreate, StartRequest, StopRequest,
     ConfigRequest, PurgeRequest, DeleteRequest, Write, HandlerStep, InsertServer,
     AddEntry, CheckEntry, MarkEntry, PurgeStorage, Environment, FinalizerLetsGo,
     HandleDeployment, HandleService, Refresh, Tamper, Outside, history
<1> QED
  BY <1>1, <1>2, <1>3, <1>4 DEF Next, Controller

LEMMA NextListingCurrent ==
    ASSUME TypeOK, Cursor, NothingToDo, ListingCurrent, [Next]_vars
    PROVE  ListingCurrent'
<1> SUFFICES ASSUME pc' # "drift", NEW n \in todo', n \notin unseen', n \in Names
             PROVE  rows'[n] = snap'[n]
  BY NextTypes DEF ListingCurrent, TypeOK
<1>1. CASE snap' = rows /\ rows' = rows
  BY <1>1
<1>2. CASE /\ pc # "drift" /\ todo' \subseteq todo /\ snap' = snap
           /\ unseen \subseteq unseen'
  BY <1>2, RecordStep DEF ListingCurrent
<1> QED
  BY <1>1, <1>2, ListingStep, UnseenStep

(* So the row that is being converged is the record, unless it is unseen.  *)
LEMMA ConvergedIsCurrent ==
    ASSUME TypeOK, Cursor, ListingCurrent, pc \in KubeCalls \cup StoreCalls, cur \notin unseen
    PROVE  cur \in Names /\ rows[cur] = Listed /\ rows[cur] # None /\ Listed \in Row
<1>1. cur \in Names /\ cur \in todo /\ Listed \in Row
  BY ListedType
<1>2. pc # "drift"
  BY DEF KubeCalls, StoreCalls
<1> QED
  BY <1>1, <1>2, NoneAssumption DEF ListingCurrent, Listed

----------------------------------------------------------------------------
(* What the controller makes its calls for.                                *)

LEMMA NextCallsHaveCause ==
    ASSUME CallsHaveCause, [Next]_vars
    PROVE  CallsHaveCause'
<1>1. CASE UNCHANGED <<pc, snap, cur>>
  BY <1>1 DEF CallsHaveCause, Listed
<1>2. CASE ConvergeStep
  <2>1. CASE ResetFailuresStep \/ DropRow \/ CallFails \/ Bump
    <3>1. pc' \in {"rows", "bump"}
      BY <2>1 DEF ResetFailuresStep, DropRow, CallFails, Bump, StoreCall, RowDone
    <3> QED
      BY <3>1 DEF CallsHaveCause
  <2>2. CASE DeleteAllStep \/ AwaitGone
    <3>1. Listed' = Listed
      BY <2>2 DEF DeleteAllStep, AwaitGone, Call, Refused, Unmoved, Listed
    <3> QED
      BY <2>2, <3>1 DEF DeleteAllStep, AwaitGone, Call, Refused, Answer, CallsHaveCause,
         AfterDeleteSecret, Doomed, NeedsRebuild
  <2>3. CASE CreateAllStep \/ CompareHash \/ ApplyConfigStep \/ EnsureReplicas
    <3>1. Listed' = Listed
      BY <2>3 DEF CreateAllStep, CreatePVCStep, CompareHash, ApplyConfigStep,
         EnsureReplicas, Call, Refused, Unmoved, Listed
    <3> QED
      BY <2>3, <3>1 DEF CreateAllStep, CreatePVCStep, CompareHash, ApplyConfigStep,
         EnsureReplicas, Call, Refused, Answer, AfterCreateDeployment, CallsHaveCause,
         Doomed
  <2> QED
    BY <1>2, <2>1, <2>2, <2>3 DEF ConvergeStep
<1>3. CASE PassStep
  <2>1. CASE WakeUp \/ Tick \/ ListRows \/ RowsDone \/ PassDone \/ \E n \in Names : DriftEntry(n)
    <3>1. pc' \in {"idle", "list", "rows", "drift"}
      BY <2>1 DEF WakeUp, Tick, ListRows, RowsDone, PassDone, DriftEntry
    <3> QED
      BY <3>1 DEF CallsHaveCause
  <2>2. ASSUME NEW n \in Names, PickRow(n)
        PROVE  CallsHaveCause'
    <3>1. Listed' = snap[n]
      BY <2>2 DEF PickRow, Listed
    <3> QED
      BY <2>2, <3>1 DEF PickRow, FirstCall, CallsHaveCause, Doomed, NeedsRebuild
  <2> QED
    BY <1>3, <2>1, <2>2 DEF PassStep
<1>4. CASE Crash
  <2>1. pc' = "idle"
    BY <1>4 DEF Crash
  <2> QED
    BY <2>1 DEF CallsHaveCause
<1> QED
  BY <1>1, <1>2, <1>3, <1>4, OthersLeaveThePass DEF Controller

----------------------------------------------------------------------------
(* What a step does to a deployment, and for which reason.                 *)

GoesAway(n) ==
    /\ dep[n] # None
    /\ \/ dep' = [dep EXCEPT ![n] = None]
       \/ dep' = [dep EXCEPT ![n] = [dep[n] EXCEPT !.dying = TRUE]]

Appears == /\ pc = "mkDep" /\ dep[Target] = None
           /\ dep' = [dep EXCEPT ![Target] =
                        [hash |-> Listed.cfg, replicas |-> 1, dying |-> FALSE]]
Rehashed == /\ pc = "putDep" /\ dep[Target] # None
            /\ dep' = [dep EXCEPT ![Target] = [dep[Target] EXCEPT !.hash = Listed.cfg]]
Resized == /\ pc = "scale" /\ dep[cur] # None
           /\ dep' = [dep EXCEPT ![cur] = [dep[cur] EXCEPT !.replicas = Want]]

Tampered == budget'["tamper"] # budget["tamper"]

LEMMA DeletedGoesAway ==
    ASSUME TypeOK, NEW n \in Names, DeleteDeployment(n)
    PROVE  dep' = dep \/ GoesAway(n)
<1>1. PICK d \in {None} \cup (IF dep[n] = None THEN {}
                              ELSE {[dep[n] EXCEPT !.dying = TRUE]}) :
           dep' = [dep EXCEPT ![n] = d]
  BY DEF DeleteDeployment, SetDeployment
<1>2. CASE dep[n] = None
  BY <1>1, <1>2 DEF TypeOK, ClusterTypeOK
<1>3. CASE dep[n] # None
  BY <1>1, <1>3 DEF GoesAway
<1> QED
  BY <1>2, <1>3

LEMMA DeploymentStep ==
    ASSUME TypeOK, Cursor, [Next]_vars
    PROVE  \/ dep' = dep
           \/ Appears \/ Rehashed \/ Resized
           \/ pc = "delDep" /\ GoesAway(Target)
           \/ \E n \in Names : GoesAway(n) /\ (dep[n].dying \/ Tampered)
<1> DEFINE Goal == \/ dep' = dep
                   \/ Appears \/ Rehashed \/ Resized
                   \/ pc = "delDep" /\ GoesAway(Target)
                   \/ \E n \in Names : GoesAway(n) /\ (dep[n].dying \/ Tampered)
<1>1. pc \in KubeCalls => Target \in Names
  BY ListedType
<1>2. CASE DeleteAllStep
  BY <1>1, <1>2, DeletedGoesAway DEF DeleteAllStep, Call, KubeCalls, DeleteService,
     DeleteConfigMap, DeleteSecret, DeletePVC
<1>3. CASE CreateAllStep
  <2>1. CASE Call("mkDep", AfterCreateDeployment) /\ CreateDeployment(Target, Listed.cfg)
    BY <2>1 DEF Call, CreateDeployment, SetDeployment, Appears, TypeOK, ClusterTypeOK
  <2> QED
    BY <1>3, <2>1 DEF CreateAllStep, CreatePVCStep, CreatePVC, CreateSecret,
       CreateConfigMap, CreateService
<1>4. CASE ApplyConfigStep
  BY <1>4 DEF ApplyConfigStep, Call, Refused, UpdateConfigMap, UpdateSecret,
     SetDeployment, Rehashed, objects
<1>5. CASE EnsureReplicas
  BY <1>5 DEF EnsureReplicas, Call, Refused, SetDeployment, Resized, objects
<1>6. CASE \/ AwaitGone \/ CompareHash \/ ResetFailuresStep \/ DropRow \/ CallFails
           \/ Bump \/ PassStep
  BY <1>6 DEF AwaitGone, CompareHash, ResetFailuresStep, DropRow, CallFails, Bump,
     Refused, StoreCall, PassStep, WakeUp, Tick, ListRows, RowsDone, PassDone, PickRow,
     DriftEntry, Idle, objects
<1>7. ASSUME NEW n \in Names, Environment(n)
      PROVE  Goal
  <2>1. CASE FinalizerLetsGo(n)
    BY <2>1 DEF FinalizerLetsGo, Reap, SetDeployment, GoesAway
  <2>2. CASE Tamper(n)
    <3>1. Tampered
      <4>1. budget'["tamper"] = budget["tamper"] - 1 /\ budget["tamper"] \in Nat
        BY <2>2 DEF Tamper, Spend, TypeOK
      <4> QED
        BY <4>1 DEF Tampered
    <3>2. dep' = dep \/ GoesAway(n)
      BY <2>2, DeletedGoesAway DEF Tamper, DeleteService, DeleteConfigMap, DeleteSecret
    <3> QED
      BY <3>1, <3>2
  <2>3. CASE HandleDeployment(n) \/ HandleService(n) \/ Refresh(n)
    BY <2>3 DEF HandleDeployment, HandleService, Refresh, DeliverDeployment,
       DeliverService, Resync, objects
  <2> QED
    BY <1>7, <2>1, <2>2, <2>3 DEF Environment
<1>8. ASSUME NEW n \in Names, UserRequest(n) \/ HandlerStep(n)
      PROVE  dep' = dep
  BY <1>8 DEF UserRequest, BeginCreate, StartRequest, StopRequest, ConfigRequest,
     PurgeRequest, DeleteRequest, Request, HandlerStep, InsertServer, AddEntry,
     CheckEntry, MarkEntry, PurgeStorage, DeletePVC, objects
<1>9. CASE Poke \/ ResetRequest \/ Crash \/ UNCHANGED vars
  BY <1>9 DEF Poke, ResetRequest, Request, Crash, vars, objects
<1> HIDE DEF Goal
<1>10. CASE Controller
  <2>1. CASE ConvergeStep
    BY <1>2, <1>3, <1>4, <1>5, <1>6, <2>1 DEF ConvergeStep, Goal
  <2> QED
    BY <1>6, <1>10, <2>1 DEF Controller, Goal
<1>11. Goal
  BY <1>7, <1>8, <1>9, <1>10 DEF Next, Goal
<1> QED
  BY <1>11 DEF Goal

(* Likewise services and volumes, as far as they are lost.                 *)
LEMMA ServiceStep ==
    ASSUME TypeOK, Cursor, [Next]_vars, NEW n \in svc, n \notin svc'
    PROVE  (pc = "delSvc" /\ n = Target) \/ Tampered
<1>1. CASE Controller
  <2>1. CASE DeleteAllStep
    BY <2>1 DEF DeleteAllStep, Call, DeleteDeployment, SetDeployment, DeleteService,
       DeleteConfigMap, DeleteSecret, DeletePVC
  <2>2. ~ CreateAllStep /\ ~ ApplyConfigStep /\ ~ EnsureReplicas
    BY DEF CreateAllStep, CreatePVCStep, CreatePVC, CreateSecret, CreateConfigMap,
           CreateService, CreateDeployment, ApplyConfigStep, UpdateConfigMap,
           UpdateSecret, EnsureReplicas, SetDeployment, Refused, objects
  <2>3. /\ ~ AwaitGone /\ ~ CompareHash /\ ~ ResetFailuresStep /\ ~ DropRow
        /\ ~ CallFails /\ ~ Bump /\ ~ PassStep
    BY DEF AwaitGone, CompareHash, ResetFailuresStep, DropRow, CallFails, Bump, Refused,
           StoreCall, PassStep, WakeUp, Tick, ListRows, RowsDone, PassDone, PickRow,
           DriftEntry, Idle, objects
  <2> QED
    BY <1>1, <2>1, <2>2, <2>3 DEF Controller, ConvergeStep
<1>2. ASSUME NEW m \in Names, Tamper(m)
      PROVE  Tampered
  <2>1. budget'["tamper"] = budget["tamper"] - 1 /\ budget["tamper"] \in Nat
    BY <1>2 DEF Tamper, Spend, TypeOK
  <2> QED
    BY <2>1 DEF Tampered
<1>3. \A m \in Names : ~ FinalizerLetsGo(m) /\ ~ HandleDeployment(m) /\ ~ HandleService(m)
                       /\ ~ Refresh(m) /\ ~ UserRequest(m) /\ ~ HandlerStep(m)
  BY DEF FinalizerLetsGo, Reap, SetDeployment, HandleDeployment, HandleService, Refresh,
         DeliverDeployment, DeliverService, Resync, UserRequest, BeginCreate,
         StartRequest, StopRequest, ConfigRequest, PurgeRequest, DeleteRequest, Request,
         HandlerStep, InsertServer, AddEntry, CheckEntry, MarkEntry, PurgeStorage,
         DeletePVC, objects
<1>4. ~ Poke /\ ~ ResetRequest /\ ~ Crash /\ ~ UNCHANGED vars
  BY DEF Poke, ResetRequest, Request, Crash, vars, objects
<1> QED
  BY <1>1, <1>2, <1>3, <1>4 DEF Next, Environment

LEMMA VolumeLost ==
    ASSUME TypeOK, Cursor, [Next]_vars, NEW n \in Names, pvc[n] = "bound", pvc'[n] # "bound"
    PROVE  (pc = "delPvc" /\ n = Target) \/ Holds("purge", n)
<1>1. pc \in KubeCalls => Target \in Names
  BY ListedType
<1>2. ASSUME NEW m \in Names, DeletePVC(m)
      PROVE  m = n
  BY <1>2 DEF DeletePVC, TypeOK, ClusterTypeOK
<1>3. CASE Controller
  <2>1. CASE DeleteAllStep
    BY <1>1, <1>2, <2>1 DEF DeleteAllStep, Call, KubeCalls, DeleteDeployment, SetDeployment,
       DeleteService, DeleteConfigMap, DeleteSecret
  <2>2. ~ CreatePVCStep
    BY <1>1 DEF CreatePVCStep, Call, KubeCalls, CreatePVC, TypeOK, ClusterTypeOK
  <2>3. ~ CreateAllStep /\ ~ ApplyConfigStep /\ ~ EnsureReplicas
    BY <2>2 DEF CreateAllStep, CreateSecret, CreateConfigMap, CreateService,
       CreateDeployment, ApplyConfigStep, UpdateConfigMap, UpdateSecret, EnsureReplicas,
       SetDeployment, Refused, objects
  <2>4. /\ ~ AwaitGone /\ ~ CompareHash /\ ~ ResetFailuresStep /\ ~ DropRow
        /\ ~ CallFails /\ ~ Bump /\ ~ PassStep
    BY DEF AwaitGone, CompareHash, ResetFailuresStep, DropRow, CallFails, Bump, Refused,
           StoreCall, PassStep, WakeUp, Tick, ListRows, RowsDone, PassDone, PickRow,
           DriftEntry, Idle, objects
  <2> QED
    BY <1>3, <2>1, <2>3, <2>4 DEF Controller, ConvergeStep
<1>4. ASSUME NEW m \in Names, PurgeStorage(m)
      PROVE  Holds("purge", n)
  BY <1>2, <1>4 DEF PurgeStorage, Handler
<1>5. \A m \in Names : ~ Environment(m)
  BY DEF Environment, FinalizerLetsGo, Reap, SetDeployment, HandleDeployment,
         HandleService, Refresh, DeliverDeployment, DeliverService, Resync, Tamper,
         DeleteDeployment, DeleteService, DeleteConfigMap, DeleteSecret, objects,
         TypeOK, ClusterTypeOK
<1>6. \A m \in Names : HandlerStep(m) => PurgeStorage(m)
  BY DEF HandlerStep, InsertServer, AddEntry, CheckEntry, MarkEntry, objects
<1>7. \A m \in Names : ~ UserRequest(m)
  BY DEF UserRequest, BeginCreate, StartRequest, StopRequest, ConfigRequest,
         PurgeRequest, DeleteRequest, Request, objects
<1>8. ~ Poke /\ ~ ResetRequest /\ ~ Crash /\ ~ UNCHANGED vars
  BY DEF Poke, ResetRequest, Request, Crash, vars, objects
<1> QED
  BY <1>3, <1>4, <1>5, <1>6, <1>7, <1>8 DEF Next

----------------------------------------------------------------------------
(* The invariant, and what follows from it.                                *)

RecordInv ==
    /\ Own(rows) /\ Own(snap) /\ TeardownOrder
    /\ NothingToDo /\ ListingCurrent /\ CallsHaveCause

LEMMA RecordInvariant == ASSUME ~ AllowRename PROVE Spec => []RecordInv
<1>1. Init => RecordInv
  BY DEF Init, RecordInv, Own, ResetDatabase, TeardownOrder, NothingToDo, ListingCurrent,
         CallsHaveCause
<1>2. TypeOK /\ Cursor /\ RecordInv /\ [Next]_vars => RecordInv'
  <2> SUFFICES ASSUME TypeOK, Cursor, RecordInv, [Next]_vars PROVE RecordInv'
    OBVIOUS
  <2>1. Own(rows)'
    BY RowsOwn DEF RecordInv, Own
  <2>2. Own(snap)'
    BY ListingOwn DEF RecordInv, Own
  <2>3. TeardownOrder'
    BY NextTeardownOrder DEF RecordInv
  <2>4. NothingToDo' /\ ListingCurrent' /\ CallsHaveCause'
    BY NextNothingToDo, NextListingCurrent, NextCallsHaveCause DEF RecordInv
  <2> QED
    BY <2>1, <2>2, <2>3, <2>4 DEF RecordInv
<1> QED
  BY <1>1, <1>2, TypeCorrect, PTL DEF Spec

(* In a call for a row that nobody has written since it was listed, the    *)
(* row is the record and the objects are the record's.                     *)
LEMMA CallIsForRecord ==
    ASSUME TypeOK, Cursor, RecordInv, pc \in KubeCalls \cup StoreCalls
    PROVE  /\ cur \in Names /\ Target = cur
           /\ cur \notin unseen => rows[cur] = Listed /\ rows[cur] # None /\ Want = Size(cur)
<1>1. cur \in Names /\ cur \in todo /\ snap[cur] # None
  <2>1. pc # "drift"
    BY DEF KubeCalls, StoreCalls
  <2> QED
    BY <2>1, ListedType DEF Cursor
<1>2. Target = cur
  BY <1>1 DEF RecordInv, Own, Target, Listed
<1>3. cur \notin unseen => rows[cur] = Listed /\ rows[cur] # None
  BY ConvergedIsCurrent DEF RecordInv
<1> QED
  BY <1>1, <1>2, <1>3 DEF Want, Size

(* The controller makes of deployments what the records say (README: the   *)
(* cluster is brought into line with the record; stateActions, CreateAll,  *)
(* ApplyConfig, ensureReplicas), for any requests and database resets: the *)
(* config always, the size from the second change on; CreateAll makes every*)
(* deployment with one replica.                                            *)
THEOREM ChangesAreRecorded ==
    ASSUME ~ AllowRename
    PROVE  Spec => ChangesFollowTheRecord
<1> DEFINE Follows ==
      \A n \in Names \ unseen : dep'[n] # None =>
          /\ dep[n] = None \/ dep'[n].hash # dep[n].hash
                => Wanted(n) /\ dep'[n].hash = rows[n].cfg
          /\ dep[n] # None /\ dep'[n].replicas # dep[n].replicas
                => Wanted(n) /\ dep'[n].replicas = Size(n)
<1>1. ASSUME TypeOK, Cursor, RecordInv, [Next]_vars
      PROVE  Follows
  <2> SUFFICES ASSUME NEW n \in Names, n \notin unseen, dep'[n] # None, dep'[n] # dep[n]
               PROVE  /\ dep[n] = None \/ dep'[n].hash # dep[n].hash
                            => Wanted(n) /\ dep'[n].hash = rows[n].cfg
                      /\ dep[n] # None /\ dep'[n].replicas # dep[n].replicas
                            => Wanted(n) /\ dep'[n].replicas = Size(n)
    OBVIOUS
  <2>1. dep \in [Names -> Deployment \cup {None}]
    BY <1>1 DEF TypeOK, ClusterTypeOK
  <2>2. CASE Appears \/ Rehashed \/ Resized
    <3>1. pc \in {"mkDep", "putDep", "scale"} /\ pc \in KubeCalls
      BY <2>2 DEF Appears, Rehashed, Resized, KubeCalls
    <3>2. cur \in Names /\ Target = cur
      BY <1>1, <3>1, CallIsForRecord
    <3>3. n = cur
      BY <2>1, <2>2, <3>2 DEF Appears, Rehashed, Resized
    <3>4. Wanted(n) /\ rows[n] = Listed /\ Want = Size(n)
      BY <1>1, <3>1, <3>3, CallIsForRecord DEF RecordInv, CallsHaveCause, Wanted
    <3>5. CASE Appears
      BY <2>1, <3>2, <3>3, <3>4, <3>5 DEF Appears
    <3>6. CASE Rehashed
      BY <2>1, <3>2, <3>3, <3>4, <3>6 DEF Rehashed, Deployment
    <3>7. CASE Resized
      BY <2>1, <3>2, <3>3, <3>4, <3>7 DEF Resized, Deployment
    <3> QED
      BY <2>2, <3>5, <3>6, <3>7
  <2>3. ASSUME NEW m \in Names, GoesAway(m)
        PROVE  dep[n] # None /\ dep'[n].hash = dep[n].hash /\ dep'[n].replicas = dep[n].replicas
    BY <2>1, <2>3 DEF GoesAway, Deployment
  <2>4. CASE pc = "delDep" /\ GoesAway(Target)
    <3>1. Target \in Names
      BY <1>1, <2>4, CallIsForRecord DEF KubeCalls
    <3> QED
      BY <2>3, <2>4, <3>1
  <2> QED
    BY <1>1, <2>2, <2>3, <2>4, DeploymentStep
<1>2. TypeOK /\ Cursor /\ RecordInv /\ [Next]_vars => [Follows]_vars
  BY <1>1
<1> QED
  BY <1>2, RecordInvariant, TypeCorrect, PTL DEF Spec, ChangesFollowTheRecord

(* A record that nobody has written since it was listed is cleared only    *)
(* when it says that the server is to be deleted and all that is done      *)
(* (convergeRow), whatever server_name its config carries.                 *)
THEOREM ClearedRecordsAreDone == Spec => ClearedAsRecorded
<1> DEFINE Ind == TeardownOrder /\ NothingToDo /\ ListingCurrent
           Done(n) == /\ Doomed(rows[n]) /\ TornDown(rows[n].cfg.target)
                      /\ rows[n].purge => pvc[rows[n].cfg.target] # "bound"
<1>1. Init => Ind
  BY DEF Init, ResetDatabase, TeardownOrder, NothingToDo, ListingCurrent
<1>2. TypeOK /\ Cursor /\ Ind /\ [Next]_vars => Ind'
  BY NextTeardownOrder, NextNothingToDo, NextListingCurrent
<1>3. ASSUME TypeOK, Cursor, Ind, [Next]_vars, NEW n \in Names, n \notin unseen',
             rows[n] # None, rows'[n] = None
      PROVE  Done(n)
  <2>1. pc = "dropRow" /\ n = cur
    BY <1>3, RecordStep DEF OnlyFailures
  <2>2. n \notin unseen
    BY <1>3, WritesAreRemembered
  <2>3. rows[n] = Listed
    BY <1>3, <2>1, <2>2, ConvergedIsCurrent DEF StoreCalls
  <2> QED
    BY <1>3, <2>1, <2>3 DEF TeardownOrder, TornDown, Live, Target
<1>4. TypeOK /\ Cursor /\ Ind /\ [Next]_vars
      => [\A n \in Names \ unseen' : rows[n] # None /\ rows'[n] = None => Done(n)]_vars
  BY <1>3
<1> QED
  BY <1>1, <1>2, <1>4, TypeCorrect, PTL DEF Spec, ClearedAsRecorded

(* A server that is as its record says stays so: passes, failures, old     *)
(* events, restarts and other servers' requests take nothing from it       *)
(* (convergeRow, stateActions, driftPass).                                 *)
LEMMA AsRecordedStays ==
    ASSUME TypeOK, Cursor, RecordInv, [Next]_vars, NEW n \in Names,
           AsRecorded(n), LeftToTheController(n)
    PROVE  AsRecorded(n)'
<1>1. /\ rows[n] # None /\ ~ Doomed(rows[n]) /\ ~ NeedsRebuild(rows[n])
      /\ dep[n] # None /\ ~ dep[n].dying /\ dep[n].hash = rows[n].cfg
      /\ dep[n].replicas = Size(n)
      /\ n \in svc /\ pvc[n] = "bound"
      /\ n \notin unseen /\ n \notin unseen' /\ ~ Tampered /\ ~ Holds("purge", n)
  BY DEF AsRecorded, Wanted, Live, LeftToTheController, Tampered
<1>2. dep \in [Names -> Deployment \cup {None}] /\ dep[n] \in Deployment
  BY <1>1 DEF TypeOK, ClusterTypeOK
<1>3. ASSUME pc \in KubeCalls \cup StoreCalls, cur = n \/ Target = n
      PROVE  cur = n /\ rows[n] = Listed /\ Want = Size(n)
  BY <1>1, <1>3, CallIsForRecord
<1>4. ~ (pc \in {"delDep", "delSvc", "delPvc", "dropRow"} /\ (cur = n \/ Target = n))
  BY <1>1, <1>3 DEF RecordInv, CallsHaveCause, KubeCalls, StoreCalls
<1>5. rows'[n] # None /\ rows'[n].desired = rows[n].desired /\ rows'[n].cfg = rows[n].cfg
  BY <1>1, <1>4, RecordStep DEF OnlyFailures
<1>6. dep'[n] # None /\ ~ dep'[n].dying /\ dep'[n].hash = rows[n].cfg
      /\ dep'[n].replicas = Size(n)
  <2>1. CASE dep' = dep
    BY <1>1, <2>1
  <2>2. CASE Appears \/ Rehashed \/ Resized
    <3>1. pc \in {"mkDep", "putDep", "scale"} /\ pc \in KubeCalls
      BY <2>2 DEF Appears, Rehashed, Resized, KubeCalls
    <3>2. cur \in Names /\ Target = cur
      BY <3>1, CallIsForRecord
    <3>3. CASE cur # n
      BY <1>1, <1>2, <2>2, <3>2, <3>3 DEF Appears, Rehashed, Resized
    <3>4. CASE cur = n
      <4>1. rows[n] = Listed /\ Want = Size(n)
        BY <1>3, <3>1, <3>4
      <4>2. ~ Appears
        BY <1>1, <3>2, <3>4 DEF Appears
      <4>3. CASE Rehashed
        BY <1>1, <1>2, <3>2, <3>4, <4>1, <4>3 DEF Rehashed, Deployment
      <4>4. CASE Resized
        BY <1>1, <1>2, <3>2, <3>4, <4>1, <4>4 DEF Resized, Deployment
      <4> QED
        BY <2>2, <4>2, <4>3, <4>4
    <3> QED
      BY <3>3, <3>4
  <2>3. ASSUME NEW m \in Names, GoesAway(m), m # n
        PROVE  dep'[n] = dep[n]
    BY <1>2, <2>3 DEF GoesAway
  <2>4. CASE pc = "delDep" /\ GoesAway(Target)
    <3>1. Target \in Names
      BY <2>4, CallIsForRecord DEF KubeCalls
    <3> QED
      BY <1>1, <1>4, <2>3, <2>4, <3>1
  <2>5. ASSUME NEW m \in Names, GoesAway(m), dep[m].dying
        PROVE  dep'[n] = dep[n]
    BY <1>1, <2>3, <2>5
  <2> QED
    BY <1>1, <2>1, <2>2, <2>4, <2>5, DeploymentStep
<1>7. n \in svc'
  BY <1>1, <1>4, ServiceStep
<1>8. pvc'[n] = "bound"
  BY <1>1, <1>4, VolumeLost
<1> QED
  BY <1>1, <1>5, <1>6, <1>7, <1>8 DEF AsRecorded, Wanted, Live, Size, Doomed

THEOREM RecordedServersAreLeftAlone ==
    ASSUME ~ AllowRename
    PROVE  Spec => ServersLeftAlone
<1>1. TypeOK /\ Cursor /\ RecordInv /\ [Next]_vars
      => [\A n \in Names :
            AsRecorded(n) /\ LeftToTheController(n) => AsRecorded(n)']_vars
  BY AsRecordedStays
<1> QED
  BY <1>1, RecordInvariant, TypeCorrect, PTL DEF Spec, ServersLeftAlone

----------------------------------------------------------------------------
(* Worlds again, now with direct purges of orphaned storage: what the      *)
(* controller destroys (DeleteAll with purge) has been asked for, since    *)
(* the world was made, and not been taken back by a later delete that the  *)
(* listing could know of, whatever HandlerDeletePVC does meanwhile.        *)
THEOREM WorldsGoOnlyOnRequest ==
    ASSUME ~ AllowRename
    PROVE  Spec => WorldsGoOnRequest
<1>1. Init => PurgesAsked
  BY DEF Init, ResetDatabase, PurgesAsked, PurgePending, PurgeListed
<1>2. TypeOK /\ Cursor /\ RecordInv /\ PurgesAsked /\ [Next]_vars => PurgesAsked'
  BY NextPurgesAsked DEF RecordInv
<1>3. TypeOK /\ Cursor /\ RecordInv /\ PurgesAsked /\ [Next]_vars
      => [\A n \in Names :
            pvc[n] = "bound" /\ pvc'[n] # "bound" =>
                \/ Holds("purge", n)
                \/ n \in asked /\ (n \in withdrawn => n \in unseen)]_vars
  <2> SUFFICES ASSUME TypeOK, Cursor, RecordInv, PurgesAsked, [Next]_vars, NEW n \in Names,
                      pvc[n] = "bound", pvc'[n] # "bound", ~ Holds("purge", n)
               PROVE  n \in asked /\ (n \in withdrawn => n \in unseen)
    OBVIOUS
  <2>1. pc = "delPvc" /\ n = Target
    BY VolumeLost
  <2>2. n = cur /\ cur \in todo /\ snap[cur] # None
    <3>1. pc \in KubeCalls /\ pc # "drift"
      BY <2>1 DEF KubeCalls
    <3>2. cur \in todo /\ snap[cur] # None
      BY <3>1, ListedType DEF Cursor
    <3> QED
      BY <2>1, <3>1, <3>2, CallIsForRecord
  <2>3. PurgeListed(n)
    BY <2>1, <2>2 DEF RecordInv, TeardownOrder, PurgeListed, Listed
  <2>4. n \notin unseen => PurgePending(n)
    <3>1. n \notin unseen => rows[n] = snap[n]
      BY <2>1, <2>2 DEF RecordInv, ListingCurrent
    <3> QED
      BY <2>3, <3>1 DEF PurgeListed, PurgePending
  <2> QED
    BY <2>1, <2>2, <2>3, <2>4 DEF PurgesAsked
<1> QED
  BY <1>1, <1>2, <1>3, RecordInvariant, TypeCorrect, PTL DEF Spec, WorldsGoOnRequest

----------------------------------------------------------------------------
(* ApplyConfig.  Only the controller writes config maps and secrets: what  *)
(* anybody else leaves of them is what there was, or nothing.              *)
LeavesConfigs ==
    \A n \in Names : cm'[n] \in {cm[n], None} /\ secret'[n] \in {secret[n], None}

LEMMA OthersLeaveConfigs ==
    ASSUME TypeOK, [Next]_vars, ~ Controller
    PROVE  LeavesConfigs
<1>1. ASSUME NEW n \in Names, Environment(n)
      PROVE  LeavesConfigs
  BY <1>1 DEF Environment, FinalizerLetsGo, Reap, SetDeployment, HandleDeployment,
     HandleService, Refresh, DeliverDeployment, DeliverService, Resync, Tamper,
     DeleteDeployment, DeleteService, DeleteConfigMap, DeleteSecret, objects,
     LeavesConfigs, TypeOK, ClusterTypeOK
<1>2. ASSUME NEW n \in Names, UserRequest(n) \/ HandlerStep(n)
      PROVE  UNCHANGED <<cm, secret>>
  BY <1>2 DEF UserRequest, BeginCreate, StartRequest, StopRequest, ConfigRequest,
     PurgeRequest, DeleteRequest, Request, HandlerStep, InsertServer, AddEntry,
     CheckEntry, MarkEntry, PurgeStorage, DeletePVC, objects
<1>3. CASE Poke \/ ResetRequest \/ Crash \/ UNCHANGED vars
  BY <1>3 DEF Poke, ResetRequest, Request, Crash, vars, objects, LeavesConfigs
<1> QED
  BY <1>1, <1>2, <1>3 DEF Next, LeavesConfigs

LEMMA NextConfigPut ==
    ASSUME TypeOK, Cursor, ConfigPut, [Next]_vars
    PROVE  ConfigPut'
<1>1. CASE pc' \notin {"putSecret", "putDep"}
  BY <1>1 DEF ConfigPut
<1>2. CASE ApplyConfigStep /\ pc' \in {"putSecret", "putDep"}
  <2>1. Target \in Names /\ UNCHANGED <<snap, cur>>
    BY <1>2, ListedType DEF ApplyConfigStep, Call, Refused, Unmoved, KubeCalls
  <2>2. Target' = Target /\ Listed' = Listed
    BY <2>1 DEF Target, Listed
  <2>3. CASE pc = "putCm" /\ pc' = "putSecret" /\ UpdateConfigMap(Target, Listed.cfg)
    BY <2>1, <2>2, <2>3 DEF UpdateConfigMap, ConfigPut, TypeOK, ClusterTypeOK
  <2>4. CASE pc = "putSecret" /\ pc' = "putDep" /\ UpdateSecret(Target, Listed.cfg)
    BY <2>1, <2>2, <2>4 DEF UpdateSecret, ConfigPut, TypeOK, ClusterTypeOK
  <2> QED
    BY <1>2, <2>3, <2>4 DEF ApplyConfigStep, Call, Refused, Answer
<1>3. CASE ConvergeStep /\ ~ ApplyConfigStep
  <2>1. pc' \notin {"putSecret", "putDep"}
    BY <1>3 DEF ConvergeStep, DeleteAllStep, AwaitGone, CreateAllStep, CreatePVCStep,
       CompareHash, EnsureReplicas, ResetFailuresStep, DropRow, CallFails, Bump, Call,
       Answer, Refused, StoreCall, RowDone, AfterDeleteSecret, AfterCreateDeployment
  <2> QED
    BY <1>1, <2>1
<1>4. CASE PassStep
  <2>1. pc' \notin {"putSecret", "putDep"}
    BY <1>4 DEF PassStep, WakeUp, Tick, ListRows, RowsDone, PassDone, PickRow,
       DriftEntry, FirstCall
  <2> QED
    BY <1>1, <2>1
<1>5. CASE Crash
  <2>1. pc' = "idle"
    BY <1>5 DEF Crash
  <2> QED
    BY <1>1, <2>1
<1>6. CASE ~ Controller /\ pc' \in {"putSecret", "putDep"} /\ UNCHANGED <<pc, snap, todo, cur>>
  <2>1. Target \in Names /\ Target' = Target /\ Listed' = Listed
    BY <1>6, ListedType DEF Target, Listed, KubeCalls
  <2>2. LeavesConfigs
    BY <1>6, OthersLeaveConfigs
  <2> QED
    BY <1>6, <2>1, <2>2 DEF LeavesConfigs, ConfigPut
<1> QED
  BY <1>1, <1>2, <1>3, <1>4, <1>5, <1>6, OthersLeaveThePass DEF Controller, ConvergeStep

(* The annotation that tells the next pass that nothing is left to apply   *)
(* changes last, after config map and secret (ApplyConfig), for requests   *)
(* that carry any server_name.                                             *)
THEOREM AnnotationIsLast == Spec => AnnotationComesLast
<1>1. Init => ConfigPut
  BY DEF Init, ConfigPut
<1>2. TypeOK /\ Cursor /\ ConfigPut /\ [Next]_vars => ConfigPut'
  BY NextConfigPut
<1>3. TypeOK /\ Cursor /\ ConfigPut /\ [Next]_vars
      => [\A n \in Names :
            dep[n] # None /\ dep'[n] # None /\ dep'[n].hash # dep[n].hash
              => {cm[n], secret[n]} \subseteq {None, dep'[n].hash}]_vars
  <2> SUFFICES ASSUME TypeOK, Cursor, ConfigPut, [Next]_vars, NEW n \in Names,
                      dep[n] # None, dep'[n] # None, dep'[n].hash # dep[n].hash
               PROVE  {cm[n], secret[n]} \subseteq {None, dep'[n].hash}
    OBVIOUS
  <2>1. dep \in [Names -> Deployment \cup {None}] /\ dep[n] \in Deployment
    BY DEF TypeOK, ClusterTypeOK
  <2>2. CASE Rehashed
    <3>1. Target \in Names /\ pc = "putDep"
      BY <2>2, ListedType DEF Rehashed, KubeCalls
    <3>2. n = Target
      BY <2>1, <2>2, <3>1 DEF Rehashed
    <3>3. dep'[n].hash = Listed.cfg
      BY <2>1, <2>2, <3>1, <3>2 DEF Rehashed, Deployment
    <3> QED
      BY <3>1, <3>2, <3>3 DEF ConfigPut
  <2>3. ASSUME NEW m \in Names, GoesAway(m)
        PROVE  FALSE
    BY <2>1, <2>3 DEF GoesAway, Deployment
  <2>4. ~ Appears
    <3>1. pc = "mkDep" => Target \in Names
      BY ListedType DEF KubeCalls
    <3> QED
      BY <2>1, <3>1 DEF Appears
  <2>5. ~ Resized
    <3>1. pc = "scale" => cur \in Names
      BY ListedType DEF KubeCalls
    <3> QED
      BY <2>1, <3>1 DEF Resized, Deployment
  <2>6. pc = "delDep" => Target \in Names
    BY ListedType DEF KubeCalls
  <2> QED
    BY <2>2, <2>3, <2>4, <2>5, <2>6, DeploymentStep
<1> QED
  BY <1>1, <1>2, <1>3, TypeCorrect, PTL DEF Spec, AnnotationComesLast
=============================================================================
