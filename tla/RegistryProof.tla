--------------------------- MODULE RegistryProof ---------------------------
(***************************************************************************)
(* Theorems about Registry, for any number of pods, any bounds and any     *)
(* choice of what the cluster does.                                        *)
(***************************************************************************)
EXTENDS Registry, SequenceTheorems, TLAPS

Entries == Entry \cup {None}

----------------------------------------------------------------------------
(* What the handlers do to an entry, said once, field by field.            *)

LEMMA ExistingType ==
    ASSUME NEW e \in Entries
    PROVE  /\ Existing(e) \in Entry
           /\ e # None => e \in Entry /\ Existing(e) = e
           /\ e = None => Existing(e) = NewEntry
<1>1. NewEntry \in Entry
  BY DEF NewEntry, Entry
<1> QED
  BY <1>1 DEF Entries, Existing

LEMMA StatusType ==
    ASSUME NEW d \in Deployment
    PROVE  deploymentStatus(d) \in {"provisioning", "starting", "running", "stopped", "deleting"}
BY DEF deploymentStatus

LEMMA States ==
    ASSUME NEW o \in Objects, NEW state \in State(o)
    PROVE  /\ state # None
           /\ o = "deployment" => state \in Deployment
           /\ o \in Pods => state \in Pod
BY RegistryAssumption, ServerStateAssumption DEF State, Kind, Objects

LEMMA ObjectKinds ==
    ASSUME NEW o \in Objects
    PROVE  /\ o = "deployment" \/ o = "service" \/ o \in Pods
           /\ Kind(o) \in Kinds
           /\ o = "deployment" => Kind(o) = "deployment"
           /\ o = "service" => Kind(o) = "service"
           /\ o \in Pods => Kind(o) = "pod"
BY RegistryAssumption DEF Objects, Kind, Kinds

(* The parts of an entry that are each kind's.                             *)
SameDeployment(e, f) == f.status = e.status /\ f.replicas = e.replicas /\ f.ready = e.ready
SameService(e, f) == f.ports = e.ports
SamePod(e, f) == f.node = e.node /\ f.waiting = e.waiting /\ f.since = e.since
NoPod(f) == ~ f.node /\ f.waiting = "" /\ ~ f.since

LEMMA NewEntryIsBare == ~ NewEntry.ports /\ NoPod(NewEntry)
<1>1. /\ NewEntry.ports = FALSE /\ NewEntry.node = FALSE
      /\ NewEntry.waiting = "" /\ NewEntry.since = FALSE
  BY DEF NewEntry
<1> QED
  BY <1>1, Zenon DEF NoPod

LEMMA UpsertDeploymentEffect ==
    ASSUME NEW e \in Entries, NEW d \in Deployment
    PROVE  LET f == Upsert(e, "deployment", d) IN
           /\ f \in Entry
           /\ f.status = deploymentStatus(d) /\ f.replicas = d.replicas /\ f.ready = d.ready
           /\ SameService(Existing(e), f) /\ SamePod(Existing(e), f)
<1>1. Upsert(e, "deployment", d) = upsertDeployment(e, d)
  BY ObjectKinds DEF Upsert, Objects
<1>2. Existing(e) \in Entry /\ d.replicas \in 0 .. 1 /\ d.ready \in 0 .. 1
  BY ExistingType DEF Deployment
<1>3. deploymentStatus(d) \in {"provisioning", "starting", "running", "stopped", "deleting"}
  BY StatusType
<1> HIDE DEF deploymentStatus
<1> QED
  BY <1>1, <1>2, <1>3 DEF upsertDeployment, Entry, SameService, SamePod

LEMMA UpsertServiceEffect ==
    ASSUME NEW e \in Entries, NEW state
    PROVE  LET f == Upsert(e, "service", state) IN
           f \in Entry /\ SameDeployment(Existing(e), f) /\ SamePod(Existing(e), f)
<1>1. Upsert(e, "service", state) = upsertService(e)
  BY ObjectKinds DEF Upsert, Objects
<1>2. Existing(e) \in Entry
  BY ExistingType
<1> QED
  BY <1>1, <1>2 DEF upsertService, Entry, SameDeployment, SamePod

LEMMA UpsertPodEffect ==
    ASSUME NEW e \in Entries, NEW o \in Pods, NEW p \in Pod
    PROVE  LET f == Upsert(e, o, p) IN
           /\ f \in Entries
           /\ f = None <=> e = None
           /\ e # None => SameDeployment(e, f) /\ SameService(e, f)
<1>1. Upsert(e, o, p) = upsertPod(e, p)
  BY ObjectKinds DEF Upsert, Objects
<1>2. CASE e = None
  BY <1>1, <1>2 DEF upsertPod, Entries
<1>3. CASE e # None
  <2>1. e \in Entry
    BY <1>3 DEF Entries
  <2> DEFINE waiting == IF p = "pending" THEN e.waiting ELSE IF p \in Waiting THEN p ELSE ""
             since == IF p = "pending" THEN e.since ELSE p = "running"
  <2>2. waiting \in {""} \cup Waiting /\ since \in BOOLEAN
    BY <2>1 DEF Entry
  <2>3. upsertPod(e, p) = [e EXCEPT !.node = TRUE, !.waiting = waiting, !.since = since]
    BY <1>3, Zenon DEF upsertPod
  <2> HIDE DEF waiting, since
  <2>4. /\ upsertPod(e, p) \in Entry
        /\ SameDeployment(e, upsertPod(e, p)) /\ SameService(e, upsertPod(e, p))
    BY <2>1, <2>2, <2>3 DEF Entry, SameDeployment, SameService
  <2> QED
    BY <1>1, <1>3, <2>4, ServerStateAssumption DEF Entries
<1> QED
  BY <1>2, <1>3

LEMMA HandlerWriteEffect ==
    ASSUME NEW e \in Entries, NEW f,
           \/ f = [Existing(e) EXCEPT !.status = "provisioning", !.replicas = 1]
           \/ f = [Existing(e) EXCEPT !.status = "deleting"]
    PROVE  f \in Entry /\ SameService(Existing(e), f) /\ SamePod(Existing(e), f)
<1>1. Existing(e) \in Entry
  BY ExistingType
<1>2. CASE f = [Existing(e) EXCEPT !.status = "provisioning", !.replicas = 1]
  <2>1. 1 \in 0 .. 1
    OBVIOUS
  <2> QED
    BY <1>1, <1>2, <2>1 DEF Entry, SameService, SamePod
<1>3. CASE f = [Existing(e) EXCEPT !.status = "deleting"]
  BY <1>1, <1>3 DEF Entry, SameService, SamePod
<1> QED
  BY <1>2, <1>3

LEMMA RemoveEffect ==
    ASSUME NEW e \in Entries, NEW o \in Objects
    PROVE  LET f == Remove(e, o) IN
           /\ f \in Entries
           /\ o = "deployment" => f = None
           /\ o # "deployment" => (f = None <=> e = None)
           /\ o = "service" /\ e # None =>
                 ~ f.ports /\ SameDeployment(e, f) /\ SamePod(e, f)
           /\ o \in Pods /\ e # None =>
                 NoPod(f) /\ SameDeployment(e, f) /\ SameService(e, f)
<1>1. CASE o = "deployment"
  <2>1. Remove(e, o) = None
    BY <1>1, ObjectKinds DEF Remove
  <2> QED
    BY <1>1, <2>1, RegistryAssumption DEF Entries
<1>2. CASE o # "deployment" /\ e = None
  <2>1. Remove(e, o) = None
    BY <1>2, ObjectKinds DEF Remove, deleteService, deletePod
  <2> QED
    BY <1>2, <2>1 DEF Entries
<1>3. CASE o = "service" /\ e # None
  <2>1. Remove(e, o) = [e EXCEPT !.ports = FALSE] /\ e \in Entry
    BY <1>3, ObjectKinds DEF Remove, deleteService, Entries
  <2>2. /\ Remove(e, o) \in Entry /\ ~ Remove(e, o).ports
        /\ SameDeployment(e, Remove(e, o)) /\ SamePod(e, Remove(e, o))
    BY <2>1 DEF Entry, SameDeployment, SamePod
  <2> QED
    BY <1>3, <2>2, RegistryAssumption, ServerStateAssumption DEF Entries
<1>4. CASE o \in Pods /\ e # None
  <2>1. /\ Remove(e, o) = [e EXCEPT !.node = FALSE, !.waiting = "", !.since = FALSE]
        /\ e \in Entry
    BY <1>4, ObjectKinds DEF Remove, deletePod, Entries
  <2>2. /\ Remove(e, o) \in Entry /\ NoPod(Remove(e, o))
        /\ SameDeployment(e, Remove(e, o)) /\ SameService(e, Remove(e, o))
    BY <2>1 DEF Entry, SameDeployment, SameService, NoPod
  <2> QED
    BY <1>4, <2>2, RegistryAssumption, ServerStateAssumption DEF Entries
<1> QED
  BY <1>1, <1>2, <1>3, <1>4, ObjectKinds

(* Whatever a handler is told, the entry stays an entry.                   *)
LEMMA ToldType ==
    ASSUME NEW e \in Entries, NEW o \in Objects, NEW state \in State(o)
    PROVE  Upsert(e, o, state) \in Entries /\ Remove(e, o) \in Entries
<1>1. Remove(e, o) \in Entries
  BY RemoveEffect
<1>2. Upsert(e, o, state) \in Entries
  BY ObjectKinds, States, UpsertDeploymentEffect, UpsertServiceEffect, UpsertPodEffect
     DEF Entries
<1> QED
  BY <1>1, <1>2

----------------------------------------------------------------------------
(* Types.                                                                  *)

Notices(o) == State(o) \cup {None}

ObjectsOK == obj = [o \in Objects |-> obj[o]] /\ \A o \in Objects : obj[o] \in Notices(o)
QueuesOK == queue = [o \in Objects |-> queue[o]] /\ \A o \in Objects : queue[o] \in Seq(Notices(o))
HeldOK == \A x \in held : \E o \in Objects : \E state \in State(o) : x = <<o, state>>

LEMMA TypeParts ==
    RegistryTypeOK <=> /\ ObjectsOK /\ QueuesOK /\ HeldOK
                       /\ entry \in Entries
                       /\ toList \in Seq(Kinds)
                       /\ foreign \in SUBSET Kinds
                       /\ budget \in Budgets
BY DEF RegistryTypeOK, ObjectsOK, QueuesOK, HeldOK, Notices, Entries

LEMMA FreshType ==
    ASSUME ObjectsOK, queue' = Fresh(obj)
    PROVE  QueuesOK'
<1>1. \A o \in Objects : (IF obj[o] = None THEN <<>> ELSE <<obj[o]>>) \in Seq(Notices(o))
  BY DEF ObjectsOK
<1> QED
  BY <1>1 DEF QueuesOK, Fresh

LEMMA ListingsType == Listings \in Seq(Kinds)
BY DEF Listings, Kinds

LEMMA BudgetType ==
    ASSUME budget \in Budgets,
           \/ budget.changes > 0 /\ budget' = [budget EXCEPT !.changes = @ - 1]
           \/ budget.upserts > 0 /\ budget' = [budget EXCEPT !.upserts = @ - 1]
           \/ budget.restarts > 0 /\ budget' = [budget EXCEPT !.restarts = @ - 1]
    PROVE  budget' \in Budgets
BY RegistryAssumption DEF Budgets

LEMMA ForeignType ==
    ASSUME foreign \in SUBSET Kinds, NEW o \in Objects, NEW stale, Foreign(o, stale)
    PROVE  foreign' \in SUBSET Kinds
<1>1. Kind(o) \in Kinds /\ "deployment" \in Kinds
  BY ObjectKinds DEF Kinds
<1> QED
  BY <1>1 DEF Foreign

LEMMA TypeStep ==
    ASSUME RegistryTypeOK, [Next]_vars
    PROVE  RegistryTypeOK'
<1>0. /\ ObjectsOK /\ QueuesOK /\ HeldOK /\ entry \in Entries /\ toList \in Seq(Kinds)
      /\ foreign \in SUBSET Kinds /\ budget \in Budgets
  BY TypeParts
<1> SUFFICES /\ ObjectsOK' /\ QueuesOK' /\ HeldOK' /\ entry' \in Entries
             /\ toList' \in Seq(Kinds) /\ foreign' \in SUBSET Kinds /\ budget' \in Budgets
  BY DEF RegistryTypeOK, ObjectsOK, QueuesOK, HeldOK, Notices, Entries
<1>1. CASE UNCHANGED vars
  BY <1>0, <1>1 DEF vars, ObjectsOK, QueuesOK, HeldOK
<1>2. ASSUME NEW o \in Objects, Change(o)
      PROVE  /\ ObjectsOK' /\ QueuesOK' /\ budget' \in Budgets
             /\ UNCHANGED <<entry, toList, held, foreign>>
  <2>1. PICK state \in Notices(o) : /\ obj' = [obj EXCEPT ![o] = state]
                                    /\ queue' = [queue EXCEPT ![o] = Append(@, state)]
    BY <1>2 DEF Change, Notices
  <2>2. ObjectsOK'
    BY <1>0, <2>1 DEF ObjectsOK
  <2>3. Append(queue[o], state) \in Seq(Notices(o))
    BY <1>0 DEF QueuesOK
  <2>4. QueuesOK'
    BY <1>0, <2>1, <2>3 DEF QueuesOK
  <2> QED
    BY <1>0, <1>2, <2>2, <2>4, BudgetType DEF Change
<1>3. ASSUME NEW o \in Objects, Resync(o)
      PROVE  QueuesOK' /\ UNCHANGED <<obj, entry, toList, held, foreign, budget>>
  <2>1. <<obj[o]>> \in Seq(Notices(o))
    BY <1>0 DEF ObjectsOK
  <2> QED
    BY <1>0, <1>3, <2>1 DEF Resync, QueuesOK
<1>4. ASSUME NEW o \in Objects, Deliver(o)
      PROVE  /\ QueuesOK' /\ entry' \in Entries /\ foreign' \in SUBSET Kinds
             /\ UNCHANGED <<obj, toList, held, budget>>
  <2>1. queue[o] \in Seq(Notices(o)) /\ queue[o] # <<>>
    BY <1>0, <1>4 DEF QueuesOK, Deliver
  <2>2. Head(queue[o]) \in Notices(o) /\ Tail(queue[o]) \in Seq(Notices(o))
    BY <2>1
  <2>3. QueuesOK'
    BY <1>0, <1>4, <2>2 DEF Deliver, QueuesOK
  <2>4. entry' \in Entries
    <3>1. CASE Head(queue[o]) = None
      BY <1>0, <1>4, <3>1, RemoveEffect DEF Deliver
    <3>2. CASE Head(queue[o]) # None
      BY <1>0, <1>4, <2>2, <3>2, ToldType DEF Deliver, Notices
    <3> QED
      BY <3>1, <3>2
  <2> QED
    BY <1>0, <1>4, <2>3, <2>4, ForeignType DEF Deliver
<1>5. CASE List
  <2>1. HeldOK'
    BY <1>0, <1>5 DEF List, HeldOK, ObjectsOK, Notices
  <2>2. toList' \in Seq(Kinds)
    BY <1>0, <1>5 DEF List
  <2> QED
    BY <1>0, <1>5, <2>1, <2>2 DEF List, ObjectsOK, QueuesOK
<1>6. CASE WriteListed
  <2>1. PICK x \in held : /\ entry' = Upsert(entry, x[1], x[2])
                          /\ Foreign(x[1], OutOfDate(x[1], x[2]))
                          /\ held' = held \ {x}
    BY <1>6 DEF WriteListed
  <2>2. x[1] \in Objects /\ x[2] \in State(x[1])
    BY <1>0 DEF HeldOK
  <2>3. entry' \in Entries /\ foreign' \in SUBSET Kinds
    BY <1>0, <2>1, <2>2, ToldType, ForeignType
  <2>4. HeldOK'
    BY <1>0, <2>1 DEF HeldOK
  <2> QED
    BY <1>0, <1>6, <2>3, <2>4 DEF WriteListed, ObjectsOK, QueuesOK
<1>7. CASE HandlerUpserts
  <2>2. entry' \in Entry
    BY <1>0, <1>7, HandlerWriteEffect DEF HandlerUpserts
  <2>3. foreign' \in SUBSET Kinds
    BY <1>0, <1>7 DEF HandlerUpserts, Kinds
  <2> QED
    BY <1>0, <1>7, <2>2, <2>3, BudgetType
       DEF HandlerUpserts, ObjectsOK, QueuesOK, HeldOK, Entries
<1>8. CASE Restart
  <2>1. QueuesOK' /\ budget' \in Budgets
    BY <1>0, <1>8, FreshType, BudgetType DEF Restart
  <2> QED
    BY <1>0, <1>8, <2>1, ListingsType DEF Restart, ObjectsOK, HeldOK, Entries
<1>9. CASE \E o \in Objects : Change(o) \/ Resync(o) \/ Deliver(o)
  BY <1>0, <1>2, <1>3, <1>4, <1>9 DEF ObjectsOK, QueuesOK, HeldOK
<1> QED
  BY <1>1, <1>5, <1>6, <1>7, <1>8, <1>9 DEF Next

LEMMA TypeInit == Init => RegistryTypeOK
<1> SUFFICES ASSUME Init PROVE RegistryTypeOK
  OBVIOUS
<1>1. ObjectsOK /\ QueuesOK /\ HeldOK
  BY DEF Init, ObjectsOK, QueuesOK, HeldOK, Fresh, Notices
<1>2. budget \in Budgets
  BY RegistryAssumption DEF Init, Budgets
<1> QED
  BY <1>1, <1>2, ListingsType, TypeParts DEF Init, Entries

(* Every variable keeps its type; in particular the entry is always one,   *)
(* and its status one of the statuses.                                     *)
THEOREM RegistryTyped == Spec => []RegistryTypeOK
BY TypeInit, TypeStep, PTL DEF Spec

----------------------------------------------------------------------------
(* What the entry says.  The inductive invariant adds that the last of an  *)
(* object's waiting notifications is what the object is now, and that      *)
(* without an entry there is nothing foreign in it.                        *)

Ordered == \A o \in Objects : queue[o] # <<>> => queue[o][Len(queue[o])] = obj[o]
NothingForeign == entry = None => foreign = {}
RegistryInv == Ordered /\ NothingForeign /\ LastWord /\ NothingGoneIsShown

(* A handler is told of o: by the informer, or by the start-up.            *)
Told(o, state) == entry' = IF state = None THEN Remove(entry, o) ELSE Upsert(entry, o, state)

ShowsPorts(e, foreigners) == e # None /\ e.ports /\ "service" \notin foreigners
ShowsDetails(e, foreigners) ==
    e # None /\ (e.node \/ e.waiting # "" \/ e.since) /\ "pod" \notin foreigners

LEMMA ShownOfGone ==
    NothingGoneIsShown <=>
        /\ ShowsPorts(entry, foreign) => obj["service"] # None \/ queue["service"] # <<>>
        /\ ShowsDetails(entry, foreign) =>
               \E p \in Pods : obj[p] # None \/ queue[p] # <<>>
BY DEF NothingGoneIsShown, ShowsPorts, ShowsDetails

LEMMA DeploymentAgrees ==
    ASSUME entry \in Entries, NEW state \in Notices("deployment"), Told("deployment", state)
    PROVE  Agrees(entry', state)
<1>1. "deployment" \in Objects
  BY DEF Objects
<1>2. CASE state = None
  BY <1>1, <1>2, RemoveEffect DEF Told, Agrees
<1>3. CASE state # None
  <2>1. state \in State("deployment")
    BY <1>3 DEF Notices
  <2>2. state \in Deployment
    BY <1>1, <2>1, States
  <2>3. entry' \in Entry
    BY <1>3, <2>2, UpsertDeploymentEffect DEF Told
  <2> HIDE DEF deploymentStatus
  <2> QED
    BY <1>3, <2>2, <2>3, UpsertDeploymentEffect, ServerStateAssumption DEF Told, Agrees
<1> QED
  BY <1>2, <1>3

LEMMA OthersKeepDeployment ==
    ASSUME entry \in Entries, NothingForeign, NEW o \in Objects, o # "deployment",
           NEW state \in Notices(o), Told(o, state), NEW stale \in BOOLEAN, Foreign(o, stale),
           "deployment" \notin foreign'
    PROVE  /\ "deployment" \notin foreign
           /\ \A d : Agrees(entry, d) => Agrees(entry', d)
<1>1. Kind(o) # "deployment"
  BY ObjectKinds
<1>2. CASE entry = None
  <2>1. entry' = None \/ Bare(entry')
    <3>1. CASE state = None
      BY <1>2, <3>1, RemoveEffect DEF Told
    <3>2. CASE state # None /\ o \in Pods
      <4>1. state \in Pod
        BY <3>2, States DEF Notices
      <4> QED
        BY <1>2, <3>2, <4>1, UpsertPodEffect DEF Told
    <3>3. CASE state # None /\ o = "service"
      <4>1. SameDeployment(NewEntry, entry')
        BY <1>2, <3>3, UpsertServiceEffect, ExistingType DEF Told
      <4> QED
        BY <4>1 DEF SameDeployment, NewEntry, Bare
    <3> QED
      BY <3>1, <3>2, <3>3, ObjectKinds
  <2>2. "deployment" \notin foreign
    BY <1>2 DEF NothingForeign
  <2> QED
    BY <1>2, <2>1, <2>2 DEF Agrees
<1>3. CASE entry # None
  <2>1. entry' # None /\ SameDeployment(entry, entry')
    <3>1. CASE state = None
      BY <1>3, <3>1, RemoveEffect, ObjectKinds DEF Told
    <3>2. CASE state # None /\ o \in Pods
      <4>1. state \in Pod
        BY <3>2, States DEF Notices
      <4> QED
        BY <1>3, <3>2, <4>1, UpsertPodEffect DEF Told
    <3>3. CASE state # None /\ o = "service"
      BY <1>3, <3>3, UpsertServiceEffect, ExistingType, ServerStateAssumption DEF Told
    <3> QED
      BY <3>1, <3>2, <3>3, ObjectKinds
  <2>2. "deployment" \notin foreign
    BY <1>1, <1>3, <2>1 DEF Foreign
  <2> QED
    BY <1>3, <2>1, <2>2 DEF Agrees, Bare, SameDeployment
<1> QED
  BY <1>2, <1>3

LEMMA OthersKeepPorts ==
    ASSUME entry \in Entries, NEW o \in Objects, o # "service",
           NEW state \in Notices(o), Told(o, state), NEW stale \in BOOLEAN, Foreign(o, stale),
           ShowsPorts(entry', foreign')
    PROVE  ShowsPorts(entry, foreign)
<1>1. Kind(o) # "service" /\ entry' # None /\ entry'.ports /\ "service" \notin foreign'
  BY ObjectKinds DEF ShowsPorts
<1>2. "service" \notin foreign
  BY <1>1 DEF Foreign
<1>3. entry # None /\ entry.ports
  <2>1. CASE state = None
    <3>1. o \in Pods /\ entry # None
      BY <1>1, <2>1, RemoveEffect, ObjectKinds DEF Told
    <3> QED
      BY <1>1, <2>1, <3>1, RemoveEffect DEF Told, SameService
  <2>2. CASE state # None /\ o \in Pods
    <3>1. state \in Pod
      BY <2>2, States DEF Notices
    <3> QED
      BY <1>1, <2>2, <3>1, UpsertPodEffect DEF Told, SameService
  <2>3. CASE state # None /\ o = "deployment"
    <3>1. state \in Deployment
      BY <2>3, States DEF Notices
    <3>2. Existing(entry).ports
      BY <1>1, <2>3, <3>1, UpsertDeploymentEffect DEF Told, SameService
    <3> QED
      BY <3>2, ExistingType, NewEntryIsBare
  <2> QED
    BY <2>1, <2>2, <2>3, ObjectKinds
<1> QED
  BY <1>2, <1>3 DEF ShowsPorts

LEMMA OthersKeepDetails ==
    ASSUME entry \in Entries, NEW o \in Objects, o \notin Pods,
           NEW state \in Notices(o), Told(o, state), NEW stale \in BOOLEAN, Foreign(o, stale),
           ShowsDetails(entry', foreign')
    PROVE  ShowsDetails(entry, foreign)
<1>1. /\ Kind(o) # "pod" /\ entry' # None /\ "pod" \notin foreign'
      /\ entry'.node \/ entry'.waiting # "" \/ entry'.since
  BY ObjectKinds DEF ShowsDetails
<1>2. "pod" \notin foreign
  BY <1>1 DEF Foreign
<1>3. SamePod(Existing(entry), entry')
  <2>1. CASE state = None
    <3>1. o = "service" /\ entry # None
      BY <1>1, <2>1, RemoveEffect, ObjectKinds DEF Told
    <3> QED
      BY <2>1, <3>1, RemoveEffect, ExistingType DEF Told
  <2>2. CASE state # None /\ o = "deployment"
    <3>1. state \in Deployment
      BY <2>2, States DEF Notices
    <3> QED
      BY <2>2, <3>1, UpsertDeploymentEffect DEF Told
  <2>3. CASE state # None /\ o = "service"
    BY <2>3, UpsertServiceEffect DEF Told
  <2> QED
    BY <2>1, <2>2, <2>3, ObjectKinds
<1>4. entry # None
  <2> SUFFICES ASSUME entry = None PROVE FALSE
    OBVIOUS
  <2>1. Existing(entry) = NewEntry
    BY ExistingType
  <2> QED
    BY <1>1, <1>3, <2>1, NewEntryIsBare DEF SamePod, NoPod
<1> QED
  BY <1>1, <1>2, <1>3, <1>4, ExistingType DEF SamePod, ShowsDetails

LEMMA GoneIsNotShown ==
    ASSUME entry \in Entries, NEW o \in Objects, Told(o, None)
    PROVE  /\ o = "service" => ~ ShowsPorts(entry', foreign')
           /\ o \in Pods => ~ ShowsDetails(entry', foreign')
<1>1. entry' = Remove(entry, o)
  BY DEF Told
<1>2. CASE entry = None \/ o = "deployment"
  BY <1>1, <1>2, RemoveEffect, ObjectKinds DEF ShowsPorts, ShowsDetails
<1>3. CASE entry # None /\ o = "service"
  <2>1. ~ entry'.ports
    BY <1>1, <1>3, RemoveEffect
  <2> QED
    BY <1>3, <2>1, RegistryAssumption DEF ShowsPorts
<1>4. CASE entry # None /\ o \in Pods
  <2>1. NoPod(entry')
    BY <1>1, <1>4, RemoveEffect
  <2> QED
    BY <1>4, <2>1, RegistryAssumption, Zenon DEF ShowsDetails, NoPod
<1> QED
  BY <1>2, <1>3, <1>4, ObjectKinds

(* Where a handler is told of something that is so now, or will be put     *)
(* right by a notification that still waits, or is known to be foreign.    *)
LEMMA ToldStep ==
    ASSUME entry \in Entries, RegistryInv, NEW o \in Objects, NEW state \in Notices(o),
           Told(o, state), NEW stale \in BOOLEAN, Foreign(o, stale),
           UNCHANGED obj,
           \A p \in Objects \ {o} : queue'[p] = queue[p],
           stale => state # None,
           \/ stale \/ queue'[o] # <<>> \/ state = obj[o]
           \/ (o # "deployment" /\ obj[o] # None)
    PROVE  NothingForeign' /\ LastWord' /\ NothingGoneIsShown'
<1>1. NothingForeign'
  BY DEF Foreign, NothingForeign
<1>0. "deployment" \in Objects /\ "service" \in Objects /\ Pods \subseteq Objects
  BY DEF Objects
<1>a. stale /\ entry' # None => Kind(o) \in foreign'
  BY DEF Foreign
<1>2. LastWord'
  <2> SUFFICES ASSUME queue'["deployment"] = <<>>, "deployment" \notin foreign'
               PROVE  Agrees(entry', obj["deployment"])
    BY DEF LastWord, Agrees
  <2>1. CASE o = "deployment"
    <3>1. Agrees(entry', state)
      BY <2>1, DeploymentAgrees
    <3>2. CASE state = obj[o]
      BY <2>1, <3>1, <3>2
    <3>3. CASE stale /\ entry' # None
      BY <1>a, <2>1, <3>3, ObjectKinds
    <3>4. CASE entry' = None /\ state # obj[o]
      <4>1. state = None
        BY <3>1, <3>4 DEF Agrees
      <4> QED
        BY <2>1, <3>4, <4>1
    <3> QED
      BY <2>1, <3>2, <3>3, <3>4
  <2>2. CASE o # "deployment"
    <3>1. queue["deployment"] = <<>>
      BY <1>0, <2>2
    <3> QED
      BY <2>2, <3>1, OthersKeepDeployment DEF RegistryInv, LastWord
  <2> QED
    BY <2>1, <2>2
<1>3. ShowsPorts(entry', foreign') => obj["service"] # None \/ queue'["service"] # <<>>
  <2> SUFFICES ASSUME ShowsPorts(entry', foreign')
               PROVE  obj["service"] # None \/ queue'["service"] # <<>>
    OBVIOUS
  <2>1. CASE o = "service"
    BY <1>a, <2>1, GoneIsNotShown, ObjectKinds DEF ShowsPorts
  <2>2. CASE o # "service"
    <3>1. ShowsPorts(entry, foreign)
      BY <2>2, OthersKeepPorts
    <3> QED
      BY <1>0, <2>2, <3>1, ShownOfGone DEF RegistryInv
  <2> QED
    BY <2>1, <2>2
<1>4. ShowsDetails(entry', foreign') => \E p \in Pods : obj[p] # None \/ queue'[p] # <<>>
  <2> SUFFICES ASSUME ShowsDetails(entry', foreign')
               PROVE  \E p \in Pods : obj[p] # None \/ queue'[p] # <<>>
    OBVIOUS
  <2>1. CASE o \in Pods
    <3>1. state # None /\ ~ stale
      BY <1>a, <2>1, GoneIsNotShown, ObjectKinds DEF ShowsDetails
    <3>2. obj[o] # None \/ queue'[o] # <<>>
      BY <3>1
    <3> QED
      BY <2>1, <3>2
  <2>2. CASE o \notin Pods
    <3>1. ShowsDetails(entry, foreign)
      BY <2>2, OthersKeepDetails
    <3> QED
      BY <1>0, <2>2, <3>1, ShownOfGone DEF RegistryInv
  <2> QED
    BY <2>1, <2>2
<1> QED
  BY <1>1, <1>2, <1>3, <1>4 DEF NothingGoneIsShown, ShowsPorts, ShowsDetails

LEMMA LastOfSeq ==
    ASSUME NEW S, NEW q \in Seq(S), q # <<>>
    PROVE  IF Tail(q) = <<>> THEN q[Len(q)] = Head(q)
           ELSE Tail(q)[Len(Tail(q))] = q[Len(q)]
<1>1. /\ Len(Tail(q)) = Len(q) - 1 /\ Tail(q) \in Seq(S) /\ Head(q) = q[1]
      /\ \A i \in 1 .. Len(Tail(q)) : Tail(q)[i] = q[i + 1]
  BY HeadTailProperties
<1>2. Len(q) \in Nat
  BY LenProperties
<1>3. CASE Tail(q) = <<>>
  <2>1. Len(Tail(q)) = 0
    BY <1>1, <1>3, EmptySeq
  <2>2. Len(q) = 1
    <3> DEFINE m == Len(Tail(q))
               n == Len(q)
    <3>1. m = n - 1 /\ m = 0 /\ n \in Nat
      BY <1>1, <1>2, <2>1
    <3> HIDE DEF m, n
    <3>2. n = 1
      BY <3>1
    <3> QED
      BY <3>2 DEF n
  <2>3. q[Len(q)] = Head(q)
    BY <1>1, <2>2
  <2> QED
    BY <1>3, <2>3
<1>4. CASE Tail(q) # <<>>
  <2>1. Len(Tail(q)) \in 1 .. Len(Tail(q))
    BY <1>1, <1>4, EmptySeq, LenProperties
  <2>2. Len(q) - 1 + 1 = Len(q)
    BY <1>2
  <2> QED
    BY <1>1, <1>4, <2>1, <2>2
<1> QED
  BY <1>3, <1>4

LEMMA OrderedStep ==
    ASSUME RegistryTypeOK, Ordered, [Next]_vars
    PROVE  Ordered'
<1>0. ObjectsOK /\ QueuesOK
  BY TypeParts
<1>1. CASE UNCHANGED <<obj, queue>>
  BY <1>1 DEF Ordered
<1>2. ASSUME NEW o \in Objects, Change(o)
      PROVE  Ordered'
  <2>1. PICK state \in Notices(o) : /\ obj' = [obj EXCEPT ![o] = state]
                                    /\ queue' = [queue EXCEPT ![o] = Append(@, state)]
    BY <1>2 DEF Change, Notices
  <2>2. queue[o] \in Seq(Notices(o))
    BY <1>0 DEF QueuesOK
  <2>3. obj'[o] = state /\ queue'[o] = Append(queue[o], state)
    BY <1>0, <2>1 DEF ObjectsOK, QueuesOK
  <2>4. queue'[o][Len(queue'[o])] = obj'[o]
    BY <2>2, <2>3
  <2>5. \A p \in Objects \ {o} : obj'[p] = obj[p] /\ queue'[p] = queue[p]
    BY <1>0, <2>1 DEF ObjectsOK, QueuesOK
  <2> QED
    BY <2>4, <2>5 DEF Ordered
<1>3. ASSUME NEW o \in Objects, Resync(o)
      PROVE  Ordered'
  BY <1>0, <1>3 DEF Resync, QueuesOK, Ordered
<1>4. ASSUME NEW o \in Objects, Deliver(o)
      PROVE  Ordered'
  <2>1. queue[o] \in Seq(Notices(o)) /\ queue[o] # <<>> /\ UNCHANGED obj
    BY <1>0, <1>4 DEF QueuesOK, Deliver
  <2>2. /\ queue'[o] = Tail(queue[o])
        /\ \A p \in Objects \ {o} : queue'[p] = queue[p]
    BY <1>0, <1>4 DEF Deliver, QueuesOK
  <2>3. queue'[o] # <<>> => queue'[o][Len(queue'[o])] = queue[o][Len(queue[o])]
    BY <2>1, <2>2, LastOfSeq
  <2> QED
    BY <2>1, <2>2, <2>3 DEF Ordered
<1>5. CASE Restart
  <2>1. ASSUME NEW o \in Objects, queue'[o] # <<>>
        PROVE  queue'[o] = <<obj[o]>>
    BY <1>5, <2>1 DEF Restart, Fresh
  <2>2. UNCHANGED obj
    BY <1>5 DEF Restart
  <2> QED
    BY <2>1, <2>2 DEF Ordered
<1> QED
  BY <1>1, <1>2, <1>3, <1>4, <1>5 DEF Next, vars, List, WriteListed, HandlerUpserts

LEMMA RegistryStep ==
    ASSUME RegistryTypeOK, RegistryInv, [Next]_vars
    PROVE  RegistryInv'
<1>0. /\ ObjectsOK /\ QueuesOK /\ HeldOK /\ entry \in Entries
      /\ "deployment" \in Objects /\ "service" \in Objects /\ Pods \subseteq Objects
  BY TypeParts DEF Objects
<1>a. Ordered'
  BY OrderedStep DEF RegistryInv
<1> SUFFICES NothingForeign' /\ LastWord' /\ NothingGoneIsShown'
  BY <1>a DEF RegistryInv
<1>1. CASE UNCHANGED <<obj, queue, entry, foreign>>
  BY <1>1 DEF RegistryInv, NothingForeign, LastWord, Agrees, NothingGoneIsShown
<1>2. ASSUME NEW o \in Objects, Change(o)
      PROVE  NothingForeign' /\ LastWord' /\ NothingGoneIsShown'
  <2>1. PICK state : /\ obj' = [obj EXCEPT ![o] = state]
                     /\ queue' = [queue EXCEPT ![o] = Append(@, state)]
    BY <1>2 DEF Change
  <2>2. queue'[o] # <<>>
    BY <1>0, <2>1 DEF QueuesOK
  <2>3. \A p \in Objects \ {o} : obj'[p] = obj[p] /\ queue'[p] = queue[p]
    BY <1>0, <2>1 DEF ObjectsOK, QueuesOK
  <2>4. UNCHANGED <<entry, foreign>>
    BY <1>2 DEF Change
  <2>5. LastWord'
    BY <1>0, <2>2, <2>3, <2>4 DEF RegistryInv, LastWord, Agrees
  <2>6. NothingGoneIsShown'
    BY <1>0, <2>2, <2>3, <2>4 DEF RegistryInv, NothingGoneIsShown
  <2> QED
    BY <2>4, <2>5, <2>6 DEF RegistryInv, NothingForeign
<1>3. ASSUME NEW o \in Objects, Resync(o)
      PROVE  NothingForeign' /\ LastWord' /\ NothingGoneIsShown'
  <2>1. /\ queue'[o] # <<>> /\ \A p \in Objects \ {o} : queue'[p] = queue[p]
        /\ UNCHANGED <<obj, entry, foreign>>
    BY <1>0, <1>3 DEF Resync, QueuesOK
  <2>2. LastWord'
    BY <1>0, <2>1 DEF RegistryInv, LastWord, Agrees
  <2>3. NothingGoneIsShown'
    BY <1>0, <2>1 DEF RegistryInv, NothingGoneIsShown
  <2> QED
    BY <2>1, <2>2, <2>3 DEF RegistryInv, NothingForeign
<1>4. ASSUME NEW o \in Objects, Deliver(o)
      PROVE  NothingForeign' /\ LastWord' /\ NothingGoneIsShown'
  <2> DEFINE state == Head(queue[o])
  <2>1. queue[o] \in Seq(Notices(o)) /\ queue[o] # <<>> /\ UNCHANGED obj
    BY <1>0, <1>4 DEF QueuesOK, Deliver
  <2>2. /\ queue'[o] = Tail(queue[o])
        /\ \A p \in Objects \ {o} : queue'[p] = queue[p]
    BY <1>0, <1>4 DEF Deliver, QueuesOK
  <2>3. state \in Notices(o)
    BY <2>1
  <2>4. Told(o, state) /\ Foreign(o, FALSE)
    BY <1>4 DEF Deliver, Told
  <2>5. queue'[o] # <<>> \/ state = obj[o]
    BY <2>1, <2>2, LastOfSeq DEF RegistryInv, Ordered
  <2> HIDE DEF state
  <2> QED
    BY <1>0, <2>1, <2>2, <2>3, <2>4, <2>5, ToldStep
<1>5. CASE WriteListed
  <2>1. PICK x \in held : /\ entry' = Upsert(entry, x[1], x[2])
                          /\ Foreign(x[1], OutOfDate(x[1], x[2]))
    BY <1>5 DEF WriteListed
  <2>2. x[1] \in Objects /\ x[2] \in State(x[1])
    BY <1>0 DEF HeldOK
  <2>3. x[2] # None /\ x[2] \in Notices(x[1])
    BY <2>2, States DEF Notices
  <2>4. Told(x[1], x[2])
    BY <2>1, <2>3 DEF Told
  <2>5. UNCHANGED <<obj, queue>>
    BY <1>5 DEF WriteListed
  <2>6. /\ OutOfDate(x[1], x[2]) \in BOOLEAN
        /\ \/ OutOfDate(x[1], x[2])
           \/ x[2] = obj[x[1]]
           \/ (x[1] # "deployment" /\ obj[x[1]] # None)
    BY DEF OutOfDate
  <2> QED
    BY <1>0, <2>1, <2>2, <2>3, <2>4, <2>5, <2>6, ToldStep
<1>6. CASE HandlerUpserts
  <2>1. /\ entry' \in Entry /\ SameService(Existing(entry), entry')
        /\ SamePod(Existing(entry), entry')
    BY <1>0, <1>6, HandlerWriteEffect DEF HandlerUpserts
  <2>2. /\ foreign' = foreign \cup {"deployment"} /\ entry' # None
        /\ UNCHANGED <<obj, queue>>
    BY <1>6, <2>1, ServerStateAssumption DEF HandlerUpserts
  <2>3. ShowsPorts(entry', foreign') => ShowsPorts(entry, foreign)
    BY <1>0, <2>1, <2>2, ExistingType, NewEntryIsBare DEF ShowsPorts, SameService
  <2>4. ShowsDetails(entry', foreign') => ShowsDetails(entry, foreign)
    <3>1. CASE entry = None
      <4>1. /\ ~ NewEntry.node /\ NewEntry.waiting = "" /\ ~ NewEntry.since
            /\ Existing(entry) = NewEntry
        BY <1>0, <3>1, ExistingType, NewEntryIsBare, Zenon DEF NoPod
      <4>2. /\ entry'.node = NewEntry.node /\ entry'.waiting = NewEntry.waiting
            /\ entry'.since = NewEntry.since
        BY <2>1, <4>1 DEF SamePod
      <4> QED
        BY <4>1, <4>2, Zenon DEF ShowsDetails
    <3>2. CASE entry # None
      BY <1>0, <2>1, <2>2, <3>2, ExistingType DEF ShowsDetails, SamePod
    <3> QED
      BY <3>1, <3>2
  <2>5. NothingGoneIsShown'
    BY <2>2, <2>3, <2>4, ShownOfGone DEF RegistryInv, NothingGoneIsShown,
       ShowsPorts, ShowsDetails
  <2> QED
    BY <2>2, <2>5 DEF NothingForeign, LastWord
<1>7. CASE Restart
  <2>1. entry' = None /\ foreign' = {} /\ UNCHANGED obj
    BY <1>7 DEF Restart
  <2>2. queue'["deployment"] = <<>> => obj["deployment"] = None
    BY <1>0, <1>7 DEF Restart, Fresh
  <2> QED
    BY <2>1, <2>2 DEF NothingForeign, LastWord, Agrees, NothingGoneIsShown
<1> QED
  BY <1>1, <1>2, <1>3, <1>4, <1>5, <1>6, <1>7 DEF Next, vars, List

LEMMA RegistryInit == Init => RegistryInv
<1> SUFFICES ASSUME Init PROVE RegistryInv
  OBVIOUS
<1>1. /\ \A o \in Objects : obj[o] = None /\ queue[o] = <<>>
      /\ entry = None /\ foreign = {} /\ "deployment" \in Objects
  BY DEF Init, Fresh, Objects
<1> QED
  BY <1>1 DEF RegistryInv, Ordered, NothingForeign, LastWord, Agrees, NothingGoneIsShown

(* Once its notifications are handled the entry is the deployment's,       *)
(* whatever services and pods do in between (upsertDeployment, onDelete,   *)
(* upsertService), or a bare one when the deployment is gone and a service *)
(* is not; unless a request, or the start-up from a listing that was out   *)
(* of date, has written it since.                                          *)
THEOREM EntryFollowsDeployment == Spec => []LastWord
<1>1. RegistryInv => LastWord
  BY DEF RegistryInv
<1> QED
  BY <1>1, TypeInit, TypeStep, RegistryInit, RegistryStep, PTL DEF Spec

(* Ports and details of a service or pod that is gone are about to be      *)
(* taken back, unless the start-up has written them when it had gone       *)
(* already (StartInformerManager).                                         *)
THEOREM GoneIsTakenBack == Spec => []NothingGoneIsShown
<1>1. RegistryInv => NothingGoneIsShown
  BY DEF RegistryInv
<1> QED
  BY <1>1, TypeInit, TypeStep, RegistryInit, RegistryStep, PTL DEF Spec
=============================================================================
