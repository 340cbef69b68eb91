----------------------------- MODULE ViewProof -----------------------------
(***************************************************************************)
(* Theorems about the view that Registry settles on: every notification of *)
(* what is so repairs its part of the entry and spoils no other, and the   *)
(* health of a server follows from a right view.                           *)
(***************************************************************************)
EXTENDS RegistryProof

(* What a handler that is told of an object does to an entry: its part is  *)
(* right afterwards, the other parts are as they were.                     *)
LEMMA PodIsShown ==
    ASSUME NEW e \in Entry, NEW o \in Pods, NEW p \in Pod
    PROVE  ShowsPod(Upsert(e, o, p), p)
<1>1. e # None /\ Upsert(e, o, p) = upsertPod(e, p)
  BY ObjectKinds, ServerStateAssumption DEF Upsert, Objects
<1> DEFINE waiting == IF p = "pending" THEN e.waiting ELSE IF p \in Waiting THEN p ELSE ""
           since == IF p = "pending" THEN e.since ELSE p = "running"
           f == [e EXCEPT !.node = TRUE, !.waiting = waiting, !.since = since]
<1>2. upsertPod(e, p) = f
  BY <1>1, Zenon DEF upsertPod
<1>3. waiting \in {""} \cup Waiting /\ since \in BOOLEAN
  BY DEF Entry
<1>4. p # "pending" => /\ waiting = IF p \in Waiting THEN p ELSE ""
                       /\ since = (p = "running")
  OBVIOUS
<1> HIDE DEF waiting, since
<1>5. f \in Entry /\ f.node /\ f.waiting = waiting /\ f.since = since
  BY <1>3 DEF Entry
<1>6. f # None
  BY <1>5, ServerStateAssumption
<1> HIDE DEF f
<1> QED
  BY <1>1, <1>2, <1>4, <1>5, <1>6, Zenon DEF ShowsPod

LEMMA PortsAreShown ==
    ASSUME NEW e \in Entries, NEW state
    PROVE  Upsert(e, "service", state).ports
<1>1. Upsert(e, "service", state) = upsertService(e)
  BY ObjectKinds DEF Upsert, Objects
<1>2. Existing(e) \in Entry
  BY ExistingType
<1> QED
  BY <1>1, <1>2 DEF upsertService, Entry

LEMMA OthersAreKept ==
    ASSUME NEW e \in Entry, NEW o \in Objects, NEW state \in State(o)
    PROVE  LET f == Upsert(e, o, state) IN
           /\ f \in Entry /\ f # None
           /\ o # "deployment" => SameDeployment(e, f)
           /\ o # "service" => SameService(e, f)
           /\ o \notin Pods => SamePod(e, f)
<1>1. e \in Entries /\ e # None /\ Existing(e) = e
  BY ExistingType, ServerStateAssumption DEF Entries
<1>2. CASE o = "deployment"
  <2>1. state \in Deployment
    BY <1>2, States
  <2> QED
    BY <1>1, <1>2, <2>1, UpsertDeploymentEffect, ServerStateAssumption
<1>3. CASE o = "service"
  BY <1>1, <1>3, UpsertServiceEffect, ServerStateAssumption, RegistryAssumption
<1>4. CASE o \in Pods
  <2>1. state \in Pod
    BY <1>4, States
  <2> QED
    BY <1>1, <1>4, <2>1, UpsertPodEffect, RegistryAssumption DEF Entries
<1> QED
  BY <1>2, <1>3, <1>4, ObjectKinds

----------------------------------------------------------------------------
(* One notification of what is so.                                         *)

LEMMA DeploymentThere == obj["deployment"] # None => (PartRight("deployment") => entry # None)
BY DEF PartRight, Agrees

LEMMA ToldPartIsRight ==
    ASSUME RegistryTypeOK, UNCHANGED obj, NEW o \in Objects, obj[o] # None,
           entry' = Upsert(entry, o, obj[o]), o \in Pods => entry # None
    PROVE  PartRight(o)'
<1>1. entry \in Entries /\ obj[o] \in State(o)
  BY TypeParts DEF ObjectsOK, Notices
<1>2. CASE o = "deployment"
  <2>1. obj[o] \in Notices("deployment") /\ Told("deployment", obj[o])
    BY <1>1, <1>2 DEF Notices, Told
  <2>2. Agrees(entry', obj[o])
    BY <1>1, <2>1, DeploymentAgrees
  <2> QED
    BY <1>2, <2>2, RegistryAssumption DEF PartRight, Agrees
<1>3. CASE o = "service"
  <2>1. entry' \in Entry /\ entry'.ports
    BY <1>1, <1>3, UpsertServiceEffect, PortsAreShown
  <2> QED
    BY <1>3, <2>1, ServerStateAssumption, RegistryAssumption DEF PartRight
<1>4. CASE o \in Pods
  <2>1. entry \in Entry /\ obj[o] \in Pod
    BY <1>1, <1>4, States DEF Entries
  <2>2. ShowsPod(entry', obj[o])
    BY <1>4, <2>1, PodIsShown
  <2> QED
    BY <1>4, <2>2, RegistryAssumption DEF PartRight, ShowsPod
<1> QED
  BY <1>2, <1>3, <1>4, ObjectKinds

LEMMA OtherPartsStayRight ==
    ASSUME RegistryTypeOK, UNCHANGED obj, obj["deployment"] # None,
           NEW o \in Objects, obj[o] # None, entry' = Upsert(entry, o, obj[o]),
           NEW q \in Objects, q # o, PartRight(q)
    PROVE  PartRight(q)'
<1>1. entry \in Entries /\ obj[o] \in State(o)
  BY TypeParts DEF ObjectsOK, Notices
<1>2. CASE q = "deployment"
  <2>1. entry \in Entry
    BY <1>1, <1>2, DeploymentThere DEF Entries
  <2>2. entry' # None /\ SameDeployment(entry, entry')
    BY <1>1, <1>2, <2>1, OthersAreKept
  <2> QED
    BY <1>2, <2>2, RegistryAssumption DEF PartRight, Agrees, SameDeployment
<1>3. CASE q = "service"
  <2> SUFFICES ASSUME obj[q] # None PROVE entry' # None /\ entry'.ports
    BY <1>3, RegistryAssumption DEF PartRight
  <2>1. entry \in Entry /\ entry.ports
    BY <1>1, <1>3 DEF Entries, PartRight
  <2> QED
    BY <1>1, <1>3, <2>1, OthersAreKept DEF SameService
<1>4. CASE q \in Pods
  <2> SUFFICES ASSUME PodsThere = {q} PROVE ShowsPod(entry', obj[q])
    BY <1>4, RegistryAssumption DEF PartRight, PodsThere, ShowsPod
  <2>1. entry \in Entry /\ ShowsPod(entry, obj[q])
    BY <1>1, <1>4 DEF Entries, PartRight, ShowsPod
  <2>2. o \notin Pods
    BY DEF PodsThere
  <2>3. entry' # None /\ SamePod(entry, entry')
    BY <1>1, <2>1, <2>2, OthersAreKept
  <2> QED
    BY <2>1, <2>3 DEF ShowsPod, SamePod
<1> QED
  BY <1>2, <1>3, <1>4, ObjectKinds

LEMMA NothingMoved ==
    ASSUME UNCHANGED <<obj, entry>>, NEW q \in Objects, PartRight(q)
    PROVE  PartRight(q)'
BY DEF PartRight, Agrees, PodsThere, ShowsPod

----------------------------------------------------------------------------
(* A step of the informers, the clock or the start-up.                     *)

(* Whoever changes something from outside spends of the budget.            *)
LEMMA OutsideSpends ==
    ASSUME budget \in Budgets,
           \/ budget.changes > 0 /\ budget' = [budget EXCEPT !.changes = @ - 1]
           \/ budget.upserts > 0 /\ budget' = [budget EXCEPT !.upserts = @ - 1]
           \/ budget.restarts > 0 /\ budget' = [budget EXCEPT !.restarts = @ - 1]
    PROVE  budget' # budget
<1>1. budget.changes \in Int /\ budget.upserts \in Int /\ budget.restarts \in Int
  BY RegistryAssumption DEF Budgets
<1> QED
  BY <1>1 DEF Budgets

LEMMA InsideSteps ==
    ASSUME RegistryTypeOK, [Next]_vars, UNCHANGED budget
    PROVE  \/ UNCHANGED vars
           \/ \E o \in Objects : Resync(o) \/ Deliver(o)
           \/ List
           \/ WriteListed
<1>1. budget \in Budgets
  BY TypeParts
<1>2. \A o \in Objects : ~ Change(o)
  BY <1>1, OutsideSpends DEF Change
<1>3. ~ HandlerUpserts /\ ~ Restart
  BY <1>1, OutsideSpends DEF HandlerUpserts, Restart
<1> QED
  BY <1>2, <1>3 DEF Next

LEMMA ShorterTail ==
    ASSUME NEW S, NEW q \in Seq(S), q # <<>>
    PROVE  /\ Tail(q) \in Seq(S) /\ Head(q) = q[1] /\ 1 \in 1 .. Len(q)
           /\ Len(Tail(q)) = Len(q) - 1
           /\ \A i \in 1 .. Len(Tail(q)) : i + 1 \in 1 .. Len(q) /\ Tail(q)[i] = q[i + 1]
<1>1. /\ Len(Tail(q)) = Len(q) - 1 /\ Tail(q) \in Seq(S) /\ Head(q) = q[1]
      /\ \A i \in 1 .. Len(Tail(q)) : Tail(q)[i] = q[i + 1]
  BY HeadTailProperties
<1>2. Len(q) \in Nat /\ Len(q) # 0
  BY LenProperties, EmptySeq
<1> QED
  BY <1>1, <1>2

LEMMA ViewStep ==
    ASSUME RegistryTypeOK, [Next]_vars, NewsIsCurrent, obj["deployment"] # None,
           UNCHANGED <<obj, budget>>
    PROVE  /\ NewsIsCurrent'
           /\ \A q \in Objects : PartRight(q) \/ Repaired(q) => PartRight(q)'
<1>0. ObjectsOK /\ QueuesOK /\ HeldOK
  BY TypeParts
<1>a. ASSUME UNCHANGED <<queue, entry>>
      PROVE  \A q \in Objects : PartRight(q) \/ Repaired(q) => PartRight(q)'
  <2>1. \A q \in Objects : Len(queue[q]) \in Nat
    BY <1>0 DEF QueuesOK
  <2>2. \A q \in Objects : ~ Repaired(q)
    BY <1>a, <2>1 DEF Repaired
  <2> QED
    BY <1>a, <2>2, NothingMoved
<1>1. CASE UNCHANGED vars
  BY <1>1, <1>a DEF vars, NewsIsCurrent
<1>2. ASSUME NEW o \in Objects, Resync(o)
      PROVE  /\ NewsIsCurrent'
             /\ \A q \in Objects : PartRight(q) \/ Repaired(q) => PartRight(q)'
  <2>1. /\ queue[o] = <<>> /\ queue'[o] = <<obj[o]>> /\ obj[o] # None
        /\ \A p \in Objects \ {o} : queue'[p] = queue[p]
        /\ UNCHANGED <<entry, held>>
    BY <1>0, <1>2 DEF Resync, QueuesOK
  <2>2. NewsIsCurrent'
    BY <2>1 DEF NewsIsCurrent
  <2>3. \A q \in Objects : Len(queue[q]) \in Nat
    BY <1>0 DEF QueuesOK
  <2>4. \A q \in Objects : ~ Repaired(q)
    BY <2>1, <2>3 DEF Repaired
  <2> QED
    BY <2>1, <2>2, <2>4, NothingMoved
<1>3. ASSUME NEW o \in Objects, Deliver(o)
      PROVE  /\ NewsIsCurrent'
             /\ \A q \in Objects : PartRight(q) \/ Repaired(q) => PartRight(q)'
  <2>1. queue[o] \in Seq(Notices(o)) /\ queue[o] # <<>> /\ UNCHANGED held
    BY <1>0, <1>3 DEF QueuesOK, Deliver
  <2>2. /\ queue'[o] = Tail(queue[o])
        /\ \A p \in Objects \ {o} : queue'[p] = queue[p]
    BY <1>0, <1>3 DEF Deliver, QueuesOK
  <2>3. Head(queue[o]) = obj[o] /\ obj[o] # None
    BY <2>1, ShorterTail DEF NewsIsCurrent
  <2>4. entry' = Upsert(entry, o, obj[o])
    BY <1>3, <2>3 DEF Deliver
  <2>5. \A i \in 1 .. Len(queue'[o]) : queue'[o][i] = obj[o]
    BY <2>1, <2>2, <2>3, ShorterTail DEF NewsIsCurrent
  <2>6. NewsIsCurrent'
    BY <2>1, <2>2, <2>3, <2>5 DEF NewsIsCurrent
  <2>7. ASSUME NEW q \in Objects, q # o
        PROVE  PartRight(q) \/ Repaired(q) => PartRight(q)'
    <3>1. Len(queue[q]) \in Nat
      BY <1>0 DEF QueuesOK
    <3>2. ~ Repaired(q)
      BY <2>2, <2>7, <3>1 DEF Repaired
    <3> QED
      BY <2>3, <2>4, <2>7, <3>2, OtherPartsStayRight
  <2>8. PartRight(o) \/ Repaired(o) => PartRight(o)'
    <3>1. CASE o \in Pods => entry # None
      BY <2>3, <2>4, <3>1, ToldPartIsRight
    <3>2. CASE o \in Pods /\ entry = None
      (* Neither told with effect nor right already, unless two pods are there. *)
      <4> SUFFICES ASSUME PartRight(o), PodsThere = {o} PROVE FALSE
        BY <3>2, RegistryAssumption DEF Repaired, PartRight, PodsThere
      <4> QED
        BY <3>2 DEF PartRight, ShowsPod
    <3> QED
      BY <3>1, <3>2
  <2> QED
    BY <2>6, <2>7, <2>8
<1>4. CASE List
  <2>1. UNCHANGED <<queue, entry>> /\ \A x \in held' : x[2] = obj[x[1]]
    BY <1>4 DEF List
  <2> QED
    BY <1>a, <2>1 DEF NewsIsCurrent
<1>5. CASE WriteListed
  <2>1. PICK x \in held : entry' = Upsert(entry, x[1], x[2]) /\ held' = held \ {x}
    BY <1>5 DEF WriteListed
  <2> DEFINE o == x[1]
  <2>2. o \in Objects /\ x[2] = obj[o] /\ obj[o] # None
    <3>1. o \in Objects /\ x[2] \in State(o)
      BY <1>0 DEF HeldOK
    <3> QED
      BY <3>1, States DEF NewsIsCurrent
  <2>3. entry' = Upsert(entry, o, obj[o]) /\ UNCHANGED queue
    BY <1>5, <2>1, <2>2 DEF WriteListed
  <2> HIDE DEF o
  <2>4. NewsIsCurrent'
    BY <2>1, <2>3 DEF NewsIsCurrent
  <2>5. \A q \in Objects : Len(queue[q]) \in Nat
    BY <1>0 DEF QueuesOK
  <2>6. \A q \in Objects : ~ Repaired(q)
    BY <2>3, <2>5 DEF Repaired
  <2>7. ASSUME NEW q \in Objects, PartRight(q)
        PROVE  PartRight(q)'
    <3>1. CASE q # o
      BY <2>2, <2>3, <2>7, <3>1, OtherPartsStayRight
    <3>2. CASE q = o /\ (o \in Pods => entry # None)
      BY <2>2, <2>3, <3>2, ToldPartIsRight
    <3>3. CASE q = o /\ o \in Pods /\ entry = None
      <4> SUFFICES ASSUME PodsThere = {o} PROVE FALSE
        BY <3>3, RegistryAssumption DEF PartRight, PodsThere
      <4> QED
        BY <2>7, <3>3 DEF PartRight, ShowsPod
    <3> QED
      BY <3>1, <3>2, <3>3
  <2> QED
    BY <2>4, <2>6, <2>7
<1> QED
  BY <1>1, <1>2, <1>3, <1>4, <1>5, InsideSteps

(* The safety half of ViewSettles: while nothing changes, every handler    *)
(* that is told of an object, however often and in whatever order, puts    *)
(* that object's part of the entry right and leaves right ones right.      *)
THEOREM ViewGetsRepaired == Spec => ViewIsRepaired
<1>1. RegistryTypeOK /\ [Next]_vars =>
        [NewsIsCurrent /\ obj["deployment"] # None /\ UNCHANGED <<obj, budget>> =>
            /\ NewsIsCurrent'
            /\ \A o \in Objects : PartRight(o) \/ Repaired(o) => PartRight(o)']_vars
  BY ViewStep
<1> QED
  BY <1>1, RegistryTyped, PTL DEF Spec, ViewIsRepaired

----------------------------------------------------------------------------
(* Health.                                                                 *)

LEMMA HealthyAsDesired ==
    ASSUME NEW desired
    PROVE  deriveHealth(desired, desired, "", 0) = "healthy"
<1>1. ~ (0 >= 5)
  OBVIOUS
<1>2. "" # "CrashLoopBackOff"
  OBVIOUS
<1> QED
  BY <1>1, <1>2, Zenon DEF deriveHealth

LEMMA RightViewRightHealth ==
    ASSUME RegistryTypeOK, RegistryInv, NewsIsCurrent, ViewRight
    PROVE  HealthRight
<1> SUFFICES ASSUME obj["deployment"] # None PROVE HealthRight
  BY DEF HealthRight
<1> DEFINE d == obj["deployment"]
<1>1. \A o \in Objects : PartRight(o)
  BY DEF ViewRight
<1>2. /\ entry \in Entry /\ entry # None /\ entry.status = deploymentStatus(d)
      /\ Existing(entry) = entry
  <2>1. "deployment" \in Objects
    BY DEF Objects
  <2>2. Agrees(entry, d)
    BY <1>1, <2>1 DEF PartRight
  <2>3. entry \in Entries
    BY TypeParts
  <2> QED
    BY <2>2, <2>3, ExistingType DEF Agrees
<1>3. \A desired : Health(entry, desired, 0) =
                     deriveHealth(deploymentStatus(d), desired, entry.waiting, 0)
  BY <1>2 DEF Health
<1>4. ASSUME NEW p \in Pods, PodsThere = {p}
      PROVE  ShowsPod(entry, obj[p])
  BY <1>1, <1>4 DEF PartRight, Objects
<1>5. ASSUME NEW p \in Pods, PodsThere = {p}, obj[p] = "CrashLoopBackOff"
      PROVE  \A desired : Health(entry, desired, 0) = "failed"
  <2>1. entry.waiting = "CrashLoopBackOff"
    BY <1>4, <1>5 DEF ShowsPod, Waiting
  <2> QED
    BY <1>3, <2>1 DEF deriveHealth
<1>6. ASSUME NEW p \in Pods, PodsThere = {p}, obj[p] = "running",
             deploymentStatus(d) = "running"
      PROVE  Health(entry, "running", 0) = "healthy"
  <2>1. entry.waiting = ""
    BY <1>4, <1>6 DEF ShowsPod, Waiting
  <2> QED
    BY <1>3, <1>6, <2>1, HealthyAsDesired
<1>7. ASSUME PodsThere = {}, "pod" \notin foreign, deploymentStatus(d) = "stopped"
      PROVE  Health(entry, "stopped", 0) = "healthy"
  <2>1. \A p \in Pods : obj[p] = None /\ queue[p] = <<>>
    BY <1>7 DEF PodsThere, NewsIsCurrent, Objects
  <2>2. entry.waiting = ""
    BY <1>2, <1>7, <2>1, ShownOfGone DEF RegistryInv, ShowsDetails
  <2> QED
    BY <1>3, <1>7, <2>2, HealthyAsDesired
<1> HIDE DEF d
<1> QED
  BY <1>5, <1>6, <1>7 DEF HealthRight, d

(* The health of a server is right where its view is, the crash of a pod   *)
(* that is gone included: deriveHealth needs nothing that the entry has    *)
(* not.  With ViewGetsRepaired, HealthSettles rests on being told alone.   *)
THEOREM HealthIsAsViewed == Spec => []HealthFollowsView
<1>1. RegistryTypeOK /\ RegistryInv => HealthFollowsView
  BY RightViewRightHealth DEF HealthFollowsView
<1> QED
  BY <1>1, TypeInit, TypeStep, RegistryInit, RegistryStep, PTL DEF Spec
=============================================================================
