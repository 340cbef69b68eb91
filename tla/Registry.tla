------------------------------ MODULE Registry ------------------------------
(***************************************************************************)
(* The informers of internal/k8s/informer.go and the entry they keep of    *)
(* one server.  (Entries of different names have nothing in common.)  Each *)
(* object's notifications reach the handlers in order, those of different  *)
(* objects in any order: deployments, services and pods have an informer,  *)
(* a queue and a goroutine each.  StartInformerManager also lists the      *)
(* informers' stores and calls the handlers itself, while they are running.*)
(***************************************************************************)
EXTENDS ServerState, Sequences, FiniteSets

CONSTANTS
    Pods,               \* names of pods, two of which may overlap
    Cap,                \* bound: notifications of an object not yet handled
    MaxChanges,         \* bound: changes of objects
    MaxUpserts,         \* bound: entries written by the API's handlers
    MaxRestarts,        \* bound: restarts of the process
    DeploymentStates, PodStates    \* what the cluster does in this instance

Kinds == {"deployment", "service", "pod"}
Objects == {"deployment", "service"} \cup Pods
Kind(o) == IF o \in Pods THEN "pod" ELSE o

State(o) ==
    CASE Kind(o) = "deployment" -> DeploymentStates
      [] Kind(o) = "service" -> Service
      [] Kind(o) = "pod" -> PodStates

ASSUME RegistryAssumption ==
    /\ {"deployment", "service"} \cap Pods = {}
    /\ DeploymentStates \subseteq Deployment /\ PodStates \subseteq Pod
    /\ Cap \in Nat \ {0}
    /\ MaxChanges \in Nat /\ MaxUpserts \in Nat /\ MaxRestarts \in Nat

VARIABLES
    obj,      \* object -> its state in the informer's store, or None
    queue,    \* object -> states its handlers have not been told of yet
    entry,    \* the server's entry, or None
    toList,   \* kinds that the start-up has not listed yet, in order
    held,     \* what it has listed and not yet written: <<object, state>>
    foreign,  \* history: the kinds whose part of the entry was last written by
              \* a request, or by the start-up from a listing that was out of
              \* date
    budget    \* what is left of the bounds

vars == <<obj, queue, entry, toList, held, foreign, budget>>

Budgets ==
    [changes : 0 .. MaxChanges, upserts : 0 .. MaxUpserts, restarts : 0 .. MaxRestarts]

RegistryTypeOK ==
    /\ obj = [o \in Objects |-> obj[o]] /\ queue = [o \in Objects |-> queue[o]]
    /\ \A o \in Objects : /\ obj[o] \in State(o) \cup {None}
                          /\ queue[o] \in Seq(State(o) \cup {None})
    /\ entry \in Entry \cup {None}
    /\ toList \in Seq(Kinds)
    /\ \A x \in held : \E o \in Objects : \E state \in State(o) : x = <<o, state>>
    /\ foreign \in SUBSET Kinds
    /\ budget \in Budgets

(* A process starts: the first list of an informer is a notification of    *)
(* each object there is.  The first process finds an empty namespace, a    *)
(* later one (Restart) whatever is there.                                  *)
Fresh(objects) == [o \in Objects |-> IF objects[o] = None THEN <<>> ELSE <<objects[o]>>]
Listings == <<"deployment", "service", "pod">>

Init ==
    /\ obj = [o \in Objects |-> None]
    /\ queue = Fresh(obj)
    /\ entry = None
    /\ toList = Listings /\ held = {}
    /\ foreign = {}
    /\ budget = [changes |-> MaxChanges, upserts |-> MaxUpserts, restarts |-> MaxRestarts]

----------------------------------------------------------------------------
(* What a handler is told: that an object is there, in this state, or that *)
(* it is gone (a deletion that the watch has missed is told as well).      *)

Upsert(e, o, state) ==
    CASE Kind(o) = "deployment" -> upsertDeployment(e, state)
      [] Kind(o) = "service" -> upsertService(e)
      [] Kind(o) = "pod" -> upsertPod(e, state)

\* Mutant: the entry stays when the deployment goes.
RemoveKeepingEntry(e, o) ==
    CASE Kind(o) = "deployment" -> e
      [] Kind(o) = "service" -> deleteService(e)
      [] Kind(o) = "pod" -> deletePod(e)

Remove(e, o) ==
    CASE Kind(o) = "deployment" -> None
      [] Kind(o) = "service" -> deleteService(e)
      [] Kind(o) = "pod" -> deletePod(e)

(* Without an entry nothing is said of anything.                           *)
Foreign(o, stale) ==
    foreign' = IF entry' = None THEN {}
               ELSE IF stale THEN foreign \cup {Kind(o)}
               ELSE foreign \ {Kind(o)}

(* The cluster changes an object.                                          *)
Change(o) ==
    /\ budget.changes > 0 /\ budget' = [budget EXCEPT !.changes = @ - 1]
    /\ Len(queue[o]) < Cap
    /\ \E state \in (State(o) \cup {None}) \ {obj[o]} :
          /\ obj' = [obj EXCEPT ![o] = state]
          /\ queue' = [queue EXCEPT ![o] = Append(@, state)]
    /\ UNCHANGED <<entry, toList, held, foreign>>

\* Mutant: only deployments are told again.
ResyncDeployments(o) ==
    /\ o = "deployment" /\ obj[o] # None /\ queue[o] = <<>>
    /\ queue' = [queue EXCEPT ![o] = <<obj[o]>>]
    /\ UNCHANGED <<obj, entry, toList, held, foreign, budget>>

(* Every ten minutes the handlers are told again of what is there.         *)
Resync(o) ==
    /\ obj[o] # None /\ queue[o] = <<>>
    /\ queue' = [queue EXCEPT ![o] = <<obj[o]>>]
    /\ UNCHANGED <<obj, entry, toList, held, foreign, budget>>

Deliver(o) ==
    /\ queue[o] # <<>>
    /\ LET state == Head(queue[o]) IN
       entry' = IF state = None THEN Remove(entry, o) ELSE Upsert(entry, o, state)
    /\ queue' = [queue EXCEPT ![o] = Tail(@)]
    /\ Foreign(o, FALSE)
    /\ UNCHANGED <<obj, toList, held, budget>>

(* The start-up: it lists a kind, writes what it has listed one by one,    *)
(* then lists the next.                                                    *)
List ==
    /\ held = {} /\ toList # <<>>
    /\ held' = {<<o, obj[o]>> : o \in {p \in Objects : Kind(p) = Head(toList) /\ obj[p] # None}}
    /\ toList' = Tail(toList)
    /\ UNCHANGED <<obj, queue, entry, foreign, budget>>

(* What it has listed may be out of date by then: a deployment has changed *)
(* since, a service or a pod has gone.                                     *)
OutOfDate(o, state) == obj[o] = None \/ (o = "deployment" /\ obj[o] # state)

WriteListed ==
    /\ \E x \in held :
          /\ entry' = Upsert(entry, x[1], x[2])
          /\ Foreign(x[1], OutOfDate(x[1], x[2]))
          /\ held' = held \ {x}
    /\ UNCHANGED <<obj, queue, toList, budget>>

(* HandlerCreateGameServer and HandlerDeleteGameServer write the entry     *)
(* themselves, whatever has become of it since they looked.  The process   *)
(* serves requests when the start-up is done.                              *)
HandlerUpserts ==
    /\ budget.upserts > 0 /\ budget' = [budget EXCEPT !.upserts = @ - 1]
    /\ toList = <<>> /\ held = {}
    /\ \/ entry' = [Existing(entry) EXCEPT !.status = "provisioning", !.replicas = 1]
       \/ entry' = [Existing(entry) EXCEPT !.status = "deleting"]
    /\ foreign' = foreign \cup {"deployment"}
    /\ UNCHANGED <<obj, queue, toList, held>>

Restart ==
    /\ budget.restarts > 0 /\ budget' = [budget EXCEPT !.restarts = @ - 1]
    /\ queue' = Fresh(obj)
    /\ entry' = None
    /\ toList' = Listings /\ held' = {}
    /\ foreign' = {}
    /\ UNCHANGED obj

Next ==
    \/ \E o \in Objects : Change(o) \/ Resync(o) \/ Deliver(o)
    \/ List \/ WriteListed
    \/ HandlerUpserts
    \/ Restart

Spec == Init /\ [][Next]_vars

(* The informers' goroutines run, their clock ticks, the start-up gets     *)
(* done.  The cluster, the users and crashes owe nothing.                  *)
FairSpec ==
    /\ Spec
    /\ \A o \in Objects : WF_vars(Deliver(o)) /\ WF_vars(Resync(o))
    /\ WF_vars(List) /\ WF_vars(WriteListed)

----------------------------------------------------------------------------
(* Properties.                                                             *)

(* When the handlers have been told everything of the deployment, the      *)
(* entry says what the deployment is, however services and pods have come  *)
(* in between.  When it is gone, so is the entry, or there is a bare one   *)
(* that a service's notification has made again.  The exceptions: a        *)
(* request has written the entry since the deployment was last told of, or *)
(* the start-up has, from a listing that was out of date.                  *)
Bare(e) == e.status = "" /\ e.replicas = 0 /\ e.ready = 0

Agrees(e, d) ==
    IF d = None THEN e = None \/ Bare(e)
    ELSE /\ e # None
         /\ e.status = deploymentStatus(d)
         /\ e.replicas = d.replicas /\ e.ready = d.ready

LastWord ==
    queue["deployment"] = <<>> /\ "deployment" \notin foreign
        => Agrees(entry, obj["deployment"])

(* Ports and details of what is gone are not shown for good: ports without *)
(* a service, or a node, a reason to wait or a running time without a pod, *)
(* are still to be taken back by a notification that is on its way.  The   *)
(* exception: the start-up has written them from its listing when the      *)
(* service or the pod had gone already, and its end had been told; nothing *)
(* takes that back before the next notification of that kind.              *)
NothingGoneIsShown ==
    entry # None =>
      /\ entry.ports /\ "service" \notin foreign =>
            obj["service"] # None \/ queue["service"] # <<>>
      /\ (entry.node \/ entry.waiting # "" \/ entry.since) /\ "pod" \notin foreign =>
            \E p \in Pods : obj[p] # None \/ queue[p] # <<>>

PodsThere == {p \in Pods : obj[p] # None}

ShowsPod(e, p) ==
    /\ e # None /\ e.node
    /\ p # "pending" => /\ e.waiting = IF p \in Waiting THEN p ELSE ""
                        /\ e.since = (p = "running")

(* What the entry says of an object is so.  Two pods share their part.     *)
PartRight(o) ==
    /\ o = "deployment" => Agrees(entry, obj[o])
    /\ o = "service" /\ obj[o] # None => entry # None /\ entry.ports
    /\ o \in Pods /\ PodsThere = {o} => ShowsPod(entry, obj[o])

ViewRight == obj["deployment"] # None => \A o \in Objects : PartRight(o)

(* README: "live status".  The view of a server that has a deployment      *)
(* settles on what is in the cluster, once the cluster stops changing      *)
(* (MaxChanges): a notification that was overtaken by another object's, or *)
(* wiped by an older pod's end, is made up for.                            *)
ViewSettles == <>[]ViewRight

(* All that is still to be handled says what is so, and nothing that is    *)
(* gone has still to be taken back.                                        *)
NewsIsCurrent ==
    /\ \A o \in Objects :
          queue[o] # <<>> => obj[o] # None /\ \A i \in 1 .. Len(queue[o]) : queue[o][i] = obj[o]
    /\ \A x \in held : x[2] = obj[x[1]]

(* A pod's handler leaves an entry that is not there alone.                *)
Repaired(o) == Len(queue'[o]) < Len(queue[o]) /\ (o \in Pods => entry # None)

(* What ViewSettles rests on, step by step.  From then on, until somebody  *)
(* changes something or the process restarts, a handler that is told of an *)
(* object puts its part right, and none takes from a part that is right:   *)
(* the resyncs and the start-up do not undo each other's work, in any      *)
(* order.                                                                  *)
ViewIsRepaired ==
    [][NewsIsCurrent /\ obj["deployment"] # None /\ UNCHANGED <<obj, budget>> =>
          /\ NewsIsCurrent'
          /\ \A o \in Objects : PartRight(o) \/ Repaired(o) => PartRight(o)']_vars

(* README: the dashboard "shows when a server is starting, running, or     *)
(* failing".  A server whose only pod crashes in a loop is failed,         *)
(* whatever its deployment says; one that runs and should is healthy; and  *)
(* so is one that is stopped as it should be, whatever its last pod did,   *)
(* unless the start-up has written down a pod that was gone.               *)
HealthRight ==
    obj["deployment"] # None =>
        /\ \A p \in Pods : PodsThere = {p} /\ obj[p] = "CrashLoopBackOff" =>
              \A desired \in {"running", "stopped"} : Health(entry, desired, 0) = "failed"
        /\ \A p \in Pods : PodsThere = {p} /\ obj[p] = "running"
                           /\ deploymentStatus(obj["deployment"]) = "running" =>
              Health(entry, "running", 0) = "healthy"
        /\ PodsThere = {} /\ "pod" \notin foreign
           /\ deploymentStatus(obj["deployment"]) = "stopped" =>
              Health(entry, "stopped", 0) = "healthy"

HealthSettles == <>[]HealthRight

(* Health needs no more than the view: where the entry is right and what   *)
(* is gone has been taken back, the health that deriveHealth makes of it   *)
(* is that of the cluster, for a pod that is gone as for one that is there.*)
HealthFollowsView == NewsIsCurrent /\ ViewRight => HealthRight
=============================================================================
