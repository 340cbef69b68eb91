---------------------------- MODULE ServerState ----------------------------
(***************************************************************************)
(* The registry's entry of one server (k8s.ServerState), what the          *)
(* informers' handlers make of it (internal/k8s/informer.go), and what the *)
(* views say of it (internal/api: deriveHealth).  An object that is gone   *)
(* is None, and so is an entry that is not there.                          *)
(***************************************************************************)
EXTENDS Integers

CONSTANT None

(* What the code looks at of the objects.  have and ready are the          *)
(* Replicas and ReadyReplicas of a deployment's status; a pod may have no  *)
(* container statuses yet ("pending"), or a container that waits, runs or  *)
(* has ended.  A service is its two node ports.                            *)
Deployment == [replicas : 0 .. 1, have : 0 .. 1, ready : 0 .. 1, dying : BOOLEAN]
Pod == {"pending", "ContainerCreating", "CrashLoopBackOff", "running", "ended"}
Waiting == {"ContainerCreating", "CrashLoopBackOff"}
Service == {"ports"}

(* ports stands for NodePort and QueryPort, node for NodeIP, since for     *)
(* RunningSince: whether they are set.                                     *)
Entry ==
    [status : {"", "provisioning", "starting", "running", "stopped", "deleting"},
     replicas : 0 .. 1, ready : 0 .. 1, ports : BOOLEAN,
     node : BOOLEAN, waiting : {""} \cup Waiting, since : BOOLEAN]

ASSUME ServerStateAssumption ==
    None \notin Deployment \cup Pod \cup Service \cup Entry

NewEntry ==
    [status |-> "", replicas |-> 0, ready |-> 0, ports |-> FALSE,
     node |-> FALSE, waiting |-> "", since |-> FALSE]

(* Registry.Upsert starts from the entry there is, or from a new one;      *)
(* UpdateIfExists leaves an entry that is not there alone.                 *)
Existing(e) == IF e = None THEN NewEntry ELSE e

deploymentStatus(d) ==
    CASE d.dying -> "deleting"
      [] ~ d.dying /\ d.replicas = 0 -> "stopped"
      [] ~ d.dying /\ d.replicas > 0 /\ d.ready >= d.replicas /\ d.have > 0 -> "running"
      [] ~ d.dying /\ d.replicas > 0 /\ d.have = 0 -> "provisioning"
      [] OTHER -> "starting"

\* Mutant: Ready takes every replica there is on top of the ready ones.
upsertDeploymentCounting(e, d) ==
    [Existing(e) EXCEPT !.status = deploymentStatus(d), !.replicas = d.replicas,
                        !.ready = d.ready + d.have]

\* Mutant: the deployment's handler starts from a new entry.
upsertDeploymentAfresh(e, d) ==
    [NewEntry EXCEPT !.status = deploymentStatus(d), !.replicas = d.replicas,
                     !.ready = d.ready]

upsertDeployment(e, d) ==
    [Existing(e) EXCEPT !.status = deploymentStatus(d), !.replicas = d.replicas,
                        !.ready = d.ready]

upsertService(e) == [Existing(e) EXCEPT !.ports = TRUE]

deleteService(e) == IF e = None THEN None ELSE [e EXCEPT !.ports = FALSE]

(* A pod without container statuses says only where it is.                 *)
upsertPod(e, p) ==
    IF e = None THEN None
    ELSE [e EXCEPT !.node = TRUE,
                   !.waiting = IF p = "pending" THEN @ ELSE IF p \in Waiting THEN p ELSE "",
                   !.since = IF p = "pending" THEN @ ELSE p = "running"]

\* Mutant: the crash of a pod is remembered when the pod is gone.
deletePodRemembering(e) ==
    IF e = None THEN None ELSE [e EXCEPT !.node = FALSE, !.since = FALSE]

deletePod(e) ==
    IF e = None THEN None ELSE [e EXCEPT !.node = FALSE, !.waiting = "", !.since = FALSE]

----------------------------------------------------------------------------
\* Mutant: a server that is what it should be is healthy before anything else.
deriveHealthLenient(status, desired, waiting, failures) ==
    IF desired = "deleting" \/ desired = status THEN "healthy"
    ELSE IF failures >= 5 \/ waiting = "CrashLoopBackOff" THEN "failed" ELSE "degraded"

deriveHealth(status, desired, waiting, failures) ==
    IF failures >= 5 \/ waiting = "CrashLoopBackOff" THEN "failed"
    ELSE IF \/ desired = "deleting" \/ desired = status
            \/ desired = "running" /\ status \in {"provisioning", "starting"}
         THEN "healthy"
    ELSE "degraded"

(* HandlerGetGameServer shows a server without an entry as one of no       *)
(* status.                                                                 *)
Health(e, desired, failures) ==
    deriveHealth(Existing(e).status, desired, Existing(e).waiting, failures)
=============================================================================
