------------------------------ MODULE Cluster ------------------------------
(***************************************************************************)
(* The Kubernetes namespace the servers live in, one object of each kind   *)
(* per name, and the informers that feed the in-memory ServerRegistry.     *)
(* The object operations are the API calls of internal/k8s/manager.go and  *)
(* of the controller; they answer AlreadyExists and NotFound the way       *)
(* their callers take them, as "nothing to do".                            *)
(***************************************************************************)
EXTENDS ServersTable, Sequences

CONSTANT EventsCap   \* bound: deployment events of a name not yet handled

ASSUME ClusterAssumption == EventsCap \in Nat \ {0}

VARIABLES
    pvc,        \* per name: "none", "bound", or "dying" behind its finalizer
    secret,     \* per name: the config its data was built from, or None
    cm,         \* the config map, likewise
    svc,        \* the names that have a service
    dep,        \* per name: the deployment, or None
    registry,   \* per name: ServerState.Replicas of its entry, or None
    depEvents,  \* per name: deployment events on their way to the handlers
    svcAdds     \* names with a service add event on its way

objects == <<pvc, secret, cm, svc, dep>>
streams == <<depEvents, svcAdds>>

(* hash is the config-hash annotation: a digest of the whole config,       *)
(* compared for equality only, so the config itself stands for it.         *)
Deployment == [hash : Config, replicas : 0 .. 1, dying : BOOLEAN]

ASSUME NoDeploymentAssumption == None \notin Deployment

Events == {0, 1, None}   \* the replicas it has now, or None once it is gone

ClusterTypeOK ==
    /\ pvc \in [Names -> {"none", "bound", "dying"}]
    /\ secret \in [Names -> Config \cup {None}]
    /\ cm \in [Names -> Config \cup {None}]
    /\ svc \subseteq Names
    /\ dep \in [Names -> Deployment \cup {None}]
    /\ registry \in [Names -> {0, 1, None}]
    /\ depEvents \in [Names -> Seq(Events)]
    /\ svcAdds \subseteq Names

ClusterInit ==
    /\ pvc = [n \in Names |-> "none"]
    /\ secret = [n \in Names |-> None]
    /\ cm = [n \in Names |-> None]
    /\ svc = {}
    /\ dep = [n \in Names |-> None]
    /\ registry = [n \in Names |-> None]
    /\ depEvents = [n \in Names |-> <<>>]
    /\ svcAdds = {}

----------------------------------------------------------------------------
(* Object operations.  A write that changes a deployment is an event.      *)

Emit(n, e) ==
    /\ Len(depEvents[n]) < EventsCap
    /\ depEvents' = [depEvents EXCEPT ![n] = Append(@, e)]

SetDeployment(n, d) ==
    /\ dep' = [dep EXCEPT ![n] = d]
    /\ IF d = dep[n] THEN UNCHANGED depEvents
       ELSE Emit(n, IF d = None THEN None ELSE d.replicas)
    /\ UNCHANGED <<pvc, secret, cm, svc, svcAdds>>

CreatePVC(n) ==
    /\ pvc' = [pvc EXCEPT ![n] = IF @ = "none" THEN "bound" ELSE @]
    /\ UNCHANGED <<secret, cm, svc, dep, streams>>

CreateSecret(n, c) ==
    /\ secret' = [secret EXCEPT ![n] = IF @ = None THEN c ELSE @]
    /\ UNCHANGED <<pvc, cm, svc, dep, streams>>

CreateConfigMap(n, c) ==
    /\ cm' = [cm EXCEPT ![n] = IF @ = None THEN c ELSE @]
    /\ UNCHANGED <<pvc, secret, svc, dep, streams>>

CreateService(n) ==
    /\ svc' = svc \cup {n}
    /\ svcAdds' = IF n \in svc THEN svcAdds ELSE svcAdds \cup {n}
    /\ UNCHANGED <<pvc, secret, cm, dep, depEvents>>

(* BuildDeployment asks for maxReplicas = 1 whatever the row wants.        *)
CreateDeployment(n, c) ==
    SetDeployment(n, IF dep[n] # None THEN dep[n]
                     ELSE [hash |-> c, replicas |-> 1, dying |-> FALSE])

(* A deleted deployment or volume claim goes at once or, while something   *)
(* still holds a finalizer on it, when that lets go.                       *)
DeleteDeployment(n) ==
    \E d \in {None} \cup (IF dep[n] = None THEN {}
                          ELSE {[dep[n] EXCEPT !.dying = TRUE]}) :
        /\ dep[n] # None /\ dep[n].dying => d = dep[n]
        /\ SetDeployment(n, d)

DeleteService(n) ==
    /\ svc' = svc \ {n}
    /\ UNCHANGED <<pvc, secret, cm, dep, streams>>

DeleteConfigMap(n) ==
    /\ cm' = [cm EXCEPT ![n] = None]
    /\ UNCHANGED <<pvc, secret, svc, dep, streams>>

DeleteSecret(n) ==
    /\ secret' = [secret EXCEPT ![n] = None]
    /\ UNCHANGED <<pvc, cm, svc, dep, streams>>

DeletePVC(n) ==
    /\ \E left \in {"none", "dying"} :
          pvc' = [pvc EXCEPT ![n] = IF @ = "bound" THEN left ELSE @]
    /\ UNCHANGED <<secret, cm, svc, dep, streams>>

UpdateConfigMap(n, c) ==
    /\ cm' = [cm EXCEPT ![n] = c]
    /\ UNCHANGED <<pvc, secret, svc, dep, streams>>

UpdateSecret(n, c) ==
    /\ secret' = [secret EXCEPT ![n] = c]
    /\ UNCHANGED <<pvc, cm, svc, dep, streams>>

----------------------------------------------------------------------------
(* What the cluster does by itself: a finalizer lets go.                   *)
Reap(n) ==
    \/ /\ dep[n] # None /\ dep[n].dying
       /\ SetDeployment(n, None)
       /\ UNCHANGED registry
    \/ /\ pvc[n] = "dying"
       /\ pvc' = [pvc EXCEPT ![n] = "none"]
       /\ UNCHANGED <<secret, cm, svc, dep, streams, registry>>

(* The informers' handlers.  Deployment events of a name arrive in order;  *)
(* the service stream is another goroutine's, so it is not ordered with    *)
(* them.  Only the add of a service matters here: its handler creates the  *)
(* registry entry when there is none, a service's deletion leaves it.      *)
UpsertService(n) == registry' = [registry EXCEPT ![n] = IF @ = None THEN 0 ELSE @]

DeliverDeployment(n) ==
    /\ depEvents[n] # <<>>
    /\ registry' = [registry EXCEPT ![n] = Head(depEvents[n])]
    /\ depEvents' = [depEvents EXCEPT ![n] = Tail(@)]
    /\ UNCHANGED <<objects, svcAdds>>

DeliverService(n) ==
    /\ n \in svcAdds
    /\ UpsertService(n)
    /\ svcAdds' = svcAdds \ {n}
    /\ UNCHANGED <<objects, depEvents>>

(* The ten-minute resync, or a status update, calls the handlers again     *)
(* with the objects the informer holds.                                    *)
Resync(n) ==
    /\ depEvents[n] = <<>>
    /\ \/ dep[n] # None /\ registry' = [registry EXCEPT ![n] = dep[n].replicas]
       \/ n \in svc /\ UpsertService(n)
    /\ UNCHANGED <<objects, streams>>

(* A restarted process lists the namespace before it serves anything.      *)
SyncedRegistry ==
    [n \in Names |-> IF dep[n] # None THEN dep[n].replicas
                     ELSE IF n \in svc THEN 0 ELSE None]
=============================================================================
