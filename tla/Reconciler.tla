---------------------------- MODULE Reconciler ----------------------------
(***************************************************************************)
(* The controller (internal/controller), the cluster it writes to, and the *)
(* API handlers that change the table under its feet (internal/api,        *)
(* cmd/server).  A handler writes its row and then pokes the controller;   *)
(* a pass works from one listing of the table and makes one Kubernetes     *)
(* call per step, so everything may happen between any two of them: other  *)
(* requests, late events, a failing call, a crash.                         *)
(***************************************************************************)
EXTENDS Cluster, FiniteSets

CONSTANTS
    DriftLimit,    \* passes a rowless entry is left alone (3 in the code)
    AllowRename,   \* requests may carry a server_name other than the path's
    Ops,           \* kinds of request users make in this instance
    Budget         \* bounds: how many requests, faults, crashes, tampers

ASSUME ReconcilerAssumption ==
    /\ DriftLimit \in Nat \ {0}
    /\ AllowRename \in BOOLEAN
    /\ Budget \in [{"request", "fault", "crash", "tamper"} -> Nat]

VARIABLES
    rows,       \* the servers table
    trigger,    \* the controller's one-place channel is full
    pc,         \* what the controller's goroutine does next
    snap,       \* the table as this pass listed it
    todo,       \* names this phase of the pass has still to visit
    cur,        \* the row being converged, or None
    drift,      \* driftCounts, saturated at DriftLimit
    inflight,   \* handlers between two steps: [step, name]
    pokesDue,   \* handlers whose next step is Poke
    budget,     \* what is left of Budget
    asked,      \* history: names whose purge was asked for, see CreatePVCStep
    withdrawn,  \* history: of these, those of which a later delete said to keep
                \* the world
    unseen      \* history: names that handlers have written since the table was
                \* last listed

pass == <<pc, snap, todo, cur, drift>>
api == <<inflight, pokesDue>>
history == <<asked, withdrawn, unseen>>
vars == <<rows, trigger, pass, objects, registry, streams, api, budget, history>>

HandlerSteps == {"insert", "addEntry", "checkEntry", "markEntry", "purge"}
KubeCalls == {"delDep", "delSvc", "delCm", "delSecret", "delPvc", "await",
              "mkPvc", "mkSecret", "mkCm", "mkSvc", "mkDep", "compare",
              "putCm", "putSecret", "putDep", "scale"}
StoreCalls == {"reset", "dropRow", "bump"}
Places == {"idle", "list", "rows", "drift"} \cup KubeCalls \cup StoreCalls

TypeOK ==
    /\ ClusterTypeOK
    /\ rows \in Tables /\ snap \in Tables
    /\ trigger \in BOOLEAN
    /\ pc \in Places
    /\ todo \subseteq Names
    /\ cur \in Names \cup {None}
    /\ drift \in [Names -> 0 .. DriftLimit]
    /\ inflight \subseteq [step : HandlerSteps, name : Names]
    /\ pokesDue \in Nat
    /\ budget \in [{"request", "fault", "crash", "tamper"} -> Nat]
    /\ asked \subseteq Names /\ withdrawn \subseteq Names /\ unseen \subseteq Names

Init ==
    /\ ClusterInit
    /\ rows = ResetDatabase
    /\ trigger = FALSE
    /\ pc = "idle"
    /\ snap = ResetDatabase
    /\ todo = {}
    /\ cur = None
    /\ drift = [n \in Names |-> 0]
    /\ inflight = {}
    /\ pokesDue = 0
    /\ budget = Budget
    /\ asked = {}
    /\ withdrawn = {}
    /\ unseen = {}

Spend(kind) ==
    /\ budget[kind] > 0
    /\ budget' = [budget EXCEPT ![kind] = @ - 1]

----------------------------------------------------------------------------
(* API handlers.  A handler reads, checks and writes its row, tells the    *)
(* registry, and pokes.  Its read and its write are one step where a       *)
(* change between them could not alter what the write does.                *)

Request(op) ==
    /\ op \in Ops
    /\ Spend("request")
    /\ UNCHANGED <<trigger, pass, objects, streams>>

Holds(step, n) == [step |-> step, name |-> n] \in inflight

(* At most one handler of a kind is at a given step for a given name.      *)
Enter(step, n) ==
    /\ ~ Holds(step, n)
    /\ inflight' = inflight \cup {[step |-> step, name |-> n]}

Leave(step, n) == inflight' = inflight \ {[step |-> step, name |-> n]}

Move(step, next, n) ==
    /\ ~ Holds(next, n)
    /\ inflight' = (inflight \ {[step |-> step, name |-> n]})
                     \cup {[step |-> next, name |-> n]}

Handler(step, n) ==
    /\ Holds(step, n)
    /\ UNCHANGED <<trigger, pass, streams, budget>>

GoPoke(step, n) == Leave(step, n) /\ pokesDue' = pokesDue + 1

(* server_name is the dashboard's, which sends the name of the path, or an *)
(* API client's, which may send any.                                       *)
Sent(n) == [ver : Versions, target : IF AllowRename THEN Names ELSE {n}]

(* HandlerCreateGameServer: refused while the registry knows the name.     *)
BeginCreate(n) ==
    /\ Request("create")
    /\ registry[n] = None
    /\ Enter("insert", n)
    /\ UNCHANGED <<rows, registry, pokesDue, history>>

(* ... and while the table does.                                           *)
InsertServer(n) ==
    /\ Handler("insert", n)
    /\ \/ /\ rows[n] = None
          /\ \E c \in Sent(n) : rows' = CreateServer(rows, n, c)
          /\ Move("insert", "addEntry", n)
          /\ unseen' = unseen \cup {n}
       \/ /\ rows[n] # None
          /\ Leave("insert", n)
          /\ UNCHANGED <<rows, unseen>>
    /\ UNCHANGED <<objects, registry, pokesDue, asked, withdrawn>>

AddEntry(n) ==
    /\ Handler("addEntry", n)
    /\ registry' = [registry EXCEPT ![n] = 1]
    /\ GoPoke("addEntry", n)
    /\ UNCHANGED <<rows, objects, history>>

(* HandlerDeleteGameServer.                                                *)
DeleteRequest(n, purge) ==
    /\ Request("delete")
    /\ rows[n] # None
    /\ rows' = MarkDeleting(rows, n, purge)
    /\ Enter("checkEntry", n)
    /\ asked' = IF purge THEN asked \cup {n} ELSE asked
    /\ withdrawn' = IF purge THEN withdrawn \ {n} ELSE withdrawn \cup (asked \cap {n})
    /\ unseen' = unseen \cup {n}
    /\ UNCHANGED <<registry, pokesDue>>

CheckEntry(n) ==
    /\ Handler("checkEntry", n)
    /\ IF registry[n] # None
       THEN Move("checkEntry", "markEntry", n) /\ UNCHANGED pokesDue
       ELSE GoPoke("checkEntry", n)
    /\ UNCHANGED <<rows, objects, registry, history>>

(* Upsert again creates the entry if it has gone since it was looked up.   *)
MarkEntry(n) ==
    /\ Handler("markEntry", n)
    /\ registry' = [registry EXCEPT ![n] = IF @ = None THEN 0 ELSE @]
    /\ GoPoke("markEntry", n)
    /\ UNCHANGED <<rows, objects, history>>

Write(n, t) ==
    /\ rows' = t
    /\ pokesDue' = pokesDue + 1
    /\ unseen' = unseen \cup {n}
    /\ UNCHANGED <<registry, inflight, asked, withdrawn>>

(* HandlerStartGameServer and HandlerStopGameServer: refused only when the *)
(* row says so already.                                                    *)
StartRequest(n) ==
    /\ Request("start")
    /\ rows[n] # None /\ rows[n].desired # "running"
    /\ Write(n, UpdateState(rows, n, "running"))

StopRequest(n) ==
    /\ Request("stop")
    /\ rows[n] # None /\ rows[n].desired # "stopped"
    /\ Write(n, UpdateState(rows, n, "stopped"))

ConfigRequest(n) ==
    /\ Request("config")
    /\ rows[n] # None
    /\ \E c \in Sent(n) : Write(n, UpdateServerConfig(rows, n, c))

(* handlerResetDatabase wipes the table.  It pokes when it has also wiped  *)
(* the users and made root again (Accounts), and returns without if either *)
(* fails.                                                                  *)
ResetRequest ==
    /\ Request("reset")
    /\ rows' = ResetDatabase
    /\ pokesDue' \in {pokesDue, pokesDue + 1}
    /\ unseen' = {n \in Names : rows[n] # None} \cup unseen
    /\ UNCHANGED <<registry, inflight, asked, withdrawn>>

(* HandlerDeletePVC: allowed for a name without a row, when it looks.      *)
PurgeRequest(n) ==
    /\ Request("purge")
    /\ rows[n] = None
    /\ Enter("purge", n)
    /\ asked' = asked \cup {n} /\ withdrawn' = withdrawn \ {n}
    /\ UNCHANGED <<rows, registry, pokesDue, unseen>>

PurgeStorage(n) ==
    /\ Handler("purge", n)
    /\ DeletePVC(n)
    /\ Leave("purge", n)
    /\ UNCHANGED <<rows, registry, pokesDue, history>>

\* Mutant: a poke that meets a running pass is dropped.
PokeOnlyIdle ==
    /\ pokesDue > 0
    /\ pokesDue' = pokesDue - 1
    /\ trigger' = (trigger \/ pc = "idle")
    /\ UNCHANGED <<rows, pass, objects, registry, streams, inflight, budget, history>>

(* Controller.Poke: a full channel swallows the poke.                      *)
Poke ==
    /\ pokesDue > 0
    /\ pokesDue' = pokesDue - 1
    /\ trigger' = TRUE
    /\ UNCHANGED <<rows, pass, objects, registry, streams, inflight, budget, history>>

HandlerStep(n) ==
    \/ InsertServer(n) \/ AddEntry(n) \/ CheckEntry(n) \/ MarkEntry(n) \/ PurgeStorage(n)

UserRequest(n) ==
    \/ BeginCreate(n) \/ StartRequest(n) \/ StopRequest(n) \/ ConfigRequest(n)
    \/ PurgeRequest(n)
    \/ \E purge \in BOOLEAN : DeleteRequest(n, purge)

----------------------------------------------------------------------------
(* The controller's loop.  A tick or the channel starts a pass, which      *)
(* lists the table once and works from that listing.                       *)

Quiet == UNCHANGED <<inflight, pokesDue, asked, withdrawn>>
Idle == UNCHANGED <<objects, registry, streams>>

WakeUp ==
    /\ pc = "idle" /\ trigger
    /\ pc' = "list"
    /\ trigger' = FALSE
    /\ UNCHANGED <<rows, snap, todo, cur, drift, budget, unseen>> /\ Quiet /\ Idle

Tick ==
    /\ pc = "idle"
    /\ pc' = "list"
    /\ UNCHANGED <<rows, trigger, snap, todo, cur, drift, budget, unseen>> /\ Quiet /\ Idle

(* A listing that fails ends the pass: neither rows nor drift are looked   *)
(* at, and the wake-up is spent.                                           *)
ListRows ==
    /\ pc = "list"
    /\ \/ /\ snap' = rows
          /\ todo' = {n \in Names : rows[n] # None}
          /\ pc' = "rows"
          /\ unseen' = {}
          /\ UNCHANGED budget
       \/ /\ Spend("fault")
          /\ pc' = "idle"
          /\ UNCHANGED <<snap, todo, unseen>>
    /\ UNCHANGED <<rows, trigger, cur, drift>> /\ Quiet /\ Idle

(* convergeRow and stateActions: the first call each listed row leads to.  *)
Doomed(row) == row.desired = "deleting"

\* Mutant: a multiple of the failure count is tested for without > 0.
FirstCallAtZero(row) ==
    IF Doomed(row) \/ row.fails % RecreateEvery = 0 THEN "delDep" ELSE "mkPvc"
FirstCall(row) == IF Doomed(row) \/ NeedsRebuild(row) THEN "delDep" ELSE "mkPvc"

PickRow(n) ==
    /\ pc = "rows" /\ n \in todo
    /\ cur' = n
    /\ pc' = FirstCall(snap[n])
    /\ UNCHANGED <<rows, trigger, snap, todo, drift, budget, unseen>> /\ Quiet /\ Idle

RowDone ==
    /\ pc' = "rows"
    /\ todo' = todo \ {cur}
    /\ cur' = None

(* When the rows are done driftPass lists the registry.                    *)
RowsDone ==
    /\ pc = "rows" /\ todo = {}
    /\ pc' = "drift"
    /\ todo' = {n \in Names : registry[n] # None}
    /\ UNCHANGED <<rows, trigger, snap, cur, drift, budget, unseen>> /\ Quiet /\ Idle

(* InsertOrphanTombstone fails, and the count stays, on a name that has    *)
(* got a row since the listing, or on any database error.                  *)
DriftEntry(n) ==
    /\ pc = "drift" /\ n \in todo
    /\ todo' = todo \ {n}
    /\ LET seen == IF drift[n] = DriftLimit THEN DriftLimit ELSE drift[n] + 1 IN
       IF snap[n] # None
       THEN drift' = [drift EXCEPT ![n] = 0] /\ UNCHANGED <<rows, budget>>
       ELSE \/ /\ seen = DriftLimit /\ rows[n] = None
               /\ rows' = InsertOrphanTombstone(rows, n)
               /\ drift' = [drift EXCEPT ![n] = 0]
               /\ UNCHANGED budget
            \/ /\ drift' = [drift EXCEPT ![n] = seen]
               /\ UNCHANGED rows
               /\ IF seen = DriftLimit /\ rows[n] = None
                  THEN Spend("fault") ELSE UNCHANGED budget
    /\ UNCHANGED <<trigger, pc, snap, cur, unseen>> /\ Quiet /\ Idle

PassDone ==
    /\ pc = "drift" /\ todo = {}
    /\ pc' = "idle"
    /\ snap' = ResetDatabase
    /\ UNCHANGED <<rows, trigger, todo, cur, drift, budget, unseen>> /\ Quiet /\ Idle

----------------------------------------------------------------------------
(* The calls that converge a row.  The ServerManager works on the objects  *)
(* of the config's server_name, the rest on those of the row's name.       *)

Listed == snap[cur]
Target == Listed.cfg.target
Want == IF Listed.desired = "running" THEN 1 ELSE 0

(* A call ends the row early, into IncrementFailure, when it fails, and    *)
(* also when it has its effect but the answer is lost.                     *)
Answer(next) ==
    \/ pc' = next /\ UNCHANGED budget
    \/ pc' = "bump" /\ Spend("fault")

Unmoved == UNCHANGED <<rows, trigger, registry, snap, todo, cur, drift,
                       inflight, pokesDue, withdrawn, unseen>>

Call(here, next) ==
    /\ pc = here
    /\ Answer(next)
    /\ Unmoved

\* Mutant: DeleteAll gives up on an error but does not return it.
CallFailsUnnoticed ==
    /\ pc \in KubeCalls
    /\ pc' = (IF Doomed(Listed) THEN "dropRow" ELSE "bump") /\ Spend("fault")
    /\ UNCHANGED <<objects, streams, asked>>
    /\ Unmoved

\* Mutant: ApplyConfig goes on when the secret's update has failed.
CallFailsMidApply ==
    /\ pc \in KubeCalls
    /\ pc' = (IF pc = "putSecret" THEN "putDep" ELSE "bump") /\ Spend("fault")
    /\ UNCHANGED <<objects, streams, asked>>
    /\ Unmoved

CallFails ==
    /\ pc \in KubeCalls
    /\ pc' = "bump" /\ Spend("fault")
    /\ UNCHANGED <<objects, streams, asked>>
    /\ Unmoved

(* An error that is the program's own and not a fault: NotFound on an      *)
(* update, or a deadline.                                                  *)
Refused(here) ==
    /\ pc = here
    /\ pc' = "bump"
    /\ UNCHANGED <<objects, streams, asked, budget>>
    /\ Unmoved

(* DeleteAll.                                                              *)
\* Mutants: the server is rebuilt whatever its row says; the volume never goes.
AfterDeleteSecretRecreating == "await"
AfterDeleteSecretSparing == IF ~ Doomed(Listed) THEN "await" ELSE "dropRow"
AfterDeleteSecret ==
    IF ~ Doomed(Listed) THEN "await" ELSE IF Listed.purge THEN "delPvc" ELSE "dropRow"

\* Mutant: NotFound on the service is an error like any other.
DeleteAllStepStrict ==
    /\ \/ Call("delDep", "delSvc") /\ DeleteDeployment(Target)
       \/ Call("delSvc", "delCm") /\ Target \in svc /\ DeleteService(Target)
       \/ Refused("delSvc") /\ Target \notin svc
       \/ Call("delCm", "delSecret") /\ DeleteConfigMap(Target)
       \/ Call("delSecret", AfterDeleteSecret) /\ DeleteSecret(Target)
       \/ Call("delPvc", "dropRow") /\ DeletePVC(Target)
    /\ UNCHANGED asked

DeleteAllStep ==
    /\ \/ Call("delDep", "delSvc") /\ DeleteDeployment(Target)
       \/ Call("delSvc", "delCm") /\ DeleteService(Target)
       \/ Call("delCm", "delSecret") /\ DeleteConfigMap(Target)
       \/ Call("delSecret", AfterDeleteSecret) /\ DeleteSecret(Target)
       \/ Call("delPvc", "dropRow") /\ DeletePVC(Target)
    /\ UNCHANGED asked

(* RecreateAll polls until the deployment is gone or 150 seconds are over. *)
AwaitGone ==
    \/ /\ Call("await", "mkPvc")
       /\ dep[Target] = None
       /\ UNCHANGED <<objects, streams, asked>>
    \/ /\ Refused("await")
       /\ dep[Target] # None

(* CreateAll.  A world made for a row that is not to be purged starts with *)
(* nobody having asked for its purge.                                      *)
PurgePending(n) == rows[n] # None /\ Doomed(rows[n]) /\ rows[n].purge

CreatePVCStep ==
    /\ Call("mkPvc", "mkSecret")
    /\ CreatePVC(Target)
    /\ asked' = IF pvc[Target] = "none" /\ ~ PurgePending(Target)
                THEN asked \ {Target} ELSE asked

\* Mutant: the live config is never compared with the record's.
AfterCreateDeploymentBlind == "scale"
AfterCreateDeployment == IF NeedsRebuild(Listed) THEN "scale" ELSE "compare"

CreateAllStep ==
    \/ CreatePVCStep
    \/ /\ \/ Call("mkSecret", "mkCm") /\ CreateSecret(Target, Listed.cfg)
          \/ Call("mkCm", "mkSvc") /\ CreateConfigMap(Target, Listed.cfg)
          \/ Call("mkSvc", "mkDep") /\ CreateService(Target)
          \/ Call("mkDep", AfterCreateDeployment) /\ CreateDeployment(Target, Listed.cfg)
       /\ UNCHANGED asked

(* stateActions applies the config when the live annotation differs, or    *)
(* when there is no deployment to read one from.                           *)
UpToDate == dep[cur] # None /\ dep[cur].hash = Listed.cfg


CompareHash ==
    /\ Call("compare", IF UpToDate THEN "scale" ELSE "putCm")
    /\ UNCHANGED <<objects, streams, asked>>

(* ApplyConfig.                                                            *)
ApplyConfigStep ==
    \/ /\ \/ /\ Call("putCm", "putSecret")
             /\ cm[Target] # None
             /\ UpdateConfigMap(Target, Listed.cfg)
          \/ /\ Call("putSecret", "putDep")
             /\ secret[Target] # None
             /\ UpdateSecret(Target, Listed.cfg)
          \/ /\ Call("putDep", "scale")
             /\ dep[Target] # None
             /\ SetDeployment(Target, [dep[Target] EXCEPT !.hash = Listed.cfg])
       /\ UNCHANGED asked
    \/ Refused("putCm") /\ cm[Target] = None
    \/ Refused("putSecret") /\ secret[Target] = None
    \/ Refused("putDep") /\ dep[Target] = None

(* ensureReplicas trusts the registry on whether there is anything to do.  *)
EnsureReplicas ==
    \/ /\ Call("scale", "reset")
       /\ registry[cur] \in {None, Want}
       /\ UNCHANGED <<objects, streams, asked>>
    \/ /\ Call("scale", "reset")
       /\ registry[cur] \notin {None, Want} /\ dep[cur] # None
       /\ SetDeployment(cur, [dep[cur] EXCEPT !.replicas = Want])
       /\ UNCHANGED asked
    \/ /\ Refused("scale")
       /\ registry[cur] \notin {None, Want} /\ dep[cur] = None

(* The store calls that end a row.  A row that is gone, or a database      *)
(* error, is an error of convergeRow; IncrementFailure's is only logged.   *)
StoreCall(here, after) ==
    /\ pc = here
    /\ \/ rows[cur] # None /\ rows' = after /\ RowDone /\ UNCHANGED budget
       \/ /\ UNCHANGED <<rows, todo, cur>> /\ pc' = "bump"
          /\ IF rows[cur] # None THEN Spend("fault") ELSE UNCHANGED budget
    /\ UNCHANGED <<trigger, snap, drift, unseen>> /\ Quiet /\ Idle

ResetFailuresStep == StoreCall("reset", ResetFailures(rows, cur))

DropRow == StoreCall("dropRow", DeleteServer(rows, cur))

Bump ==
    /\ pc = "bump"
    /\ RowDone
    /\ \/ /\ rows' = IF rows[cur] # None THEN IncrementFailure(rows, cur) ELSE rows
          /\ UNCHANGED budget
       \/ Spend("fault") /\ UNCHANGED rows
    /\ UNCHANGED <<trigger, snap, drift, unseen>> /\ Quiet /\ Idle

ConvergeStep ==
    \/ DeleteAllStep \/ AwaitGone \/ CreateAllStep \/ CompareHash
    \/ ApplyConfigStep \/ EnsureReplicas \/ ResetFailuresStep \/ DropRow
    \/ CallFails \/ Bump

PassStep ==
    \/ WakeUp \/ Tick \/ ListRows \/ RowsDone \/ PassDone
    \/ \E n \in Names : PickRow(n) \/ DriftEntry(n)

----------------------------------------------------------------------------
(* The rest of the world.                                                  *)

Outside == UNCHANGED <<rows, trigger, pass, api, history>>

FinalizerLetsGo(n) == Reap(n) /\ UNCHANGED budget /\ Outside
HandleDeployment(n) == DeliverDeployment(n) /\ UNCHANGED budget /\ Outside
HandleService(n) == DeliverService(n) /\ UNCHANGED budget /\ Outside
Refresh(n) == Resync(n) /\ UNCHANGED budget /\ Outside

(* Somebody deletes an object by hand.                                     *)
Tamper(n) ==
    /\ Spend("tamper")
    /\ \/ DeleteDeployment(n) \/ DeleteService(n)
       \/ DeleteConfigMap(n) \/ DeleteSecret(n)
    /\ UNCHANGED registry
    /\ Outside

Environment(n) ==
    \/ FinalizerLetsGo(n) \/ HandleDeployment(n) \/ HandleService(n)
    \/ Refresh(n) \/ Tamper(n)

(* The process dies, or is shut down, and starts again: the table and the  *)
(* cluster are what they were, everything in memory is lost.               *)
Crash ==
    /\ Spend("crash")
    /\ trigger' = FALSE
    /\ pc' = "idle" /\ snap' = ResetDatabase /\ todo' = {} /\ cur' = None
    /\ drift' = [n \in Names |-> 0]
    /\ inflight' = {} /\ pokesDue' = 0
    /\ registry' = SyncedRegistry
    /\ depEvents' = [n \in Names |-> <<>>] /\ svcAdds' = {}
    /\ UNCHANGED <<rows, objects, history>>

Controller == PassStep \/ ConvergeStep

Next ==
    \/ Controller
    \/ Poke \/ ResetRequest \/ Crash
    \/ \E n \in Names : UserRequest(n) \/ HandlerStep(n) \/ Environment(n)

Spec == Init /\ [][Next]_vars

(* Fairness: the goroutine runs, its ticker fires, a started handler       *)
(* finishes, and the informers and finalizers make progress.  Users,       *)
(* faults, crashes and tampering owe nothing.                              *)
Fairness ==
    /\ WF_vars(Controller)
    /\ WF_vars(Poke)
    /\ \A n \in Names :
         /\ WF_vars(HandlerStep(n))
         /\ WF_vars(FinalizerLetsGo(n))
         /\ WF_vars(HandleDeployment(n))
         /\ WF_vars(HandleService(n))
         /\ WF_vars(Refresh(n))

FairSpec == Spec /\ Fairness

----------------------------------------------------------------------------
(* Properties.                                                             *)

WrittenNotPoked ==
    pokesDue > 0 \/ \E h \in inflight : h.step \in {"addEntry", "checkEntry", "markEntry"}

(* No wake-up is lost (Poke, Run).  A handler that writes a row, a reset   *)
(* that fails half-way excepted, leaves somebody awake for it: a handler   *)
(* has still to poke, the channel is full, or the controller is about to   *)
(* list.  And that lasts until a listing has seen every row written till   *)
(* then.  Two things do take a wake-up away, and leave its rows to the     *)
(* ticker: a listing that fails and a restart.                             *)
Awake == WrittenNotPoked \/ trigger \/ pc = "list"

HandlerWrites == rows' # rows /\ UNCHANGED pass
ListingFails == pc = "list" /\ pc' = "idle"
Restarts == budget'["crash"] < budget["crash"]

NoLostWakeup ==
    [][/\ HandlerWrites => Awake' \/ rows' = ResetDatabase
       /\ Awake /\ ~ Awake' => unseen' = {} \/ ListingFails \/ Restarts]_vars

(* convergeRow clears a record only when its teardown is finished: every   *)
(* object of the name its config carries is gone or going, the volume too  *)
(* if the listing asked for it, whichever calls failed or lost their       *)
(* answer on the way.                                                      *)
TornDown(n) ==
    /\ dep[n] = None \/ dep[n].dying
    /\ n \notin svc /\ cm[n] = None /\ secret[n] = None

ClearedWhenTornDown ==
    pc = "dropRow" => /\ TornDown(Target)
                      /\ Listed.purge => pvc[Target] # "bound"

(* Soft deletes, clean rebuilds, orphan teardowns and crashes in between   *)
(* keep the world: the volume promise of WorldStorage.                     *)
Worlds == INSTANCE WorldStorage WITH
    worlds <- {n \in Names : pvc[n] = "bound"}, consent <- asked

WorldsKept == Worlds!Spec

(* The table is the source of truth (stateActions): no deployment appears  *)
(* for a name that has no record at that moment, though the pass works     *)
(* from a listing that may be old by then.                                 *)
OnlyRecordedServersAppear ==
    [][\A n \in Names : dep[n] = None /\ dep'[n] # None => rows[n] # None]_vars

(* README: "The cluster is only ever brought into line with that record".  *)
(* What the controller makes of a deployment's config, when it comes up or *)
(* later, and of its size, later, is what the record says at that moment,  *)
(* unless a handler has written the record since it was listed: through    *)
(* resets, rebuilds, orphan tombstones and old events.  The size it comes  *)
(* up with is left out: CreateAll gives every deployment one replica, that *)
(* of a stopped server too, which ensureReplicas takes back afterwards     *)
(* (Settles).                                                              *)
Wanted(n) == rows[n] # None /\ ~ Doomed(rows[n])

Size(n) == IF rows[n].desired = "running" THEN 1 ELSE 0

ChangesFollowTheRecord ==
    [][\A n \in Names \ unseen : dep'[n] # None =>
          /\ dep[n] = None \/ dep'[n].hash # dep[n].hash
                => Wanted(n) /\ dep'[n].hash = rows[n].cfg
          /\ dep[n] # None /\ dep'[n].replicas # dep[n].replicas
                => Wanted(n) /\ dep'[n].replicas = Size(n)]_vars

(* A server that is as its record says is left alone: passes, failures,    *)
(* restarts, old events and what goes on around it take nothing from it,   *)
(* except a rebuild that is due, a purge that was let through before it    *)
(* had a record, and somebody who deletes its objects by hand.             *)
Live(n) == dep[n] # None /\ ~ dep[n].dying

AsRecorded(n) ==
    /\ Wanted(n) /\ Live(n)
    /\ dep[n].hash = rows[n].cfg /\ dep[n].replicas = Size(n)
    /\ n \in svc /\ pvc[n] = "bound"

LeftToTheController(n) ==
    /\ ~ NeedsRebuild(rows[n]) /\ ~ Holds("purge", n)
    /\ n \notin unseen /\ n \notin unseen'
    /\ budget'["tamper"] = budget["tamper"]

ServersLeftAlone ==
    [][\A n \in Names :
          AsRecorded(n) /\ LeftToTheController(n) => AsRecorded(n)']_vars

(* With direct purges of orphaned storage, too, a world goes only because  *)
(* somebody asked for it since it was made, or by the call of such a purge.*)
(* A later delete that keeps the world takes the request back, though the  *)
(* server was started in between; only a listing made before the row was   *)
(* last written may still have it.                                         *)
WorldsGoOnRequest ==
    [][\A n \in Names :
          pvc[n] = "bound" /\ pvc'[n] # "bound" =>
              \/ Holds("purge", n)
              \/ n \in asked /\ (n \in withdrawn => n \in unseen)]_vars

(* The config-hash annotation is what tells the next pass that there is    *)
(* nothing left to apply.  So it changes last (ApplyConfig), whatever has  *)
(* failed before: config map and secret hold the new config by then, or    *)
(* are gone, by somebody's hand.                                           *)
AnnotationComesLast ==
    [][\A n \in Names :
          dep[n] # None /\ dep'[n] # None /\ dep'[n].hash # dep[n].hash
            => {cm[n], secret[n]} \subseteq {None, dep'[n].hash}]_vars

(* README: a delete is carried out "and clears the record when finished".  *)
(* So a record that is cleared is one that says it is to be deleted.       *)
OnlyDoomedRecordsAreCleared ==
    [][\A n \in Names : rows[n] # None /\ rows'[n] = None => Doomed(rows[n])]_vars

(* So it is, and finished is the teardown, for a record that no handler    *)
(* has written since it was listed: the record that is cleared says, at    *)
(* that moment, that the server is to be deleted, the objects of its name  *)
(* are gone or going, and so is the volume if it says purge.               *)
ClearedAsRecorded ==
    [][\A n \in Names \ unseen' :
          rows[n] # None /\ rows'[n] = None =>
              /\ Doomed(rows[n]) /\ TornDown(rows[n].cfg.target)
              /\ rows[n].purge => pvc[rows[n].cfg.target] # "bound"]_vars

(* A delete is finished, whatever fails and whenever the process dies      *)
(* (README: "it picks up where it left off"), unless the user takes it     *)
(* back by starting or stopping the server again.                          *)
Deleting(n) == rows[n] # None /\ Doomed(rows[n])

DeletesFinish == \A n \in Names : Deleting(n) ~> ~ Deleting(n)

(* Once users, faults and crashes stop, the cluster settles on the record: *)
(* a server that is to run or to stop has a live deployment of its config  *)
(* and its size, a service and a volume, and no other server has one.      *)
Converged(n) ==
    IF Wanted(n)
    THEN /\ Live(n) /\ dep[n].hash = rows[n].cfg
         /\ dep[n].replicas = Size(n)
         /\ n \in svc /\ pvc[n] # "none"
    ELSE ~ Live(n)

Settles == <>[](\A n \in Names : Converged(n))

(* README: "change most server settings on a running server and they apply *)
(* automatically".  So a settled server's config map and secret hold its   *)
(* record's config.                                                        *)
SettingsApplied ==
    <>[](\A n \in Names :
            Wanted(n) => cm[n] = rows[n].cfg /\ secret[n] = rows[n].cfg)

(* README: "A Kubernetes resource with no matching database record is      *)
(* treated as leftover and cleaned up, with its storage kept".             *)
LeftoversCleanedUp ==
    <>[](\A n \in Names :
            rows[n] = None => ~ Live(n) /\ n \notin svc /\ cm[n] = None /\ secret[n] = None)

(* README: after a delete "you can create a server with the same name      *)
(* later".  So a name with neither record nor deployment nor service does  *)
(* not keep a registry entry, which has HandlerCreateGameServer refuse it. *)
NamesBecomeFree ==
    <>[](\A n \in Names :
            ~ Wanted(n) /\ dep[n] = None /\ n \notin svc => registry[n] = None)

----------------------------------------------------------------------------
(* What the properties above rest on (ReconcilerProof).                    *)

(* The rows still to be visited were listed, the one being converged is    *)
(* one of them.                                                            *)
Cursor ==
    /\ pc # "drift" => \A n \in todo : snap[n] # None
    /\ pc \in KubeCalls \cup StoreCalls => cur \in todo

(* DeleteAll goes through the objects in order, and none comes back.       *)
TeardownOrder ==
    /\ pc \in {"await", "mkPvc"} => ~ Doomed(Listed)
    /\ pc \in {"delPvc", "dropRow"} => Doomed(Listed)
    /\ pc = "delPvc" => Listed.purge
    /\ pc \in {"delSvc", "delCm", "delSecret", "delPvc", "dropRow"} => ~ Live(Target)
    /\ pc \in {"delCm", "delSecret", "delPvc", "dropRow"} => Target \notin svc
    /\ pc \in {"delSecret", "delPvc", "dropRow"} => cm[Target] = None
    /\ pc \in {"delPvc", "dropRow"} => secret[Target] = None
    /\ pc = "dropRow" /\ Listed.purge => pvc[Target] # "bound"

(* Whatever still has a purge ahead of it, in the table or in the listing, *)
(* has been asked for.                                                     *)
PurgeListed(n) == snap[n] # None /\ Doomed(snap[n]) /\ snap[n].purge

PurgesAsked ==
    \A n \in Names : /\ PurgePending(n) => n \in asked /\ n \notin withdrawn
                     /\ n \in todo /\ pc # "drift" /\ PurgeListed(n) => n \in asked

(* A listed row that is still to be converged is what the table has, or    *)
(* has been written by a handler since.                                    *)
ListingCurrent ==
    pc # "drift" => \A n \in todo \ unseen : rows[n] = snap[n]

(* What the controller makes its calls for.                                *)
CallsHaveCause ==
    /\ pc \in {"delDep", "delSvc", "delCm", "delSecret", "delPvc", "dropRow"}
          => Doomed(Listed) \/ NeedsRebuild(Listed)
    /\ pc \in {"await", "mkPvc", "mkSecret", "mkCm", "mkSvc", "mkDep", "compare",
               "putCm", "putSecret", "putDep", "scale"}
          => ~ Doomed(Listed)

(* ApplyConfig's updates are in place when it goes on to the next.         *)
ConfigPut ==
    /\ pc \in {"putSecret", "putDep"} => cm[Target] \in {None, Listed.cfg}
    /\ pc = "putDep" => secret[Target] \in {None, Listed.cfg}

(* Listed rows that are still to be converged are still in the table: only *)
(* the controller clears records, and it clears the row it is done with.   *)
ListedStillThere ==
    pc # "drift" => \A n \in todo : rows[n] # None
=============================================================================
