# Ofan in TLA+

Ofan keeps Valheim servers on a Kubernetes cluster. A web API records what users want in a
SQLite table, and a controller brings the cluster into line with the table. This directory
holds TLA+ models of that loop, of the accounts and owners around it and of the registry that
shows what the cluster does, TLC configurations that check them on small instances, and TLAPS
proofs of their safety properties for every instance.

    tlc -workers 2 -config reconcile_one.cfg MCReconciler    # a model-checking run
    tlapm ReconcilerProof.tla                                # the proofs

`PROJECT.json` is the index: which definition stands for which lines, which run checks which
property, which defect of the code each property would notice, and the list of hazards.

## 1. The system

| Component | State | Operations | Modelled in |
|---|---|---|---|
| Servers table, `internal/db/servers.go` | one row per server: desired state, purge flag, config, failure count, owner | create, mark deleting, update state and config, transfer, tombstone, count and reset failures, delete, wipe | `ServersTable`; owner and port in `UsersTable` |
| Controller, `internal/controller` | one-place trigger channel, the pass's listing, drift counts | `Poke`, `Run`, `Reconcile`, `convergeRow`, `stateActions`, `ensureReplicas`, `driftPass` | `Reconciler` |
| Server manager, `internal/k8s/manager.go` | none of its own; the objects in the namespace | `CreateAll`, `DeleteAll`, `RecreateAll`, `ApplyConfig`, call by call | `Reconciler` over `Cluster` |
| Informers and registry, `internal/k8s/informer.go`, `registry.go` | entry per server name: replicas, status, ports, pod details | add, update, delete handlers per kind; resync; start-up listing | `Registry` over `ServerState`; entries and replicas also in `Cluster` |
| Server handlers, `internal/api/api.go` | none; a request in flight | create, delete, start, stop, change config, purge orphaned storage, transfer, list | `Reconciler`; transfer, owners and ports in `Accounts`, `PortPairs` |
| Accounts, `internal/db/users.go`, `internal/api/user_management.go` | users table | create, suspend, promote, delete, reset and change password | `Accounts` over `UsersTable` |
| Authentication, `internal/auth`, login and logout | tokens held by clients | issue, check, renew | the decision on a request: `Accounts` |
| Lifecycle and reset, `cmd/server` | everything in memory | start, shutdown, wipe the database | `Reconciler`, `Accounts`, `Registry` |
| Views and health, `internal/api/server_view.go`, `derive_health.go`, `network_health.go` | none | pure functions of rows and registry | health of a server: `ServerState` |
| Kubernetes client, embedded assets | none | set-up | not modelled |

How they interact. A handler reads and writes its row, may write a registry entry, and then calls
`Poke`. The controller's goroutine wakes up on the trigger or on a 30-second tick, lists the
table once and works through that listing: for each row a sequence of Kubernetes calls, any of
which may fail and end the row. The objects it writes cause events; informer goroutines turn
these into registry entries, which the controller reads twice, in `ensureReplicas` and in
`driftPass`, and the handlers once, to refuse a name that is taken. Only the table and the
cluster outlive the process.

What is hard here. The pass works from a listing that is out of date as soon as a handler
writes. Two multi-call procedures, teardown and creation, can stop after any call, with or
without the effect of the call. Handlers check in one SQL statement and write in another, on
one connection and without transactions. The registry is written by handlers and by three event streams
that are not ordered with each other. Deletion in Kubernetes is not instantaneous. The process
may be restarted at any time.

What makes each part correct:

- table: statements keep rows well formed; a record is cleared by the controller only, when its teardown is done;
- controller: a written row has somebody awake for it; it builds only what is recorded; deletes finish; the cluster
  settles on the table;
- manager: teardown is complete before it reports success; procedures can be repeated from any point;
- registry: an entry comes to say what the cluster is; entries and details of what has gone go too;
- handlers: worlds are destroyed on request only; ports are distinct but for races; what a handler has checked of the
  existence of rows, of root and of the servers a user owns is so when it writes;
- accounts: nobody but a reset touches root; a server's owner is a user who exists; a reset leaves nothing;
- health: a crash is shown, whatever the deployment says, and is not shown for ever.

## 2. The modules

- **`ServersTable`** - the table as a function from names to rows, one operator per SQL
  statement. A config is a pair of a version and the `server_name` it carries (`target`),
  because the manager works on the objects of the config's name and the rest of the code on those
  of the row's. The failure count is only ever tested for `> 0` and `% 5 = 0`, so it is kept as
  a place in that cycle, `0 .. RecreateEvery`.
- **`Cluster`** - the namespace, one object of each kind per name, and the informers. The
  `config-hash` annotation is compared for equality only; the config stands for it. A deleted
  deployment or volume claim may stay, dying, until a finalizer lets go, and a create meanwhile answers
  AlreadyExists. `depEvents` is the ordered stream of deployment events of a name, `svcAdds` the
  service stream, unordered with it. `Resync` is the ten-minute resync.
- **`Reconciler`** - handlers, controller, environment, their composition, and all properties.
  - A handler that has more than one effect is a record `[step, name]` in `inflight`; its last
    step adds to `pokesDue`, and `Poke` takes from it. Requests without an intermediate effect are
    one step. A handler's read and write are one step where a change between them could not
    alter what the write does.
  - The controller is a program counter, `pc`, over the places of a pass. Every Kubernetes call
    and every store call is a step of its own. `snap` is the listing, `todo` what this phase has
    still to visit, `cur` the row. `Answer` and `CallFails` are the two ways a call fails: with
    its effect done and without. `Refused` is an error that is the program's own: NotFound on an
    update, or the 150-second deadline. A conflict on an update has no effect and is one of
    `CallFails`.
  - `Crash` loses the memory and starts again, with the registry filled from a listing.
  - `ResetRequest` wipes the table and may or may not poke: `handlerResetDatabase` returns without
    (`handlers.go:40-55`) when one of its later statements fails.
  - `asked`, `withdrawn` and `unseen` are history variables: names whose purge has been asked for, those
    of them whose server was deleted again without it, and names written since the last listing that did not fail. No
    guard of the code's actions reads them.
- **`WorldStorage`** - the abstract promise about worlds: a world on a volume is destroyed only
  if its destruction was asked for, and not by a request older than the world. `Reconciler`
  implements it with `worlds <- {n : pvc[n] = "bound"}`, `consent <- asked`.
- **`MCReconciler`** - gathers the bounds for TLC.
- **`PortPairs`** - `allocateServerPort` as a function of the ports in the rows and those in the
  registry: the lowest free pair. `MCAccounts` has TLC compare it with a transcription of the
  code's loop on a short range that includes the UI's port and ends inside a pair.
- **`UsersTable`** - the users table and what the servers table has to do with it, an owner and a
  port. Ids and password hashes are left out; a name is the user.
- **`Accounts`** - the handlers on users, owners and ports, and the reset, one SQL statement per
  step; the store has one connection (`SetMaxOpenConns(1)`), so a statement is atomic, and no
  transactions, so anything may come between two. A request in flight is a record in a slot:
  where it is (`at`), what it took from the middleware (`who`, `isAdmin`), its arguments and the
  port it has read. `Arrive` is routing and middleware: the user's row is read once, then.
  `GiveUp` is a failing statement or a client that has gone. The UNIQUE constraint and the foreign key
  are guards of the statements they refuse. `old` and `overtaken` are history: the rows that were there
  before a reset and still are, and the requests that hold a port which, since they picked or read it, another
  server has come by or their own has lost.
- **`AtomicAccounts`** - what the operations promise: each takes effect at one moment, when what its
  handler has found out about the existence of rows, about root and about the servers a user owns is so. Two checks are not
  in the promise, since no statement repeats them: the free port of a create (`api.go:103`) and the permission to
  transfer or configure (`api.go:337`, `546`). `Accounts` implements it.
- **`ServerState`** - the entry of one server in the registry, the informers' handlers as functions
  on it, `deploymentStatus` and `deriveHealth`. Numbers of ports and addresses are reduced to
  whether they are set; replicas to 0 and 1; a pod to its first container's state.
- **`Registry`** - the three informers of one server. `obj` is the informer's store, `queue` what
  the handlers have not been told of. Each object has its queue: an informer delivers in order,
  which between two objects promises nothing. (Two pods share an informer; that they may be told of in any
  order is more than the code allows.) `List` and `WriteListed` are the start-up, which calls the handlers
  itself while they run. `HandlerUpserts` is a request that writes the entry. `foreign` is history: which
  part of the entry was last written by a request, or by the start-up from a listing that was out of date.
- **`MCAccounts`, `MCRegistry`** - instances for TLC.
- **`ReconcilerProof`, `RecordProof`, `AccountsProof`, `RegistryProof`, `ViewProof`** - the theorems.
  `RecordProof` has those on what the controller does with a record, `ViewProof` those on what the view
  settles on; they build on the types and lemmas of `ReconcilerProof` and `RegistryProof`.

The three models overlap where their parts meet: `Reconciler` has the rows' states and the controller,
`Accounts` sees the controller as `DropRow` and `InsertOrphanTombstone`, which may come at any time, and
`Registry` sees the cluster as `Change`. Each is thereby checked against more behaviours of its
neighbours than the neighbours have.

Simplifications that a reader should know: reading a deployment and updating it is one step (a
change between the two is a conflict, which `CallFails` covers); at most one handler of a kind
is at a given step for a name; the builders' output is the config it came from; in `Reconciler` the
checks of ownership, ports and pods are left out and a database reset empties the servers table
at once; objects of kinds outside the five are not there; every object carries Ofan's labels.

## 3. What TLC checks

| Run | Question | Instance | Distinct states |
|---|---|---|---|
| `reconcile_one` | `TypeOK`, `NoLostWakeup`, `ClearedWhenTornDown`, `WorldsKept`, `ClearedAsRecorded`, `ChangesFollowTheRecord`, `ServersLeftAlone`, `AnnotationComesLast` | one name, 2 versions, 3 of create / delete / start / stop / config / reset, 1 failure and with it a rebuild | 4.9 million |
| `reconcile_two` | `OnlyRecordedServersAppear`, `WorldsGoOnRequest` with a second row beside a teardown | two names (symmetric), 3 of create / delete / purge, no failures | 1.9 million |
| `reconcile_live` | `DeletesFinish`, `Settles` | one name, 2 versions, 2 of create / delete / stop / config / reset, 1 failure, 1 restart | 0.4 million |
| `reconcile_heal` | `Settles` when objects vanish and each failure leads to a rebuild | one name, 2 versions, 2 of create / config, 1 failure, 1 object deleted by hand | 0.3 million |
| `accounts` | `AccountsTypeOK`, `OneRoot`, `RootStaysPut`, `ResetWipes`, `StatementsAreAtomic`, `PortsSharedByRacesOnly` | root and a user, two servers, two port pairs, 2 requests in flight, of any kind but unsuspend, promote and resetPassword | 2.1 million |
| `registry` | `RegistryTypeOK`, `LastWord`, `NothingGoneIsShown`, `ViewIsRepaired`, `HealthFollowsView`, `ViewSettles`, `HealthSettles` | deployment, service, two pods, 4 changes, 1 write by a request, 1 restart | 1.4 million |

- `NoLostWakeup`: a handler that writes a row leaves somebody awake: a handler has still to poke, the channel is
  full, or the controller is about to list. And somebody stays awake until a listing has seen every row
  written till then. What the code does not promise is named in the formula: a reset that fails after it has emptied
  the table does not poke, a listing that fails has spent its wake-up, a restart forgets it. Then the
  ticker is what is left, and `Settles` and `DeletesFinish` say that it is enough.
- `ClearedWhenTornDown`: `convergeRow` reaches the deletion of a record only with every object of its config's
  `server_name` gone or going, the volume included if the listing says purge.
- `WorldsKept`: the refinement of `WorldStorage`; soft deletes, rebuilds, orphan tombstones and
  starting a tombstone never cost a world.
- `OnlyRecordedServersAppear`: no deployment comes up for a name without a record, although the
  listing may be old. It holds since only the controller clears records and it clears a row after
  it has finished with it. A database reset breaks that, so the run has none. Two names and three requests are
  the least in which a pass still has a listed row when it has cleared another.
- `DeletesFinish`: a row marked deleting stops being so. `Settles`: in the end the deployment has
  the record's config and size, with service and volume, and nothing else runs.
- `ClearedAsRecorded`: a record that is cleared, and that no handler has written since it was listed, says at that
  moment that the server is to be deleted, and the teardown, the purge included, is done. It is what holds
  of the promise that `stale_snapshot` refutes.
- `ChangesFollowTheRecord`: the config a deployment comes up with, and the config or size it gets later, is what
  the record says at that moment, unless a handler has written the record since the controller listed it (`unseen`).
  With resets, where `OnlyRecordedServersAppear` does not hold, this still does. It says nothing of the size a deployment
  comes up with, because there the code departs from Ofan's README.md:251 ("The cluster is only ever brought into line with
  that record"): `CreateAll` asks for one replica whatever the row wants (`manager.go:74-82`), so a stopped server whose
  deployment is made anew runs until `ensureReplicas`, next in the same pass, takes the size back, or longer
  if that call fails. `Settles` says that it is taken back.
- `ServersLeftAlone`: a server that is as recorded (deployment, config, size, service, volume) stays so through
  passes, failed calls, restarts and old events. Left out are what may take something from it: a
  rebuild that is due, a request, a direct purge under way, somebody's hand.
- `WorldsGoOnRequest`: for instances with direct purges of orphaned storage. Such a purge takes the
  volume that is there when its call comes, a newer server's too, which the property leaves out; nothing else destroys a
  world that was not asked for. It is also stricter than `WorldsKept`: a later delete that keeps the world takes the
  request back (`withdrawn`), and then only a pass that listed the row before that delete may still go by it.
- `AnnotationComesLast`: when a deployment's `config-hash` changes, config map and secret have the new config
  or are gone. Otherwise a failure in the middle of `ApplyConfig` would never be made good.
- `StatementsAreAtomic`: the refinement of `AtomicAccounts`. It holds because every write repeats its
  handler's checks of rows (`AND is_root = 0`, UNIQUE, the foreign key, `WHERE name = ?`). The free port and
  the permission are not repeated and are no part of it.
- `OneRoot`, `RootStaysPut`: only the configured name is root, always as an administrator who is not
  suspended, and its row goes only with the whole table. That there always is a root is not
  promised and does not hold: in a reset, somebody's create may take the name.
- `ResetWipes`: a reset that comes to its third statement has left no row from before its first.
- `PortsSharedByRacesOnly`: that each server has its own pair is not so when requests race
  (`ports_shared`). This says that nothing else makes two servers share one: the step after which they do is the
  write of a request that was overtaken, that is, since it picked the pair or read it from its server's row
  another server came by it, or its own server lost it (deleted, and made again with another). Both races are in the
  run: two creates, and a create or a deletion against a config update.
- `LastWord`: with its notifications handled, the deployment is what the entry says. Without a deployment there is
  no entry, or a bare one, without status and replicas, that a service's notification has made again
  (`informer.go:313`). Left out is an entry that has since been written by a request, or by the
  start-up from a listing that was out of date (`foreign`).
- `NothingGoneIsShown`: ports without a service and pod details without a pod are only there as long
  as a notification that takes them back is on its way. Left out is what the start-up has written from a listing
  made before the service or pod went (`informer.go:94-107`), which nothing takes back before the next notification.
- `ViewIsRepaired`: once what waits to be told is what is so, each handler that is told of an object puts that
  object's part of the entry right and leaves the right parts of others right, in any order, resyncs
  and start-up included. `HealthFollowsView`: the health of a right view is the right health.
- `ViewSettles`, `HealthSettles`: after the last change, what was dropped (a pod told before its
  deployment), wiped (a new pod's details by the old pod's end) or written late is made good by
  resyncs, and health is failed or healthy when it should be. Two states are
  left out, both made by a start-up listing or a request that writes something old
  (`foreign`): a deleted pod's crash, and an entry of a deployment that is gone. Nothing in the code
  repairs these until another notification comes.

**Bounds.** `MaxRequests`, `MaxFaults`, `MaxCrashes`, `MaxTampers` bound what the outside does;
the controller itself is unbounded. Three requests are the length of the longest interesting
sequences (create, delete, start again; create, reset, create again; create, delete with the world, delete without;
two creates and a delete). `RecreateEvery = 1` has the one
failure lead to a rebuild, in `reconcile_one` and `reconcile_heal`; `RecreateEvery = 2` has it lead to a retry,
in `reconcile_live`; the code's 5 differs in how long it takes to get from the one to the other.
`reconcile_two` has no failures, since two names and three requests are worth more to its questions; the theorems about
its two properties have any number of each.
What a restart or an object deleted by hand does to a property that `reconcile_one` checks is left to its theorem,
which has any number of them. `DriftLimit = 3` is the code's. `EventsCap = 1` or `2` bounds how far
the informer lags behind: a change of a deployment waits while the stream is full. Two names are enough for a pass over
several rows, as rows share only the listing and `todo`. Versions are interchangeable, two
show a change. In `accounts`, two requests in flight give every pair of handlers, and a third changes
nothing that the second could not: each statement depends on the tables and its own request
alone. Unsuspending, promoting and resetting a password are left to the theorems: the statements differ from those of
the other two alterations in the column they set, and set what a new user's row may have. `Users` and `Servers` are what a transfer and a pair of equal ports need; two pairs
of ports let the range run out; slots, servers and users other than root are symmetric. In `registry`, four
changes are a deployment, a crashing pod, its end and its successor; `Cap = 2` lets a
deletion and a new object wait together; the write and the restart are one each since nothing of them
remains but the entry. `Reconciler` and `Accounts` have no terminal state (the ticker fires,
processes restart), so TLC checks deadlock there; `Registry` may stop, with the namespace empty and
everything told, so `registry` does not.

**Fairness** (`FairSpec`) is weak fairness of: the controller's goroutine, which blocks only on
the trigger and the ticker; `Poke` and the remaining steps of a handler that has started, which
nothing blocks (`Poke` is a non-blocking send); finalizers, event delivery and resync, which
Kubernetes and client-go owe the program. Users, failures, restarts and tampering owe
nothing. The liveness results therefore say: once these stop, which the bounds make them do.
`Registry` assumes weak fairness of `Deliver` and `Resync` of each object (client-go's goroutines and its
ten-minute period, `informer.go:43`) and of `List` and `WriteListed` (the start-up is a loop without
waits). The cluster, requests and restarts owe nothing. `Accounts` states safety only and assumes no fairness.

### Where the code and its documentation disagree

Each of these runs is expected to end in a counterexample to something the README of Ofan says.

- `stale_snapshot` (README.md:251-252, `controller.go:113-122`). A server is marked deleting, listed, and
  started again before its teardown is over; the API answers that it is started. The
  controller goes on from its listing and deletes the row, by name, whatever it says by then.
- `settings_applied` (README.md:17, `controller.go:146`, `manager.go:44-82`). A config change meets a missing
  deployment. `CreateAll` leaves the old config map and secret and makes a deployment
  with the hash of the new config, so `ApplyConfig` is never called and the old settings stay.
- `names_become_free` (README.md:119, `api.go:97`, `api.go:129`, `api.go:204`). The handlers write the registry entry
  after the row. When that comes after the deployment's deletion was handled nothing removes
  it and the name stays refused until the process restarts.
- `leftovers` (README.md:253, `controller.go:181`). `driftPass` finds leftovers by way of the registry, which
  knows deployments and services. A config map or secret alone is never cleaned up.
- `renamed_config` (README.md:251, `controller.go:103`). Nothing compares the `server_name` in a config with the name in
  the path, and the manager uses the former: a server of another name, without a record, appears.
- `ports_shared` (README.md:70, `api.go:103`). Two creates list the rows, both find the same pair free, both
  insert. Nothing in the table keeps ports apart, and of the two services Kubernetes will refuse the second.

`renamed_config` is why `AllowRename` exists. The dashboard always sends the name of the path; with
`AllowRename = FALSE` the model is of such clients, with `TRUE` of any client of the API.

## 4. What is proved

All theorems are about `Spec` of the module in question, for any values of the constants that its named
assumptions allow: any sets of names, versions, users, servers, slots, ports and pods, any budgets,
any `RecreateEvery`, `DriftLimit`, `EventsCap` and `Cap` above zero and any mix of requests except as said.

| Theorem | Says | Assumes besides |
|---|---|---|
| `TypeCorrect` | `[](TypeOK /\ Cursor)` | - |
| `WakeupsKept` | `NoLostWakeup` | - |
| `TeardownsComplete` | `[]ClearedWhenTornDown` | - |
| `RecordsComeFirst` | `OnlyRecordedServersAppear` | `~ AllowRename`, no database reset |
| `WorldsAreKept` | `WorldsKept` | `~ AllowRename`, no direct purge of orphaned storage |
| `ClearedRecordsAreDone` | `ClearedAsRecorded` | - |
| `ChangesAreRecorded` | `ChangesFollowTheRecord` | `~ AllowRename` |
| `RecordedServersAreLeftAlone` | `ServersLeftAlone` | `~ AllowRename` |
| `WorldsGoOnlyOnRequest` | `WorldsGoOnRequest` | `~ AllowRename` |
| `AnnotationIsLast` | `AnnotationComesLast` | - |
| `AccountsTyped` | `[]AccountsTypeOK` | - |
| `RootIsUnique`, `RootStays` | `[]OneRoot`, `RootStaysPut` | - |
| `ResetsWipe` | `[]ResetWipes` | - |
| `AccountsAreAtomic` | `StatementsAreAtomic` | - |
| `AllocatedPairIsFree` | what `allocateServerPort` returns is free, and 0 only if nothing is | - |
| `PortsAreSharedByRacesOnly` | `PortsSharedByRacesOnly` | - |
| `RegistryTyped` | `[]RegistryTypeOK` | - |
| `EntryFollowsDeployment` | `[]LastWord` | - |
| `GoneIsTakenBack` | `[]NothingGoneIsShown` | - |
| `ViewGetsRepaired` | `ViewIsRepaired` | - |
| `HealthIsAsViewed` | `[]HealthFollowsView` | - |

The arguments:

- *Types.* One lemma per group of operators, then one per group of actions. `Cursor` (the rows
  still to be visited were listed, the current one is among them) is needed because `snap[cur]` is a row only then.
- *Wake-ups.* Step by step: each request that writes a row, but for a reset, leaves a handler that will poke,
  `Poke` fills the channel, `WakeUp` moves the obligation to `pc = "list"`, and a listing that does not fail
  leaves nothing unseen.
- *Teardowns.* `ClearedWhenTornDown` is not inductive: at `dropRow` it needs everything the
  earlier calls did. `TeardownOrder` states, for each place in `DeleteAll`, what is gone by then. It is
  kept since nobody brings an object back: only the controller creates objects, and it is busy
  deleting. It speaks of `Target`, the name in the listed config, so it needs no assumption. Where row and config
  have to have one name, `Own` (for table and listing) is the invariant that `~ AllowRename` gives.
- *Records first.* `ListedStillThere` (listed rows still to be visited are still in the table) is inductive without resets.
- *Worlds.* `PurgesAsked`: whatever purge is pending in the table or in the listing was asked
  for. It survives the making of a new volume since that step clears `asked` only when no purge
  is pending, and a listed purge of another row concerns another volume. Every step then maps to `Make`, `Ask`,
  `Destroy` or a stutter of `WorldStorage`. Direct purges are left out because between its check and its call the
  volume may be a newer server's (`api.go:504`). `WorldsGoOnlyOnRequest` has them: `PurgesAsked` is
  inductive with them too, and the step that loses a volume is the controller's purge or the call of a direct one. That
  a withdrawn request is not gone by is `PurgesAsked` for the table, and `ListingCurrent` for the listing.
- *The record.* `ListingCurrent` is the core: a listed row that is still to be converged is what the table has, unless a
  handler has written it since (`unseen`). It is inductive since the controller writes only the row it is done with,
  which leaves `todo`, and tombstones are written when no row is to be converged. `CallsHaveCause` adds why a call is
  made: a teardown call for a row that is to go or to be rebuilt, any other for a row that is to stay. Three lemmas say
  which steps change a deployment, drop a service, lose a volume; each is a call for `cur`
  (`~ AllowRename`), and the two invariants give what the record says of `cur` at that moment. `ClearedRecordsAreDone`
  puts `ListingCurrent` and `TeardownOrder` together.
- *The annotation.* `ConfigPut` states, for each place in `ApplyConfig`, what has been updated by then. Between the
  calls others may only delete the config map or the secret; `Target` may be any name.
- *Accounts.* Types by one lemma per handler. `OneRoot` is inductive: the only statement that makes a root
  makes the configured one, and alterations ask for a row that is not root's. `ResetWipes` is too,
  with types: the second statement, when the foreign key lets it pass, leaves no row at all, and a row
  written later is not old. Atomicity is the step simulation with the
  identity mapping, reads being stutters.
- *Ports.* `HeldIsGood` is inductive: as long as it has not been overtaken, a create's pair is in no other server's row
  and a config update's is still in its own server's. `AllocatedPairIsFree` gives the start, and what would end it is
  what `overtaken` records. So a row comes by a port that another has only from a handler that has been
  overtaken; no other step gives a row a port at all.
- *Registry.* `Ordered`: the last notification in an object's queue is its current state. From it, when the
  deployment's queue is empty its last handler saw the current state; what other handlers
  write is of other parts of the entry, or makes it `foreign`. `NothingGoneIsShown` uses the same for
  services and pods, and `NothingForeign` that without an entry nothing counts as written by others.
- *The view.* What a handler does to an entry, field by field, is said once per handler; from this one notification of
  what is so repairs its part and keeps the others (`ToldPartIsRight`, `OtherPartsStayRight`), and `ViewStep` goes
  through resync, delivery and start-up. `HealthIsAsViewed` takes from `NothingGoneIsShown` that without pods
  nothing of a pod is shown. With both, `ViewSettles` and `HealthSettles` rest on one thing that is left to TLC:
  that under fairness every object is told of again after the last change.

No safety theorem about `Reconciler` reads what is in the registry beyond its type. So they do not depend on
how late or in which order the informers write it, and the short form in `Cluster` costs them nothing.

Only model-checked: `DeletesFinish`, `Settles`, `ViewSettles` and `HealthSettles`, as liveness under fairness
is beyond the prover; that `allocateServerPort` is the code's loop (recursion over data); and the properties
that the violation runs refute.

## 5. What could come next

1. `PortsDistinct` as an invariant and a theorem, should ports ever become a column with a UNIQUE constraint.
2. An entry with counts above one, so that `deploymentStatus` is checked for more than one replica. Ofan
   runs one pod per server.

## 6. Not modelled

- The node and endpoint informers and `NetworkHealth` (`informer.go:113-243`): a pure function of library
  caches. Its one piece of state, the last watch error, is shown and decides nothing; that it
  is never cleared is in the list of hazards.
- Rendering, pages, styles, client scripts, log lines and wording: no state. The list of servers is filtered
  by owner in `buildViewMap` and nothing else depends on it.
- Passwords, tokens, cookies, login and hashing: library calls and state held by clients. In the model any
  user may send any request at any time.
- Reads of an entry's fields without the registry's lock (`registry.go:38-56` hands out pointers): handlers write an
  entry in one step here.
- The Kubernetes client, embedded assets and the reading of the configuration: set-up without state.
- What a builder puts in an object, apart from the config it is built from.
- What the node does with a pod, images, and the scripts and manifests under `infra/` and `scripts/`.
- Contexts cancelled in the middle of a call: for the controller the same as a call that fails,
  followed by a restart; for the handlers on accounts, `GiveUp`.
