------------------------------ MODULE Accounts ------------------------------
(***************************************************************************)
(* The handlers that work on users, owners and ports (internal/api:        *)
(* user_management, change_password, create, transfer and config update;   *)
(* cmd/server: handlerResetDatabase), behind internal/auth's middleware.   *)
(* A handler is a sequence of SQL statements; the store has one connection *)
(* and no transactions, so a statement is atomic and everything may happen *)
(* between two of them.                                                    *)
(***************************************************************************)
EXTENDS UsersTable

CONSTANTS
    Slots,     \* bound: handlers in flight at once
    Ops        \* kinds of request users make in this instance

VARIABLES
    users,     \* name -> row, or None
    servers,   \* name -> owner and port of its row, or None
    flight,    \* slot -> the handler in flight there, or None
    old,       \* history: slot -> rows older than the reset in flight there
    overtaken  \* history: slots whose handler holds a port that, since it read
               \* it, another server has come by or its own has lost

tables == <<users, servers>>
vars == <<users, servers, flight, old, overtaken>>

AdminOps == Alterations \cup {"createUser", "deleteUser"}
PortOps == {"createServer", "config"}
AllOps == AdminOps \cup PortOps \cup {"changePassword", "transfer", "reset"}

Statements == {"lookup", "owned", "isRoot", "getServer", "list", "exists", "write",
               "wipeServers", "wipeUsers", "bootstrap"}

NamesUser(op) == op \in AdminOps \cup {"transfer"}
NamesServer(op) == op \in PortOps \cup {"transfer"}
UsesActor(op) == op \in {"createServer", "changePassword"}
ChecksOwner(op) == op \in {"transfer", "config"}

(* at is the next statement; who and isAdmin are what the handler still    *)
(* uses of the user it was authenticated as; the rest are its arguments    *)
(* and what it has read.                                                   *)
Request ==
    {r \in [op : AllOps, at : Statements, who : Users \cup {None}, isAdmin : BOOLEAN,
            user : Users \cup {None}, server : Servers \cup {None}, port : {0} \cup Pairs] :
        /\ NamesUser(r.op) => r.user \in Users
        /\ NamesServer(r.op) => r.server \in Servers
        /\ UsesActor(r.op) => r.who \in Users}

ASSUME RequestAssumption == None \notin Request /\ Ops \subseteq AllOps

AccountsTypeOK ==
    /\ users \in UserTables
    /\ servers \in ServerTables
    /\ flight \in [Slots -> Request \cup {None}]
    /\ old \in [Slots -> SUBSET (Users \cup Servers)]
    /\ overtaken \subseteq Slots

(* NewStore on an empty database.                                          *)
Init ==
    /\ users = BootstrapAdmin(NoUsers)
    /\ servers = NoServers
    /\ flight = [h \in Slots |-> None]
    /\ old = [h \in Slots |-> {}]
    /\ overtaken = {}

----------------------------------------------------------------------------
(* Bookkeeping of the handlers in flight.                                  *)

At(h, op, statement) ==
    flight[h] # None /\ flight[h].op = op /\ flight[h].at = statement

Resetting(r) == r # None /\ r.op = "reset"
Rows(us, ss) == {n \in Users : us[n] # None} \cup {s \in Servers : ss[s] # None}

HoldsPort(r) == r # None /\ r.port # 0
HasPort(ss, s, port) == ss[s] # None /\ ss[s].port = port

(* The step gives the port that r holds to another server, or takes it     *)
(* from r's own.                                                           *)
Overtakes(r) ==
    \/ \E s \in Servers \ {r.server} :
          HasPort(servers', s, r.port) /\ ~ HasPort(servers, s, r.port)
    \/ HasPort(servers, r.server, r.port) /\ ~ HasPort(servers', r.server, r.port)

(* A row is old for a reset as long as it has been there all the time.     *)
Track ==
    /\ old' = [h \in Slots |->
                IF ~ Resetting(flight'[h]) THEN {}
                ELSE Rows(users', servers')
                       \cap (IF Resetting(flight[h]) THEN old[h] ELSE Rows(users, servers))]
    /\ overtaken' = {h \in Slots : /\ HoldsPort(flight[h]) /\ HoldsPort(flight'[h])
                                   /\ h \in overtaken \/ Overtakes(flight[h])}

Goto(h, statement) == flight' = [flight EXCEPT ![h].at = statement]
Done(h) == flight' = [flight EXCEPT ![h] = None]

(* A statement that only reads: the handler goes on or gives up.           *)
Read(h, good, next) ==
    /\ IF good THEN Goto(h, next) ELSE Done(h)
    /\ UNCHANGED tables /\ Track

(* A handler's last statement, with what it makes of the tables.           *)
WriteUsers(h, us) == users' = us /\ UNCHANGED servers /\ Done(h) /\ Track
WriteServers(h, ss) == servers' = ss /\ UNCHANGED users /\ Done(h) /\ Track

----------------------------------------------------------------------------
(* Authentication.  The middleware reads the user's row once, when the     *)
(* request comes in; what the handler knows of the user is from then.      *)

AuthMiddleware(n, op) ==
    /\ users[n] # None /\ ~ users[n].suspended
    /\ users[n].mustChange => op = "changePassword"

RequireAdmin(n) == users[n].admin \/ users[n].root
RequireRoot(n) == users[n].root

rejectSelf(op, n, target) ==
    op \in (Alterations \ {"resetPassword"}) \cup {"deleteUser"} /\ target = n

First(op) ==
    CASE op = "createUser" -> "lookup"
      [] op = "deleteUser" -> "owned"
      [] op \in Alterations -> "isRoot"
      [] op = "changePassword" -> "write"
      [] op \in {"transfer", "config"} -> "getServer"
      [] op = "createServer" -> "list"
      [] op = "reset" -> "wipeServers"

Arrive(h, op, n, user, server) ==
    /\ flight[h] = None
    /\ AuthMiddleware(n, op)
    /\ op \in AdminOps => RequireAdmin(n)
    /\ op = "reset" => RequireRoot(n)
    /\ ~ rejectSelf(op, n, user)
    /\ flight' = [flight EXCEPT ![h] =
         [op |-> op, at |-> First(op),
          who |-> IF UsesActor(op) \/ (ChecksOwner(op) /\ ~ users[n].admin) THEN n ELSE None,
          isAdmin |-> ChecksOwner(op) /\ users[n].admin,
          user |-> user, server |-> server, port |-> 0]]
    /\ UNCHANGED tables /\ Track

Arrivals(h) ==
    \E op \in Ops, n \in Users :
       \E user \in IF NamesUser(op) THEN Users ELSE {None},
          server \in IF NamesServer(op) THEN Servers ELSE {None} :
             Arrive(h, op, n, user, server)

----------------------------------------------------------------------------
(* HandlerCreateUser: is the name free?  Then the INSERT, which the UNIQUE *)
(* constraint refuses if it no longer is.                                  *)
LookupNewName(h) ==
    At(h, "createUser", "lookup") /\ Read(h, users[flight[h].user] = None, "write")

InsertUser(h) ==
    /\ At(h, "createUser", "write")
    /\ LET n == flight[h].user IN
       IF users[n] # None THEN WriteUsers(h, users)
       ELSE \E admin \in BOOLEAN : WriteUsers(h, [users EXCEPT ![n] = NewUser(admin)])

(* HandlerDeleteUser: ListServersByOwner, then isRootUser, then the DELETE *)
(* that the foreign key refuses if the user owns a server by now.          *)
ListOwned(h) ==
    /\ At(h, "deleteUser", "owned")
    /\ Read(h, ~ Owns(servers, flight[h].user), "isRoot")

\* Mutant: there is no foreign key.
DeleteUserUnchecked(h) ==
    /\ At(h, "deleteUser", "write")
    /\ LET n == flight[h].user IN
       WriteUsers(h, IF NonRoot(users, n) THEN [users EXCEPT ![n] = None] ELSE users)

DeleteUser(h) ==
    /\ At(h, "deleteUser", "write")
    /\ LET n == flight[h].user IN
       WriteUsers(h, IF NonRoot(users, n) /\ ~ Owns(servers, n)
                     THEN [users EXCEPT ![n] = None] ELSE users)

(* Suspend, unsuspend, promote, demote, reset password: isRootUser, then   *)
(* the UPDATE, which again asks for a row that is not root's.              *)
CheckRoot(h) ==
    /\ flight[h] # None /\ flight[h].at = "isRoot"
    /\ Read(h, NonRoot(users, flight[h].user), "write")

\* Mutant: neither the statement nor its guard looks at is_root.
AlterUserAnyone(h) ==
    /\ flight[h] # None /\ flight[h].op \in Alterations
    /\ LET n == flight[h].user IN
       WriteUsers(h, IF users[n] # None
                     THEN [users EXCEPT ![n] = Altered(flight[h].op, @)] ELSE users)

AlterUser(h) ==
    /\ flight[h] # None /\ flight[h].op \in Alterations /\ flight[h].at = "write"
    /\ LET n == flight[h].user IN
       WriteUsers(h, IF NonRoot(users, n)
                     THEN [users EXCEPT ![n] = Altered(flight[h].op, @)] ELSE users)

(* HandlerChangePassword updates by name, whoever has the name by then.    *)
ChangePassword(h) ==
    /\ At(h, "changePassword", "write")
    /\ LET n == flight[h].who IN
       WriteUsers(h, IF users[n] # None
                     THEN [users EXCEPT ![n] = UpdatePassword(@)] ELSE users)

----------------------------------------------------------------------------
(* HandlerTransferServer: GetServer and the permission, then               *)
(* GetUserByUsername, then serverExists, then the UPDATE, which the        *)
(* foreign key refuses if the new owner is gone.                           *)
MayChange(r) == servers[r.server] # None /\ (r.isAdmin \/ servers[r.server].owner = r.who)

(* From here on nothing is asked of the request's user.                    *)
Permitted(r, next, port) ==
    [r EXCEPT !.at = next, !.who = None, !.isAdmin = FALSE, !.port = port]

GetTransferred(h) ==
    /\ At(h, "transfer", "getServer")
    /\ LET r == flight[h] IN
       IF MayChange(r) THEN flight' = [flight EXCEPT ![h] = Permitted(r, "lookup", 0)]
       ELSE Done(h)
    /\ UNCHANGED tables /\ Track

LookupNewOwner(h) ==
    At(h, "transfer", "lookup") /\ Read(h, users[flight[h].user] # None, "exists")

TransferredExists(h) ==
    At(h, "transfer", "exists") /\ Read(h, servers[flight[h].server] # None, "write")

TransferServer(h) ==
    /\ At(h, "transfer", "write")
    /\ LET r == flight[h] IN
       WriteServers(h, IF servers[r.server] # None /\ users[r.user] # None
                       THEN [servers EXCEPT ![r.server].owner = r.user] ELSE servers)

\* Mutant: every row is skipped, as one is whose config cannot be read.
RowPortsSkipped == {}

(* HandlerCreateGameServer: refused when the registry knows the name, or   *)
(* when allocateServerPort finds no pair, from one listing of the rows and *)
(* the node ports in the registry, which may be anybody's; then            *)
(* serverExists; then the INSERT.                                          *)
RowPorts == {servers[s].port : s \in {t \in Servers : servers[t] # None}}

PickPort(h) ==
    /\ At(h, "createServer", "list")
    /\ \/ Done(h)
       \/ \E nodePorts \in SUBSET (Pairs \ RowPorts) :
             LET port == allocateServerPort(RowPorts, nodePorts) IN
             /\ port # 0
             /\ flight' = [flight EXCEPT ![h].at = "exists", ![h].port = port]
    /\ UNCHANGED tables /\ Track

NewServerExists(h) ==
    At(h, "createServer", "exists") /\ Read(h, servers[flight[h].server] = None, "write")

InsertServer(h) ==
    /\ At(h, "createServer", "write")
    /\ LET r == flight[h] IN
       WriteServers(h, IF servers[r.server] = None /\ users[r.who] # None
                       THEN [servers EXCEPT ![r.server] = [owner |-> r.who, port |-> r.port]]
                       ELSE servers)

(* HandlerUpdateGameServerConfig writes the whole config, with the port of *)
(* the row it has read.                                                    *)
GetConfigured(h) ==
    /\ At(h, "config", "getServer")
    /\ LET r == flight[h] IN
       IF MayChange(r)
       THEN flight' = [flight EXCEPT ![h] =
                         Permitted(r, "write", servers[r.server].port)]
       ELSE Done(h)
    /\ UNCHANGED tables /\ Track

UpdateServerConfig(h) ==
    /\ At(h, "config", "write")
    /\ LET r == flight[h] IN
       WriteServers(h, IF servers[r.server] # None
                       THEN [servers EXCEPT ![r.server].port = r.port] ELSE servers)

----------------------------------------------------------------------------
(* handlerResetDatabase: two DELETEs and the INSERT of the root user.  The *)
(* second fails if a server has come in since the first, the third if      *)
(* somebody has taken the root user's name.                                *)
ResetServers(h) ==
    /\ At(h, "reset", "wipeServers")
    /\ servers' = NoServers
    /\ Goto(h, "wipeUsers")
    /\ UNCHANGED users /\ Track

\* Mutant: the reset spares administrators.
ResetUsersSparing(h) ==
    /\ At(h, "reset", "wipeUsers")
    /\ IF servers = NoServers
       THEN /\ users' = [n \in Users |-> IF users[n] # None /\ users[n].admin /\ n # RootUser
                                         THEN users[n] ELSE None]
            /\ Goto(h, "bootstrap")
       ELSE UNCHANGED users /\ Done(h)
    /\ UNCHANGED servers /\ Track

ResetUsers(h) ==
    /\ At(h, "reset", "wipeUsers")
    /\ IF servers = NoServers
       THEN users' = NoUsers /\ Goto(h, "bootstrap")
       ELSE UNCHANGED users /\ Done(h)
    /\ UNCHANGED servers /\ Track

ResetRoot(h) ==
    /\ At(h, "reset", "bootstrap")
    /\ WriteUsers(h, IF users[RootUser] = None THEN BootstrapAdmin(users) ELSE users)

(* A client that goes away cancels the context of its request, and any     *)
(* statement may fail: the handler ends before its next one.               *)
GiveUp(h) ==
    /\ flight[h] # None
    /\ Done(h)
    /\ UNCHANGED tables /\ Track

Handler(h) ==
    \/ Arrivals(h) \/ GiveUp(h)
    \/ LookupNewName(h) \/ InsertUser(h)
    \/ ListOwned(h) \/ DeleteUser(h)
    \/ CheckRoot(h) \/ AlterUser(h) \/ ChangePassword(h)
    \/ GetTransferred(h) \/ LookupNewOwner(h) \/ TransferredExists(h) \/ TransferServer(h)
    \/ PickPort(h) \/ NewServerExists(h) \/ InsertServer(h)
    \/ GetConfigured(h) \/ UpdateServerConfig(h)
    \/ ResetServers(h) \/ ResetUsers(h) \/ ResetRoot(h)

----------------------------------------------------------------------------
(* The controller: a server that is torn down loses its row, and an orphan *)
(* gets one, which is the root user's and has no port.                     *)
DropRow(s) ==
    /\ servers[s] # None
    /\ servers' = [servers EXCEPT ![s] = None]
    /\ UNCHANGED <<users, flight>> /\ Track

\* Mutant: the store was not told the root user's name.
InsertOrphanTombstoneOwnerless(s) ==
    /\ servers[s] = None
    /\ servers' = [servers EXCEPT ![s] = [owner |-> None, port |-> 0]]
    /\ UNCHANGED <<users, flight>> /\ Track

InsertOrphanTombstone(s) ==
    /\ servers[s] = None /\ users[RootUser] # None
    /\ servers' = [servers EXCEPT ![s] = [owner |-> RootUser, port |-> 0]]
    /\ UNCHANGED <<users, flight>> /\ Track

(* The process starts again: handlers are gone, and migrate makes a root   *)
(* user only if there is no user at all.                                   *)
Restart ==
    /\ flight' = [h \in Slots |-> None]
    /\ users' = IF users = NoUsers THEN BootstrapAdmin(users) ELSE users
    /\ UNCHANGED servers /\ Track

Next ==
    \/ \E h \in Slots : Handler(h)
    \/ \E s \in Servers : DropRow(s) \/ InsertOrphanTombstone(s)
    \/ Restart

Spec == Init /\ [][Next]_vars

----------------------------------------------------------------------------
(* Properties.                                                             *)

(* Every step of the handlers is one of the atomic operations, or changes  *)
(* nothing, whatever came in between: what a handler found out about the   *)
(* existence of rows, root and the servers a user owns is so when its last *)
(* statement takes effect.  A free port and the permission to change a     *)
(* server are read earlier and need not be (AtomicAccounts).               *)
Atomic == INSTANCE AtomicAccounts
StatementsAreAtomic == Atomic!Spec

(* The root user cannot be modified (users.go, ErrIsRoot), suspended or    *)
(* deleted: its row changes when root changes the password, and goes only  *)
(* with the whole table, in a reset.  And there is no other root user.     *)
IsRoot(us, n) == us[n] # None /\ us[n].root
OneRoot ==
    \A n \in Users : IsRoot(users, n) =>
        n = RootUser /\ users[n].admin /\ ~ users[n].suspended

RootStaysPut ==
    [][IsRoot(users, RootUser) => IsRoot(users', RootUser) \/ users' = NoUsers]_vars

(* README: a reset deletes "every user and server".  So when the handler   *)
(* goes on to make the new root user, no row from before the reset is left *)
(* (rows that others have written meanwhile may be there).                 *)
ResetWipes == \A h \in Slots : At(h, "reset", "bootstrap") => old[h] = {}

(* README: "Each Valheim server gets its own pair of UDP ports".           *)
Share(ss, s, t) ==
    s # t /\ ss[s] # None /\ ss[s].port # 0 /\ HasPort(ss, t, ss[s].port)

PortsDistinct == \A s, t \in Servers : ~ Share(servers, s, t)

(* That is not so when two requests race (ports_shared), and it is the     *)
(* only way: two servers come to share a pair by the write of a request    *)
(* that was overtaken.  It had picked the pair (allocateServerPort) or     *)
(* read it from its server's row (HandlerUpdateGameServerConfig), and      *)
(* before it wrote it, another server came by the pair or its own lost it. *)
PortsSharedByRacesOnly ==
    [][\A s, t \in Servers : Share(servers', s, t) /\ ~ Share(servers, s, t) =>
          \E h \in overtaken : /\ flight[h].server \in {s, t} /\ flight'[h] = None
                               /\ HasPort(servers', s, flight[h].port)]_vars
=============================================================================
