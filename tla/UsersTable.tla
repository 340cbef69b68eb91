----------------------------- MODULE UsersTable -----------------------------
(***************************************************************************)
(* The `users' table (internal/db/users.go, store.go) and the columns of   *)
(* the `servers' table that refer to users and ports: who owns a server    *)
(* and the port pair in its config.  What ServersTable models of a row is  *)
(* left out here and conversely.                                           *)
(***************************************************************************)
EXTENDS PortPairs

CONSTANTS
    Users,      \* user names
    RootUser,   \* the configured name of the root user
    Servers,    \* server names
    None        \* "absent"

User == [root : BOOLEAN, admin : BOOLEAN, suspended : BOOLEAN, mustChange : BOOLEAN]
Server == [owner : Users, port : {0} \cup Pairs]

ASSUME UsersTableAssumption ==
    /\ RootUser \in Users
    /\ Users \cap Servers = {}
    /\ None \notin Users /\ None \notin Servers
    /\ None \notin User /\ None \notin Server

UserTables == [Users -> User \cup {None}]
ServerTables == [Servers -> Server \cup {None}]

NoUsers == [n \in Users |-> None]
NoServers == [s \in Servers |-> None]

----------------------------------------------------------------------------
(* Rows as the INSERT statements make them.                                *)
NewUser(admin) ==
    [root |-> FALSE, admin |-> admin, suspended |-> FALSE, mustChange |-> TRUE]

BootstrapAdmin(users) ==
    [users EXCEPT ![RootUser] =
        [root |-> TRUE, admin |-> TRUE, suspended |-> FALSE, mustChange |-> TRUE]]

(* What the UPDATE statements set.  UpdatePassword is the user's own, the  *)
(* others are an administrator's.                                          *)
UpdatePassword(user) == [user EXCEPT !.mustChange = FALSE]

Altered(op, user) ==
    CASE op = "suspend"       -> [user EXCEPT !.suspended = TRUE]
      [] op = "unsuspend"     -> [user EXCEPT !.suspended = FALSE]
      [] op = "promote"       -> [user EXCEPT !.admin = TRUE]
      [] op = "demote"        -> [user EXCEPT !.admin = FALSE]
      [] op = "resetPassword" -> [user EXCEPT !.mustChange = TRUE]

Alterations == {"suspend", "unsuspend", "promote", "demote", "resetPassword"}

\* Mutant: "WHERE username = ?".
NonRootAny(users, n) == users[n] # None

(* "WHERE username = ? AND is_root = 0".                                   *)
NonRoot(users, n) == users[n] # None /\ ~ users[n].root

(* ListServersByOwner, and what the foreign key on owner looks at.         *)
Owns(servers, n) == \E s \in Servers : servers[s] # None /\ servers[s].owner = n
=============================================================================
