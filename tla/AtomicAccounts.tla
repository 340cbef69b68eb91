--------------------------- MODULE AtomicAccounts ---------------------------
(***************************************************************************)
(* What the account operations promise: each takes effect at one moment,   *)
(* and at that moment what its handler has found out about rows, one       *)
(* statement at a time, is so: a new user's or server's name is free, a    *)
(* user who is altered or removed exists, is not root and, to be removed,  *)
(* owns nothing; a server goes to a user who exists.  Two things that      *)
(* handlers check earlier are not promised, since no statement asks again: *)
(* that the port of a new server is free (api.go:103), and that who        *)
(* transfers or configures a server owns it (api.go:337, 546).  And a      *)
(* reset of the database is not one step: servers, users, a new root.      *)
(***************************************************************************)
EXTENDS UsersTable

VARIABLES users, servers

tables == <<users, servers>>

Init == users = BootstrapAdmin(NoUsers) /\ servers = NoServers

AddUser(n) ==
    /\ users[n] = None
    /\ \E admin \in BOOLEAN : users' = [users EXCEPT ![n] = NewUser(admin)]
    /\ UNCHANGED servers

AlterUser(op, n) ==
    /\ NonRoot(users, n)
    /\ users' = [users EXCEPT ![n] = Altered(op, @)]
    /\ UNCHANGED servers

ChangePassword(n) ==
    /\ users[n] # None
    /\ users' = [users EXCEPT ![n] = UpdatePassword(@)]
    /\ UNCHANGED servers

RemoveUser(n) ==
    /\ NonRoot(users, n) /\ ~ Owns(servers, n)
    /\ users' = [users EXCEPT ![n] = None]
    /\ UNCHANGED servers

AddServer(s, owner, port) ==
    /\ servers[s] = None /\ users[owner] # None
    /\ servers' = [servers EXCEPT ![s] = [owner |-> owner, port |-> port]]
    /\ UNCHANGED users

Transfer(s, owner) ==
    /\ servers[s] # None /\ users[owner] # None
    /\ servers' = [servers EXCEPT ![s].owner = owner]
    /\ UNCHANGED users

SetPort(s, port) ==
    /\ servers[s] # None
    /\ servers' = [servers EXCEPT ![s].port = port]
    /\ UNCHANGED users

RemoveServer(s) ==
    /\ servers[s] # None
    /\ servers' = [servers EXCEPT ![s] = None]
    /\ UNCHANGED users

WipeServers == servers' = NoServers /\ UNCHANGED users

WipeUsers == servers = NoServers /\ users' = NoUsers /\ UNCHANGED servers

MakeRoot ==
    /\ users[RootUser] = None
    /\ users' = BootstrapAdmin(users)
    /\ UNCHANGED servers

Next ==
    \/ WipeServers \/ WipeUsers \/ MakeRoot
    \/ \E n \in Users :
          \/ AddUser(n) \/ ChangePassword(n) \/ RemoveUser(n)
          \/ \E op \in Alterations : AlterUser(op, n)
    \/ \E s \in Servers :
          \/ RemoveServer(s)
          \/ \E n \in Users : Transfer(s, n)
          \/ \E port \in {0} \cup Pairs :
                SetPort(s, port) \/ \E n \in Users : AddServer(s, n, port)

Spec == Init /\ [][Next]_tables
=============================================================================
