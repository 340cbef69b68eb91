--------------------------- MODULE AccountsProof ---------------------------
(***************************************************************************)
(* Theorems about Accounts, for any users, servers and number of handlers  *)
(* in flight.                                                              *)
(***************************************************************************)
EXTENDS Accounts, WellFoundedInduction, TLAPS

----------------------------------------------------------------------------
(* The choice of a port pair.                                              *)

LEMMA SmallestOfPairs ==
    ASSUME NEW S \in SUBSET Nat, S # {}
    PROVE  \E p \in S : \A q \in S : p <= q
<1> DEFINE less == {ss \in Nat \X Nat : ss[1] < ss[2]}
<1>1. IsWellFoundedOn(less, Nat)
  BY NatLessThanWellFounded DEF OpToRel
<1>2. \E p \in S : \A q \in S : ~ (<<q, p>> \in less)
  BY <1>1, WFMin
<1>3. \A p, q \in Nat : q < p => <<q, p>> \in less
  OBVIOUS
<1>4. PICK p \in S : \A q \in S : ~ (<<q, p>> \in less)
  BY <1>2
<1> HIDE DEF less
<1>5. \A q \in S : ~ (q < p)
  <2> TAKE q \in S
  <2> p \in Nat /\ q \in Nat
    OBVIOUS
  <2> QED
    BY <1>3, <1>4
<1> QED
  BY <1>5

(* allocateServerPort answers 0 or a pair of the range neither of whose    *)
(* ports is in use, and 0 only when there is no such pair.                 *)
THEOREM AllocatedPairIsFree ==
    ASSUME NEW rowPorts, NEW nodePorts
    PROVE  LET port == allocateServerPort(rowPorts, nodePorts) IN
           /\ port \in {0} \cup Pairs
           /\ port # 0 => /\ port \notin Occupied(rowPorts, nodePorts)
                          /\ port + 1 \notin Occupied(rowPorts, nodePorts)
           /\ port = 0 => FreePairs(rowPorts, nodePorts) = {}
<1> DEFINE free == FreePairs(rowPorts, nodePorts)
           port == allocateServerPort(rowPorts, nodePorts)
<1>1. /\ Pairs \subseteq Nat \ {0}
      /\ free \subseteq Pairs
      /\ \A p \in free : /\ p \notin Occupied(rowPorts, nodePorts)
                         /\ p + 1 \notin Occupied(rowPorts, nodePorts)
  BY PortPairsAssumption DEF Pairs, FreePairs
<1>2. CASE free = {}
  BY <1>2 DEF allocateServerPort
<1>3. CASE free # {}
  <2>1. \E p \in free : \A q \in free : p <= q
    BY <1>1, <1>3, SmallestOfPairs
  <2>2. port \in free
    BY <1>3, <2>1 DEF allocateServerPort
  <2> QED
    BY <1>1, <2>2
<1> QED
  BY <1>2, <1>3

----------------------------------------------------------------------------
(* Types.  First what the actions are put together from.                   *)

Flights == [Slots -> Request \cup {None}]

LEMMA TrackType ==
    ASSUME Track
    PROVE  /\ old' \in [Slots -> SUBSET (Users \cup Servers)]
           /\ overtaken' \subseteq Slots
BY DEF Track, Rows

LEMMA FlightSteps ==
    ASSUME flight \in Flights, NEW h \in Slots
    PROVE  /\ Done(h) => flight' \in Flights
           /\ \A at \in Statements : flight[h] # None /\ Goto(h, at) => flight' \in Flights
<1>1. Done(h) => flight' \in Flights
  BY DEF Done, Flights
<1>2. ASSUME NEW at \in Statements, flight[h] # None, Goto(h, at)
      PROVE  flight' \in Flights
  <2>1. flight[h] \in Request
    BY <1>2 DEF Flights
  <2>2. [flight[h] EXCEPT !.at = at] \in Request
    BY <2>1 DEF Request
  <2> QED
    BY <1>2, <2>2 DEF Goto, Flights
<1> QED
  BY <1>1, <1>2

LEMMA FlightPort ==
    ASSUME flight \in Flights, NEW h \in Slots, flight[h] # None,
           NEW at \in Statements, NEW port \in {0} \cup Pairs,
           flight' = [flight EXCEPT ![h].at = at, ![h].port = port]
    PROVE  /\ flight' \in Flights
           /\ flight'[h] = [flight[h] EXCEPT !.at = at, !.port = port]
           /\ \A g \in Slots \ {h} : flight'[g] = flight[g]
<1>1. flight[h] \in Request
  BY DEF Flights
<1>2. [flight[h] EXCEPT !.at = at, !.port = port] \in Request
  BY <1>1 DEF Request
<1>3. flight' = [flight EXCEPT ![h] = [flight[h] EXCEPT !.at = at, !.port = port]]
  BY <1>1 DEF Flights, Request
<1> QED
  BY <1>2, <1>3 DEF Flights

LEMMA UserRows ==
    ASSUME NEW us \in UserTables, NEW n \in Users
    PROVE  /\ BootstrapAdmin(us) \in UserTables /\ NoUsers \in UserTables
           /\ [us EXCEPT ![n] = None] \in UserTables
           /\ \A admin \in BOOLEAN : [us EXCEPT ![n] = NewUser(admin)] \in UserTables
           /\ us[n] # None => [us EXCEPT ![n] = UpdatePassword(@)] \in UserTables
           /\ \A op \in Alterations :
                us[n] # None => [us EXCEPT ![n] = Altered(op, @)] \in UserTables
<1>1. /\ [root |-> TRUE, admin |-> TRUE, suspended |-> FALSE, mustChange |-> TRUE] \in User
      /\ \A admin \in BOOLEAN : NewUser(admin) \in User
  BY DEF User, NewUser
<1>2. ASSUME us[n] # None
      PROVE  /\ UpdatePassword(us[n]) \in User
             /\ \A op \in Alterations : Altered(op, us[n]) \in User
  <2>1. us[n] \in User
    BY <1>2 DEF UserTables
  <2>2. UpdatePassword(us[n]) \in User
    BY <2>1 DEF User, UpdatePassword
  <2>3. /\ [us[n] EXCEPT !.suspended = TRUE] \in User
        /\ [us[n] EXCEPT !.suspended = FALSE] \in User
        /\ [us[n] EXCEPT !.admin = TRUE] \in User
        /\ [us[n] EXCEPT !.admin = FALSE] \in User
        /\ [us[n] EXCEPT !.mustChange = TRUE] \in User
    BY <2>1 DEF User
  <2> QED
    BY <2>2, <2>3 DEF Alterations, Altered
<1> QED
  BY <1>1, <1>2, UsersTableAssumption DEF UserTables, BootstrapAdmin, NoUsers

LEMMA ServerRows ==
    ASSUME NEW ss \in ServerTables, NEW s \in Servers, NEW n \in Users,
           NEW port \in {0} \cup Pairs
    PROVE  /\ NoServers \in ServerTables
           /\ [ss EXCEPT ![s] = None] \in ServerTables
           /\ [ss EXCEPT ![s] = [owner |-> n, port |-> port]] \in ServerTables
           /\ ss[s] # None => /\ [ss EXCEPT ![s].owner = n] \in ServerTables
                              /\ [ss EXCEPT ![s].port = port] \in ServerTables
<1>1. [owner |-> n, port |-> port] \in Server
  BY DEF Server
<1>2. ASSUME ss[s] # None
      PROVE  [ss[s] EXCEPT !.owner = n] \in Server /\ [ss[s] EXCEPT !.port = port] \in Server
  BY <1>2 DEF ServerTables, Server
<1> QED
  BY <1>1, <1>2 DEF ServerTables, NoServers

(* What each kind of step does to the tables and to the handlers, said     *)
(* once.  A step that only reads leaves the tables alone and moves or ends *)
(* its own handler.                                                        *)

LEMMA FirstType ==
    \A op \in AllOps : First(op) \in Statements
BY DEF First, AllOps, AdminOps, PortOps, Alterations, Statements

LEMMA ArrivalTypes ==
    ASSUME AccountsTypeOK, NEW h \in Slots, Arrivals(h)
    PROVE  /\ UNCHANGED tables /\ Track
           /\ flight' \in Flights
<1>1. PICK op \in Ops, n \in Users :
        \E user \in IF NamesUser(op) THEN Users ELSE {None},
           server \in IF NamesServer(op) THEN Servers ELSE {None} :
              Arrive(h, op, n, user, server)
  BY DEF Arrivals
<1>2. PICK user \in IF NamesUser(op) THEN Users ELSE {None},
           server \in IF NamesServer(op) THEN Servers ELSE {None} :
              Arrive(h, op, n, user, server)
  BY <1>1
<1>3. op \in AllOps /\ First(op) \in Statements
  BY RequestAssumption, FirstType
<1>4. users[n] \in User
  BY <1>2 DEF AccountsTypeOK, UserTables, Arrive, AuthMiddleware
<1>5. user \in Users \cup {None} /\ server \in Servers \cup {None}
  OBVIOUS
<1>6. (ChecksOwner(op) /\ users[n].admin) \in BOOLEAN
  OBVIOUS
<1>7. [op |-> op, at |-> First(op),
       who |-> IF UsesActor(op) \/ (ChecksOwner(op) /\ ~ users[n].admin) THEN n ELSE None,
       isAdmin |-> ChecksOwner(op) /\ users[n].admin,
       user |-> user, server |-> server, port |-> 0] \in Request
  BY <1>3, <1>5, <1>6, Zenon DEF Request
<1>8. flight' \in Flights
  BY <1>2, <1>7 DEF Arrive, AccountsTypeOK, Flights
<1> QED
  BY <1>2, <1>8 DEF Arrive

LEMMA ReadTypes ==
    ASSUME AccountsTypeOK, NEW h \in Slots, flight[h] # None,
           NEW good, NEW next \in Statements, Read(h, good, next)
    PROVE  UNCHANGED tables /\ Track /\ flight' \in Flights
BY FlightSteps DEF Read, AccountsTypeOK, Flights

LEMMA WriteUsersTypes ==
    ASSUME AccountsTypeOK, NEW h \in Slots, NEW us \in UserTables, WriteUsers(h, us)
    PROVE  AccountsTypeOK'
BY FlightSteps, TrackType DEF WriteUsers, AccountsTypeOK, Flights

LEMMA WriteServersTypes ==
    ASSUME AccountsTypeOK, NEW h \in Slots, NEW ss \in ServerTables, WriteServers(h, ss)
    PROVE  AccountsTypeOK'
BY FlightSteps, TrackType DEF WriteServers, AccountsTypeOK, Flights

LEMMA QuietTypes ==
    ASSUME AccountsTypeOK, UNCHANGED tables, Track, flight' \in Flights
    PROVE  AccountsTypeOK'
BY TrackType DEF tables, AccountsTypeOK, Flights

LEMMA UserWriteTypes ==
    ASSUME AccountsTypeOK, NEW h \in Slots,
           \/ InsertUser(h) \/ DeleteUser(h) \/ AlterUser(h) \/ ChangePassword(h)
           \/ ResetRoot(h)
    PROVE  AccountsTypeOK'
<1> USE DEF At
<1>1. flight[h] # None /\ flight[h] \in Request /\ users \in UserTables
  BY DEF InsertUser, DeleteUser, AlterUser, ChangePassword, ResetRoot, AccountsTypeOK
<1>2. CASE InsertUser(h)
  <2>1. flight[h].user \in Users
    BY <1>1, <1>2 DEF InsertUser, Request, NamesUser, AdminOps
  <2>2. \E us \in UserTables : WriteUsers(h, us)
    BY <1>1, <1>2, <2>1, UserRows DEF InsertUser
  <2> QED
    BY <2>2, WriteUsersTypes
<1>3. CASE DeleteUser(h)
  <2>1. flight[h].user \in Users
    BY <1>1, <1>3 DEF DeleteUser, Request, NamesUser, AdminOps
  <2>2. \E us \in UserTables : WriteUsers(h, us)
    BY <1>1, <1>3, <2>1, UserRows DEF DeleteUser
  <2> QED
    BY <2>2, WriteUsersTypes
<1>4. CASE AlterUser(h)
  <2>1. flight[h].user \in Users /\ flight[h].op \in Alterations
    BY <1>1, <1>4 DEF AlterUser, Request, NamesUser, AdminOps
  <2>2. \E us \in UserTables : WriteUsers(h, us)
    BY <1>1, <1>4, <2>1, UserRows DEF AlterUser, NonRoot
  <2> QED
    BY <2>2, WriteUsersTypes
<1>5. CASE ChangePassword(h)
  <2>1. flight[h].who \in Users
    BY <1>1, <1>5 DEF ChangePassword, Request, UsesActor
  <2>2. \E us \in UserTables : WriteUsers(h, us)
    BY <1>1, <1>5, <2>1, UserRows DEF ChangePassword
  <2> QED
    BY <2>2, WriteUsersTypes
<1>6. CASE ResetRoot(h)
  <2>2. \E us \in UserTables : WriteUsers(h, us)
    BY <1>1, <1>6, UserRows, UsersTableAssumption DEF ResetRoot
  <2> QED
    BY <2>2, WriteUsersTypes
<1> QED
  BY <1>2, <1>3, <1>4, <1>5, <1>6

LEMMA ServerWriteTypes ==
    ASSUME AccountsTypeOK, NEW h \in Slots,
           TransferServer(h) \/ InsertServer(h) \/ UpdateServerConfig(h)
    PROVE  AccountsTypeOK'
<1> USE DEF At
<1>1. flight[h] # None /\ flight[h] \in Request /\ servers \in ServerTables
  BY DEF TransferServer, InsertServer, UpdateServerConfig, AccountsTypeOK
<1>2. flight[h].port \in {0} \cup Pairs
  BY <1>1 DEF Request
<1>3. CASE TransferServer(h)
  <2>1. flight[h].user \in Users /\ flight[h].server \in Servers
    BY <1>1, <1>3 DEF TransferServer, Request, NamesUser, NamesServer
  <2>2. \E ss \in ServerTables : WriteServers(h, ss)
    BY <1>1, <1>2, <1>3, <2>1, ServerRows DEF TransferServer
  <2> QED
    BY <2>2, WriteServersTypes
<1>4. CASE InsertServer(h)
  <2>1. flight[h].who \in Users /\ flight[h].server \in Servers
    BY <1>1, <1>4 DEF InsertServer, Request, UsesActor, NamesServer, PortOps
  <2>2. \E ss \in ServerTables : WriteServers(h, ss)
    BY <1>1, <1>2, <1>4, <2>1, ServerRows DEF InsertServer
  <2> QED
    BY <2>2, WriteServersTypes
<1>5. CASE UpdateServerConfig(h)
  <2>1. flight[h].server \in Servers
    BY <1>1, <1>5 DEF UpdateServerConfig, Request, NamesServer, PortOps
  <2>2. \E ss \in ServerTables : WriteServers(h, ss)
    BY <1>1, <1>2, <1>5, <2>1, ServerRows, UsersTableAssumption DEF UpdateServerConfig
  <2> QED
    BY <2>2, WriteServersTypes
<1> QED
  BY <1>3, <1>4, <1>5

(* The steps of a handler that leave the tables as they are.               *)
Reads(h) ==
    \/ LookupNewName(h) \/ ListOwned(h) \/ CheckRoot(h)
    \/ LookupNewOwner(h) \/ TransferredExists(h) \/ NewServerExists(h)

(* The steps that read a server and decide whether the user may change it. *)
Decides(h) == GetTransferred(h) \/ GetConfigured(h)

LEMMA DecidingSteps ==
    ASSUME AccountsTypeOK, NEW h \in Slots, Decides(h)
    PROVE  /\ flight[h] # None /\ flight[h] \in Request /\ flight[h].server \in Servers
           /\ flight[h].op \in {"transfer", "config"}
           /\ UNCHANGED tables /\ Track
           /\ flight' \in Flights
           /\ \A g \in Slots \ {h} : flight'[g] = flight[g]
           /\ \/ flight'[h] = None
              \/ /\ flight'[h].op = flight[h].op
                 /\ flight'[h].server = flight[h].server
                 /\ flight[h].op = "config" =>
                       /\ servers[flight[h].server] # None
                       /\ flight'[h].port = servers[flight[h].server].port
<1> USE DEF At
<1> DEFINE r == flight[h]
<1>1. flight \in Flights
  BY DEF AccountsTypeOK, Flights
<1>2. /\ r # None /\ r \in Request /\ r.op \in {"transfer", "config"}
      /\ UNCHANGED tables /\ Track
  BY <1>1 DEF Decides, GetTransferred, GetConfigured, Flights
<1>3. r.server \in Servers
  BY <1>2 DEF Request, NamesServer, PortOps
<1>4. CASE Done(h)
  BY <1>1, <1>2, <1>3, <1>4, FlightSteps DEF Done, Flights
<1>5. CASE ~ Done(h)
  <2>1. PICK next \in Statements, port \in {0} \cup Pairs :
          /\ flight' = [flight EXCEPT ![h] = Permitted(r, next, port)]
          /\ r.op = "config" => servers[r.server] # None /\ port = servers[r.server].port
    <3>1. {"lookup", "write"} \subseteq Statements /\ 0 \in {0} \cup Pairs
      BY DEF Statements
    <3>2. CASE GetTransferred(h)
      BY <1>5, <3>1, <3>2 DEF GetTransferred
    <3>3. CASE GetConfigured(h)
      <4>1. /\ servers[r.server] # None
            /\ flight' = [flight EXCEPT ![h] = Permitted(r, "write", servers[r.server].port)]
        BY <1>5, <3>3 DEF GetConfigured, MayChange
      <4>2. servers[r.server].port \in {0} \cup Pairs
        BY <1>3, <4>1 DEF AccountsTypeOK, ServerTables, Server
      <4> QED
        BY <3>1, <4>1, <4>2
    <3> QED
      BY <3>2, <3>3 DEF Decides
  <2>2. /\ Permitted(r, next, port) \in Request
        /\ Permitted(r, next, port).op = r.op
        /\ Permitted(r, next, port).server = r.server
        /\ Permitted(r, next, port).port = port
    BY <1>2 DEF Permitted, Request, UsesActor
  <2> HIDE DEF r
  <2>3. /\ flight'[h] = Permitted(r, next, port)
        /\ \A g \in Slots \ {h} : flight'[g] = flight[g]
        /\ flight' \in Flights
    BY <1>1, <2>1, <2>2 DEF Flights
  <2> QED
    BY <1>2, <1>3, <2>1, <2>2, <2>3 DEF r
<1> QED
  BY <1>4, <1>5

LEMMA QuietSteps ==
    ASSUME AccountsTypeOK, NEW h \in Slots,
           \/ Arrivals(h) \/ GiveUp(h) \/ Reads(h) \/ PickPort(h) \/ Decides(h)
    PROVE  /\ UNCHANGED tables /\ Track
           /\ AccountsTypeOK'
<1> USE DEF At
<1>1. flight \in Flights
  BY DEF AccountsTypeOK, Flights
<1>2. CASE Arrivals(h)
  BY <1>2, ArrivalTypes, QuietTypes
<1>3. CASE GiveUp(h)
  <2>1. UNCHANGED tables /\ Track /\ flight' \in Flights
    BY <1>1, <1>3, FlightSteps DEF GiveUp
  <2> QED
    BY <2>1, QuietTypes
<1>4. CASE Reads(h)
  <2>1. flight[h] # None /\ \E good, next : next \in Statements /\ Read(h, good, next)
    BY <1>4 DEF Reads, LookupNewName, ListOwned, CheckRoot, LookupNewOwner,
                TransferredExists, NewServerExists, Statements
  <2> QED
    BY <2>1, ReadTypes, QuietTypes
<1>5. CASE PickPort(h)
  <2>1. UNCHANGED tables /\ Track
    BY <1>5 DEF PickPort
  <2>2. flight' \in Flights
    <3>1. CASE Done(h)
      BY <1>1, <3>1, FlightSteps
    <3>2. CASE ~ Done(h)
      <4>1. PICK nodePorts \in SUBSET (Pairs \ RowPorts) :
              flight' = [flight EXCEPT ![h].at = "exists",
                                       ![h].port = allocateServerPort(RowPorts, nodePorts)]
        BY <1>5, <3>2 DEF PickPort
      <4>2. allocateServerPort(RowPorts, nodePorts) \in {0} \cup Pairs
        BY AllocatedPairIsFree
      <4>3. flight[h] # None /\ "exists" \in Statements
        BY <1>5 DEF PickPort, Statements
      <4> HIDE DEF allocateServerPort
      <4> QED
        BY <1>1, <4>1, <4>2, <4>3, FlightPort
    <3> QED
      BY <3>1, <3>2
  <2> QED
    BY <2>1, <2>2, QuietTypes
<1>6. CASE Decides(h)
  BY <1>6, DecidingSteps, QuietTypes
<1> QED
  BY <1>2, <1>3, <1>4, <1>5, <1>6

LEMMA ResetTypes ==
    ASSUME AccountsTypeOK, NEW h \in Slots, ResetServers(h) \/ ResetUsers(h)
    PROVE  AccountsTypeOK'
<1> USE DEF At
<1>1. /\ flight \in Flights /\ flight[h] # None
      /\ {"wipeUsers", "bootstrap"} \subseteq Statements
  BY DEF AccountsTypeOK, Flights, ResetServers, ResetUsers, Statements
<1>2. NoUsers \in UserTables /\ NoServers \in ServerTables
  BY DEF NoUsers, NoServers, UserTables, ServerTables
<1>3. Track /\ users' \in UserTables /\ servers' \in ServerTables
  BY <1>2 DEF ResetServers, ResetUsers, AccountsTypeOK
<1>4. flight' \in Flights
  BY <1>1, FlightSteps DEF ResetServers, ResetUsers
<1> QED
  BY <1>3, <1>4, TrackType DEF AccountsTypeOK, Flights

LEMMA OutsideTypes ==
    ASSUME AccountsTypeOK,
           \/ \E s \in Servers : DropRow(s) \/ InsertOrphanTombstone(s)
           \/ Restart
    PROVE  AccountsTypeOK'
<1>1. CASE \E s \in Servers : DropRow(s) \/ InsertOrphanTombstone(s)
  <2>1. PICK s \in Servers : DropRow(s) \/ InsertOrphanTombstone(s)
    BY <1>1
  <2>2. servers' \in ServerTables
    <3>1. servers \in ServerTables /\ RootUser \in Users /\ 0 \in {0} \cup Pairs
      BY UsersTableAssumption DEF AccountsTypeOK
    <3>2. /\ [servers EXCEPT ![s] = None] \in ServerTables
          /\ [servers EXCEPT ![s] = [owner |-> RootUser, port |-> 0]] \in ServerTables
      BY <3>1, ServerRows
    <3> QED
      BY <2>1, <3>2 DEF DropRow, InsertOrphanTombstone
  <2>3. UNCHANGED <<users, flight>> /\ Track
    BY <2>1 DEF DropRow, InsertOrphanTombstone
  <2> QED
    BY <2>2, <2>3, TrackType DEF AccountsTypeOK
<1>2. CASE Restart
  <2>1. users' \in UserTables
    BY <1>2, UserRows, UsersTableAssumption DEF Restart, AccountsTypeOK
  <2>2. flight' \in [Slots -> Request \cup {None}] /\ UNCHANGED servers /\ Track
    BY <1>2 DEF Restart
  <2> QED
    BY <2>1, <2>2, TrackType DEF AccountsTypeOK
<1> QED
  BY <1>1, <1>2

(* The next-state relation, sorted the way the proofs go through it.       *)
LEMMA StepKinds ==
    ASSUME Next
    PROVE  \/ \E h \in Slots :
                \/ Arrivals(h) \/ GiveUp(h) \/ Reads(h) \/ PickPort(h) \/ Decides(h)
                \/ InsertUser(h) \/ DeleteUser(h) \/ AlterUser(h) \/ ChangePassword(h)
                \/ TransferServer(h) \/ InsertServer(h) \/ UpdateServerConfig(h)
                \/ ResetServers(h) \/ ResetUsers(h) \/ ResetRoot(h)
           \/ \E s \in Servers : DropRow(s) \/ InsertOrphanTombstone(s)
           \/ Restart
BY DEF Next, Handler, Reads, Decides

LEMMA TypeStep ==
    ASSUME AccountsTypeOK, [Next]_vars
    PROVE  AccountsTypeOK'
<1>1. CASE UNCHANGED vars
  BY <1>1 DEF vars, AccountsTypeOK
<1>2. CASE Next
  BY <1>2, StepKinds, QuietSteps, UserWriteTypes, ServerWriteTypes, ResetTypes, OutsideTypes
<1> QED
  BY <1>1, <1>2

LEMMA TypeInit == Init => AccountsTypeOK
<1>1. NoUsers \in UserTables /\ NoServers \in ServerTables
  BY DEF NoUsers, NoServers, UserTables, ServerTables
<1>2. BootstrapAdmin(NoUsers) \in UserTables
  BY <1>1, UserRows, UsersTableAssumption
<1> QED
  BY <1>1, <1>2 DEF Init, AccountsTypeOK

(* Every variable keeps its type, and a handler in flight has the          *)
(* arguments of its kind.                                                  *)
THEOREM AccountsTyped == Spec => []AccountsTypeOK
BY TypeInit, TypeStep, PTL DEF Spec

----------------------------------------------------------------------------
(* The root user.  Tables go through the statements' own guards.           *)

LEMMA OneRootStep ==
    ASSUME AccountsTypeOK, OneRoot, [Next]_vars
    PROVE  /\ OneRoot'
           /\ IsRoot(users, RootUser) => IsRoot(users', RootUser) \/ users' = NoUsers
<1> USE DEF At
<1>1. users \in UserTables /\ flight \in Flights
  BY DEF AccountsTypeOK, Flights
<1> DEFINE Good == /\ OneRoot'
                   /\ IsRoot(users, RootUser) => IsRoot(users', RootUser) \/ users' = NoUsers
<1>2. CASE UNCHANGED users
  BY <1>2 DEF OneRoot, IsRoot
<1>3. ASSUME NEW n \in Users, NEW row,
             users' = [users EXCEPT ![n] = row],
             ~ IsRoot(users, n),
             row # None => ~ row.root
      PROVE  Good
  BY <1>1, <1>3 DEF OneRoot, IsRoot, UserTables
<1>4. ASSUME users' = BootstrapAdmin(users)
      PROVE  Good
  <2> DEFINE row == [root |-> TRUE, admin |-> TRUE, suspended |-> FALSE, mustChange |-> TRUE]
  <2>1. users' = [users EXCEPT ![RootUser] = row]
    BY <1>4 DEF BootstrapAdmin
  <2>2. row # None /\ row.root /\ row.admin /\ ~ row.suspended
    <3>1. row \in User
      BY DEF User
    <3>2. row # None
      <4> HIDE DEF row
      <4> QED
        BY <3>1, UsersTableAssumption
    <3> QED
      BY <3>2
  <2> HIDE DEF row
  <2>3. \A n \in Users : users'[n] = IF n = RootUser THEN row ELSE users[n]
    BY <1>1, <2>1 DEF UserTables
  <2> QED
    BY <2>2, <2>3, UsersTableAssumption DEF OneRoot, IsRoot
<1>5. ASSUME NEW h \in Slots, InsertUser(h)
      PROVE  Good
  <2>1. flight[h].user \in Users
    BY <1>1, <1>5 DEF InsertUser, Flights, Request, NamesUser, AdminOps
  <2>2. CASE users[flight[h].user] # None
    BY <1>2, <1>5, <2>2 DEF InsertUser, WriteUsers
  <2>3. CASE users[flight[h].user] = None
    <3>1. PICK admin \in BOOLEAN :
            users' = [users EXCEPT ![flight[h].user] = NewUser(admin)]
      BY <1>5, <2>3 DEF InsertUser, WriteUsers
    <3> QED
      BY <1>3, <2>1, <2>3, <3>1 DEF IsRoot, NewUser
  <2> QED
    BY <2>2, <2>3
<1>6. ASSUME NEW h \in Slots, DeleteUser(h)
      PROVE  Good
  <2>1. flight[h].user \in Users
    BY <1>1, <1>6 DEF DeleteUser, Flights, Request, NamesUser, AdminOps
  <2> QED
    BY <1>2, <1>3, <1>6, <2>1 DEF DeleteUser, WriteUsers, NonRoot, IsRoot
<1>7. ASSUME NEW h \in Slots, AlterUser(h)
      PROVE  Good
  <2>1. flight[h].user \in Users /\ flight[h].op \in Alterations
    BY <1>1, <1>7 DEF AlterUser, Flights, Request, NamesUser, AdminOps
  <2>2. CASE ~ NonRoot(users, flight[h].user)
    BY <1>2, <1>7, <2>2 DEF AlterUser, WriteUsers
  <2>3. CASE NonRoot(users, flight[h].user)
    <3> DEFINE row == users[flight[h].user]
    <3>1. row \in User /\ ~ row.root
      BY <1>1, <2>1, <2>3 DEF NonRoot, UserTables
    <3>2. ~ Altered(flight[h].op, row).root
      BY <2>1, <3>1 DEF Altered, Alterations, User
    <3>3. users' = [users EXCEPT ![flight[h].user] = Altered(flight[h].op, row)]
      BY <1>7, <2>3 DEF AlterUser, WriteUsers
    <3> QED
      BY <1>3, <2>1, <2>3, <3>2, <3>3 DEF NonRoot, IsRoot
  <2> QED
    BY <2>2, <2>3
<1>8. ASSUME NEW h \in Slots, ChangePassword(h)
      PROVE  Good
  <2> DEFINE n == flight[h].who
  <2>1. n \in Users
    BY <1>1, <1>8 DEF ChangePassword, Flights, Request, UsesActor
  <2>2. CASE users[n] = None
    BY <1>2, <1>8, <2>2 DEF ChangePassword, WriteUsers
  <2>3. CASE users[n] # None
    <3>1. users' = [users EXCEPT ![n] = UpdatePassword(users[n])]
      BY <1>8, <2>3 DEF ChangePassword, WriteUsers
    <3>2. users[n] \in User
      BY <1>1, <2>1, <2>3 DEF UserTables
    <3>3. /\ UpdatePassword(users[n]).root = users[n].root
          /\ UpdatePassword(users[n]).admin = users[n].admin
          /\ UpdatePassword(users[n]).suspended = users[n].suspended
          /\ UpdatePassword(users[n]) \in User
      BY <3>2 DEF UpdatePassword, User
    <3> HIDE DEF n
    <3> QED
      BY <1>1, <2>1, <2>3, <3>1, <3>3, UsersTableAssumption
         DEF OneRoot, IsRoot, UserTables
  <2> QED
    BY <2>2, <2>3
<1>9. ASSUME NEW h \in Slots, ResetServers(h) \/ ResetUsers(h) \/ ResetRoot(h)
      PROVE  Good
  <2>1. \/ UNCHANGED users \/ users' = NoUsers \/ users' = BootstrapAdmin(users)
    BY <1>9 DEF ResetServers, ResetUsers, ResetRoot, WriteUsers
  <2> QED
    BY <1>2, <1>4, <2>1 DEF OneRoot, IsRoot, NoUsers
<1>10. ASSUME NEW h \in Slots,
              TransferServer(h) \/ InsertServer(h) \/ UpdateServerConfig(h)
       PROVE  Good
  BY <1>2, <1>10 DEF TransferServer, InsertServer, UpdateServerConfig, WriteServers
<1>11. ASSUME NEW h \in Slots,
              \/ Arrivals(h) \/ GiveUp(h) \/ Reads(h) \/ PickPort(h) \/ Decides(h)
       PROVE  Good
  BY <1>2, <1>11, QuietSteps DEF tables
<1>12. ASSUME Restart
       PROVE  Good
  BY <1>2, <1>4, <1>12 DEF Restart
<1>13. ASSUME NEW s \in Servers, DropRow(s) \/ InsertOrphanTombstone(s)
       PROVE  Good
  BY <1>2, <1>13 DEF DropRow, InsertOrphanTombstone
<1>14. CASE UNCHANGED vars
  BY <1>2, <1>14 DEF vars
<1> QED
  BY <1>5, <1>6, <1>7, <1>8, <1>9, <1>10, <1>11, <1>12, <1>13, <1>14, StepKinds

LEMMA OneRootInit == Init => OneRoot
BY UsersTableAssumption DEF Init, OneRoot, IsRoot, BootstrapAdmin, NoUsers

(* There is never a root user other than the configured one, and that one  *)
(* is an administrator and not suspended, whoever asked for what.          *)
THEOREM RootIsUnique == Spec => []OneRoot
BY OneRootInit, OneRootStep, TypeInit, TypeStep, PTL DEF Spec

(* The root user's row goes only with the whole table.                     *)
THEOREM RootStays == Spec => RootStaysPut
BY OneRootInit, OneRootStep, TypeInit, TypeStep, PTL DEF Spec, RootStaysPut

----------------------------------------------------------------------------
(* The reset.  A handler gets to the reset's last statement only by the    *)
(* one before, which leaves both tables empty; from then on nothing        *)
(* becomes old.                                                            *)

LEMMA EveryStepTracks ==
    ASSUME Next
    PROVE  Track
<1>1. ASSUME NEW h \in Slots, Handler(h)
      PROVE  Track
  <2>1. Arrivals(h) \/ GiveUp(h) \/ PickPort(h) \/ Decides(h) => Track
    BY DEF Arrivals, Arrive, GiveUp, PickPort, Decides, GetTransferred, GetConfigured
  <2>2. Reads(h) => Track
    BY DEF Reads, LookupNewName, ListOwned, CheckRoot, LookupNewOwner,
           TransferredExists, NewServerExists, Read
  <2>3. InsertUser(h) \/ DeleteUser(h) \/ AlterUser(h) \/ ChangePassword(h) => Track
    BY DEF InsertUser, DeleteUser, AlterUser, ChangePassword, WriteUsers
  <2>4. TransferServer(h) \/ InsertServer(h) \/ UpdateServerConfig(h) => Track
    BY DEF TransferServer, InsertServer, UpdateServerConfig, WriteServers
  <2>5. ResetServers(h) \/ ResetUsers(h) \/ ResetRoot(h) => Track
    BY DEF ResetServers, ResetUsers, ResetRoot, WriteUsers
  <2> QED
    BY <1>1, <2>1, <2>2, <2>3, <2>4, <2>5 DEF Handler, Reads, Decides
<1> QED
  BY <1>1 DEF Next, DropRow, InsertOrphanTombstone, Restart

(* What a step of the handler at h can make of it, and that it leaves the  *)
(* others alone.                                                           *)
LEMMA OwnMoves ==
    ASSUME AccountsTypeOK, NEW h \in Slots, Handler(h)
    PROVE  /\ \A g \in Slots \ {h} : flight'[g] = flight[g]
           /\ \/ flight'[h] = None
              \/ Arrivals(h) /\ flight[h] = None
              \/ /\ flight[h] # None /\ Reads(h)
                 /\ \E at \in {"lookup", "isRoot", "exists", "write"} :
                       flight'[h] = [flight[h] EXCEPT !.at = at]
              \/ PickPort(h) \/ Decides(h)
              \/ ResetServers(h) /\ flight'[h] = [flight[h] EXCEPT !.at = "wipeUsers"]
              \/ ResetUsers(h) /\ flight'[h] = [flight[h] EXCEPT !.at = "bootstrap"]
<1> USE DEF At
<1>1. flight \in Flights
  BY DEF AccountsTypeOK, Flights
<1>2. ASSUME Done(h)
      PROVE  flight'[h] = None /\ \A g \in Slots \ {h} : flight'[g] = flight[g]
  BY <1>1, <1>2 DEF Done, Flights
<1>3. ASSUME NEW at, Goto(h, at)
      PROVE  /\ flight'[h] = [flight[h] EXCEPT !.at = at]
             /\ \A g \in Slots \ {h} : flight'[g] = flight[g]
  BY <1>1, <1>3 DEF Goto, Flights
<1>4. CASE Arrivals(h)
  <2>1. flight[h] = None /\ \E r : flight' = [flight EXCEPT ![h] = r]
    BY <1>4 DEF Arrivals, Arrive
  <2> QED
    BY <1>1, <1>4, <2>1 DEF Flights
<1>5. CASE Reads(h)
  <2>1. /\ flight[h] # None
        /\ Done(h) \/ \E at \in {"lookup", "isRoot", "exists", "write"} : Goto(h, at)
    BY <1>5 DEF Reads, LookupNewName, ListOwned, CheckRoot, LookupNewOwner,
                TransferredExists, NewServerExists, Read
  <2> QED
    BY <1>2, <1>3, <1>5, <2>1
<1>6. CASE PickPort(h)
  <2>1. CASE Done(h)
    BY <1>2, <1>6, <2>1
  <2>2. CASE ~ Done(h)
    <3>1. \E at, port : flight' = [flight EXCEPT ![h].at = at, ![h].port = port]
      <4> HIDE DEF allocateServerPort
      <4> QED
        BY <1>6, <2>2 DEF PickPort
    <3> QED
      BY <1>1, <1>6, <3>1 DEF Flights
  <2> QED
    BY <2>1, <2>2
<1>7. CASE Decides(h)
  BY <1>7, DecidingSteps
<1>8. CASE ResetServers(h)
  BY <1>3, <1>8 DEF ResetServers
<1>9. CASE ResetUsers(h)
  BY <1>2, <1>3, <1>9 DEF ResetUsers
<1>10. CASE \/ GiveUp(h) \/ InsertUser(h) \/ DeleteUser(h) \/ AlterUser(h)
           \/ ChangePassword(h) \/ TransferServer(h) \/ InsertServer(h)
           \/ UpdateServerConfig(h) \/ ResetRoot(h)
  <2>1. Done(h)
    BY <1>10 DEF GiveUp, InsertUser, DeleteUser, AlterUser, ChangePassword, TransferServer,
                InsertServer, UpdateServerConfig, ResetRoot, WriteUsers, WriteServers
  <2> QED
    BY <1>2, <2>1
<1> QED
  BY <1>4, <1>5, <1>6, <1>7, <1>8, <1>9, <1>10 DEF Handler, Reads, Decides

LEMMA ResetWipesStep ==
    ASSUME AccountsTypeOK, ResetWipes, [Next]_vars
    PROVE  ResetWipes'
<1> USE DEF At
<1>1. SUFFICES ASSUME Next, NEW h \in Slots, flight'[h] # None,
                      flight'[h].op = "reset", flight'[h].at = "bootstrap"
               PROVE  old'[h] = {}
  <2>1. CASE UNCHANGED vars
    BY <2>1 DEF vars, ResetWipes
  <2> QED
    BY <2>1 DEF ResetWipes
<1>2. Track
  BY <1>1, EveryStepTracks
<1>3. flight \in Flights
  BY DEF AccountsTypeOK, Flights
<1>4. CASE flight'[h] = flight[h]
  <2>1. old[h] = {}
    BY <1>1, <1>4 DEF ResetWipes
  <2> QED
    BY <1>1, <1>2, <1>4, <2>1 DEF Track, Resetting
<1>5. CASE ResetUsers(h) /\ flight'[h] # None
  <2>1. servers = NoServers /\ users' = NoUsers /\ servers' = NoServers
    BY <1>3, <1>5 DEF ResetUsers, Done, Flights
  <2>2. Rows(users', servers') = {}
    BY <2>1 DEF Rows, NoUsers, NoServers
  <2> QED
    BY <1>1, <1>2, <2>2 DEF Track
<1>6. ASSUME NEW g \in Slots, Handler(g)
      PROVE  flight'[h] = flight[h] \/ ResetUsers(h)
  <2>1. CASE g # h
    BY <1>6, <2>1, OwnMoves
  <2>2. CASE g = h
    <3>1. flight[h] # None => flight[h] \in Request
      BY <1>3 DEF Flights
    <3>2. CASE Arrivals(h) /\ flight[h] = None
      <4>1. \E op \in Ops : flight'[h].at = First(op)
        BY <1>3, <3>2 DEF Arrivals, Arrive, Flights
      <4> QED
        BY <1>1, <4>1, RequestAssumption
           DEF First, AllOps, AdminOps, PortOps, Alterations
    <3>3. ASSUME flight[h] # None,
                 NEW at \in {"lookup", "isRoot", "exists", "write", "wipeUsers"},
                 flight'[h] = [flight[h] EXCEPT !.at = at]
          PROVE  FALSE
      BY <1>1, <3>1, <3>3 DEF Request
    <3>4. CASE PickPort(h)
      <4>1. flight[h] # None /\ flight[h].op # "reset"
        BY <3>4 DEF PickPort
      <4>2. flight'[h] = None \/ flight'[h].op = flight[h].op
        <5>1. CASE Done(h)
          BY <1>3, <5>1 DEF Done, Flights
        <5>2. CASE ~ Done(h)
          <6>1. \E at, port : flight' = [flight EXCEPT ![h].at = at, ![h].port = port]
            <7> HIDE DEF allocateServerPort
            <7> QED
              BY <3>4, <5>2 DEF PickPort
          <6> QED
            BY <1>3, <3>1, <4>1, <6>1 DEF Flights, Request
        <5> QED
          BY <5>1, <5>2
      <4> QED
        BY <1>1, <4>1, <4>2
    <3>5. CASE Decides(h)
      BY <1>1, <3>5, DecidingSteps
    <3>6. ResetServers(h) => flight[h] # None
      BY DEF ResetServers
    <3> QED
      BY <1>1, <1>6, <2>2, <3>2, <3>3, <3>4, <3>5, <3>6, OwnMoves
  <2> QED
    BY <2>1, <2>2
<1>7. CASE \/ \E s \in Servers : DropRow(s) \/ InsertOrphanTombstone(s)
           \/ Restart
  <2>1. flight'[h] = flight[h] \/ flight'[h] = None
    BY <1>7 DEF DropRow, InsertOrphanTombstone, Restart
  <2> QED
    BY <1>1, <1>4, <2>1
<1> QED
  BY <1>1, <1>4, <1>5, <1>6, <1>7 DEF Next

(* When a reset goes on to make the new root user, nothing that was there  *)
(* when it began is left.                                                  *)
THEOREM ResetsWipe == Spec => []ResetWipes
<1>1. Init => ResetWipes
  BY DEF Init, ResetWipes, At
<1> QED
  BY <1>1, ResetWipesStep, TypeInit, TypeStep, PTL DEF Spec

----------------------------------------------------------------------------
(* The refinement.  The initial states are the same; a step that only      *)
(* reads is a stutter; a handler's last statement is one atomic operation, *)
(* because what it has read of the existence of rows, of root and of the   *)
(* servers a user owns is asked for again by the statement itself or by a  *)
(* constraint of the table.  A free port and the permission are not, and   *)
(* the atomic operations do not ask for them.                              *)

LEMMA UserWritesAreAtomic ==
    ASSUME AccountsTypeOK, NEW h \in Slots,
           \/ InsertUser(h) \/ DeleteUser(h) \/ AlterUser(h) \/ ChangePassword(h)
           \/ ResetUsers(h) \/ ResetRoot(h)
    PROVE  Atomic!Next \/ UNCHANGED tables
<1> USE DEF At, tables
<1>1. /\ flight[h] # None /\ flight[h] \in Request
  BY DEF InsertUser, DeleteUser, AlterUser, ChangePassword, ResetUsers, ResetRoot,
         AccountsTypeOK
<1>2. CASE InsertUser(h)
  <2>1. flight[h].user \in Users
    BY <1>1, <1>2 DEF Request, NamesUser, AdminOps, InsertUser
  <2>2. UNCHANGED tables \/ Atomic!AddUser(flight[h].user)
    BY <1>2 DEF InsertUser, WriteUsers, Atomic!AddUser, NewUser, Atomic!NewUser
  <2> QED
    BY <2>1, <2>2 DEF Atomic!Next
<1>3. CASE DeleteUser(h)
  <2>1. flight[h].user \in Users
    BY <1>1, <1>3 DEF Request, NamesUser, AdminOps, DeleteUser
  <2>2. UNCHANGED tables \/ Atomic!RemoveUser(flight[h].user)
    BY <1>3 DEF DeleteUser, WriteUsers, Atomic!RemoveUser, NonRoot, Atomic!NonRoot,
                Owns, Atomic!Owns
  <2> QED
    BY <2>1, <2>2 DEF Atomic!Next
<1>4. CASE AlterUser(h)
  <2>1. flight[h].user \in Users /\ flight[h].op \in Alterations
    BY <1>1, <1>4 DEF Request, NamesUser, AdminOps, AlterUser
  <2>2. UNCHANGED tables \/ Atomic!AlterUser(flight[h].op, flight[h].user)
    BY <1>4 DEF AlterUser, WriteUsers, Atomic!AlterUser, NonRoot, Atomic!NonRoot,
                Altered, Atomic!Altered
  <2> QED
    BY <2>1, <2>2 DEF Atomic!Next, Alterations, Atomic!Alterations
<1>5. CASE ChangePassword(h)
  <2>1. flight[h].who \in Users
    BY <1>1, <1>5 DEF Request, UsesActor, ChangePassword
  <2>2. UNCHANGED tables \/ Atomic!ChangePassword(flight[h].who)
    BY <1>5 DEF ChangePassword, WriteUsers, Atomic!ChangePassword,
                UpdatePassword, Atomic!UpdatePassword
  <2> QED
    BY <2>1, <2>2 DEF Atomic!Next
<1>6. CASE ResetUsers(h)
  BY <1>6 DEF ResetUsers, Atomic!Next, Atomic!WipeUsers, NoUsers, Atomic!NoUsers,
              NoServers, Atomic!NoServers
<1>7. CASE ResetRoot(h)
  BY <1>7 DEF ResetRoot, WriteUsers, Atomic!Next, Atomic!MakeRoot,
              BootstrapAdmin, Atomic!BootstrapAdmin
<1> QED
  BY <1>2, <1>3, <1>4, <1>5, <1>6, <1>7

LEMMA ServerWritesAreAtomic ==
    ASSUME AccountsTypeOK, NEW h \in Slots,
           \/ TransferServer(h) \/ InsertServer(h) \/ UpdateServerConfig(h)
           \/ ResetServers(h)
    PROVE  Atomic!Next \/ UNCHANGED tables
<1> USE DEF At, tables
<1>1. /\ flight[h] # None /\ flight[h] \in Request
      /\ flight[h].port \in {0} \cup Atomic!Pairs
  BY DEF TransferServer, InsertServer, UpdateServerConfig, ResetServers, AccountsTypeOK,
         Request, Pairs, Atomic!Pairs
<1>2. CASE TransferServer(h)
  <2>1. flight[h].user \in Users /\ flight[h].server \in Servers
    BY <1>1, <1>2 DEF Request, NamesUser, NamesServer, TransferServer
  <2>2. UNCHANGED tables \/ Atomic!Transfer(flight[h].server, flight[h].user)
    BY <1>2 DEF TransferServer, WriteServers, Atomic!Transfer
  <2> QED
    BY <2>1, <2>2 DEF Atomic!Next
<1>3. CASE InsertServer(h)
  <2>1. flight[h].who \in Users /\ flight[h].server \in Servers
    BY <1>1, <1>3 DEF Request, UsesActor, NamesServer, PortOps, InsertServer
  <2>2. \/ UNCHANGED tables
        \/ Atomic!AddServer(flight[h].server, flight[h].who, flight[h].port)
    BY <1>3 DEF InsertServer, WriteServers, Atomic!AddServer
  <2> QED
    BY <1>1, <2>1, <2>2 DEF Atomic!Next
<1>4. CASE UpdateServerConfig(h)
  <2>1. flight[h].server \in Servers
    BY <1>1, <1>4 DEF Request, NamesServer, PortOps, UpdateServerConfig
  <2>2. UNCHANGED tables \/ Atomic!SetPort(flight[h].server, flight[h].port)
    BY <1>4 DEF UpdateServerConfig, WriteServers, Atomic!SetPort
  <2> QED
    BY <1>1, <2>1, <2>2 DEF Atomic!Next
<1>5. CASE ResetServers(h)
  BY <1>5 DEF ResetServers, Atomic!Next, Atomic!WipeServers, NoServers, Atomic!NoServers
<1> QED
  BY <1>2, <1>3, <1>4, <1>5

LEMMA OutsideIsAtomic ==
    ASSUME AccountsTypeOK,
           \/ \E s \in Servers : DropRow(s) \/ InsertOrphanTombstone(s)
           \/ Restart
    PROVE  Atomic!Next \/ UNCHANGED tables
<1>1. ASSUME NEW s \in Servers, DropRow(s)
      PROVE  Atomic!Next
  BY <1>1 DEF DropRow, Atomic!Next, Atomic!RemoveServer
<1>2. ASSUME NEW s \in Servers, InsertOrphanTombstone(s)
      PROVE  Atomic!Next
  <2>1. Atomic!AddServer(s, RootUser, 0)
    BY <1>2 DEF InsertOrphanTombstone, Atomic!AddServer
  <2> QED
    BY <2>1, UsersTableAssumption DEF Atomic!Next
<1>3. CASE Restart
  <2>1. CASE users = NoUsers
    BY <1>3, <2>1, UsersTableAssumption
       DEF Restart, NoUsers, Atomic!Next, Atomic!MakeRoot, BootstrapAdmin,
           Atomic!BootstrapAdmin
  <2>2. CASE users # NoUsers
    BY <1>3, <2>2 DEF Restart, tables
  <2> QED
    BY <2>1, <2>2
<1> QED
  BY <1>1, <1>2, <1>3

LEMMA StepIsAtomic ==
    ASSUME AccountsTypeOK, [Next]_vars
    PROVE  [Atomic!Next]_(Atomic!tables)
<1>1. CASE UNCHANGED vars
  BY <1>1 DEF vars, Atomic!tables
<1>2. CASE Next
  <2>1. Atomic!Next \/ UNCHANGED tables
    BY <1>2, StepKinds, QuietSteps, UserWritesAreAtomic, ServerWritesAreAtomic,
       OutsideIsAtomic
  <2> QED
    BY <2>1 DEF tables, Atomic!tables
<1> QED
  BY <1>1, <1>2

LEMMA InitIsAtomic == Init => Atomic!Init
BY DEF Init, Atomic!Init, BootstrapAdmin, Atomic!BootstrapAdmin, NoUsers, Atomic!NoUsers,
       NoServers, Atomic!NoServers

(* The handlers, statement by statement and in any interleaving, implement *)
(* the atomic operations.  Nothing is said of the free port and the        *)
(* permission that a handler has checked earlier.                          *)
THEOREM AccountsAreAtomic == Spec => StatementsAreAtomic
BY InitIsAtomic, StepIsAtomic, TypeInit, TypeStep, PTL DEF Spec, StatementsAreAtomic, Atomic!Spec

----------------------------------------------------------------------------
(* Ports.  The inductive invariant is about the ports that handlers hold:  *)
(* as long as it has not been overtaken, a create's pair is in no other    *)
(* server's row, and a config update's is still the one of its own row.    *)

HeldIsGood ==
    \A h \in Slots \ overtaken : HoldsPort(flight[h]) =>
        /\ flight[h].op = "createServer" =>
              \A s \in Servers \ {flight[h].server} : ~ HasPort(servers, s, flight[h].port)
        /\ flight[h].op = "config" => HasPort(servers, flight[h].server, flight[h].port)

(* No row comes by a port.                                                 *)
NoNewPort ==
    \A s \in Servers : servers'[s] # None /\ servers'[s].port # 0 =>
        servers[s] # None /\ servers[s].port = servers'[s].port

LEMMA UnchangedServersNoNewPort ==
    ASSUME UNCHANGED servers
    PROVE  NoNewPort
BY DEF NoNewPort

LEMMA MostStepsNoNewPort ==
    ASSUME AccountsTypeOK, Next
    PROVE  \/ NoNewPort
           \/ \E h \in Slots : InsertServer(h) \/ UpdateServerConfig(h)
<1> USE DEF At
<1>1. servers \in ServerTables
  BY DEF AccountsTypeOK
<1>2. ASSUME NEW h \in Slots,
             \/ Arrivals(h) \/ GiveUp(h) \/ Reads(h) \/ PickPort(h) \/ Decides(h)
      PROVE  NoNewPort
  BY <1>2, QuietSteps, UnchangedServersNoNewPort DEF tables
<1>3. ASSUME NEW h \in Slots,
             \/ InsertUser(h) \/ DeleteUser(h) \/ AlterUser(h) \/ ChangePassword(h)
             \/ ResetUsers(h) \/ ResetRoot(h)
      PROVE  NoNewPort
  <2>1. UNCHANGED servers
    BY <1>3 DEF InsertUser, DeleteUser, AlterUser, ChangePassword, ResetUsers, ResetRoot,
                WriteUsers
  <2> QED
    BY <2>1, UnchangedServersNoNewPort
<1>4. ASSUME NEW h \in Slots, ResetServers(h)
      PROVE  NoNewPort
  BY <1>4 DEF ResetServers, NoServers, NoNewPort
<1>5. ASSUME NEW h \in Slots, TransferServer(h)
      PROVE  NoNewPort
  <2> DEFINE t == flight[h].server
             n == flight[h].user
  <2>1. CASE UNCHANGED servers
    BY <2>1, UnchangedServersNoNewPort
  <2>2. CASE ~ UNCHANGED servers
    <3>1. servers[t] # None /\ servers' = [servers EXCEPT ![t].owner = n]
      BY <1>5, <2>2 DEF TransferServer, WriteServers
    <3>2. t \in Servers
      BY <1>5 DEF TransferServer, AccountsTypeOK, Request, NamesServer
    <3>3. servers[t] \in Server
      BY <1>1, <3>1, <3>2 DEF ServerTables
    <3> HIDE DEF t, n
    <3>4. servers'[t].port = servers[t].port
      BY <1>1, <3>1, <3>2, <3>3 DEF ServerTables, Server
    <3>5. \A s \in Servers \ {t} : servers'[s] = servers[s]
      BY <1>1, <3>1 DEF ServerTables
    <3> QED
      BY <3>1, <3>4, <3>5 DEF NoNewPort
  <2> QED
    BY <2>1, <2>2
<1>6. ASSUME NEW s \in Servers, DropRow(s) \/ InsertOrphanTombstone(s)
      PROVE  NoNewPort
  BY <1>1, <1>6 DEF DropRow, InsertOrphanTombstone, NoNewPort, ServerTables
<1>7. ASSUME Restart
      PROVE  NoNewPort
  BY <1>7, UnchangedServersNoNewPort DEF Restart
<1> QED
  BY <1>2, <1>3, <1>4, <1>5, <1>6, <1>7, StepKinds

(* Who holds a port after a step: a handler that was there before, with    *)
(* the same one, or one that has just picked or read its port.             *)
LEMMA HolderMoves ==
    ASSUME AccountsTypeOK, Next, NEW h \in Slots, HoldsPort(flight'[h])
    PROVE  \/ /\ flight[h] # None
              /\ flight'[h].op = flight[h].op
              /\ flight'[h].server = flight[h].server
              /\ flight'[h].port = flight[h].port
           \/ PickPort(h) \/ Decides(h)
<1>1. flight \in Flights /\ flight'[h] # None /\ flight'[h].port # 0
  BY DEF AccountsTypeOK, Flights, HoldsPort
<1>2. flight[h] # None => flight[h] \in Request
  BY <1>1 DEF Flights
<1>3. CASE flight'[h] = flight[h]
  BY <1>1, <1>3
<1>4. ASSUME flight[h] # None, NEW at, flight'[h] = [flight[h] EXCEPT !.at = at]
      PROVE  /\ flight'[h].op = flight[h].op
             /\ flight'[h].server = flight[h].server
             /\ flight'[h].port = flight[h].port
  BY <1>2, <1>4 DEF Request
<1>5. ~ (Arrivals(h) /\ flight[h] = None)
  BY <1>1 DEF Arrivals, Arrive, Flights
<1>6. ASSUME NEW g \in Slots, Handler(g)
      PROVE  \/ flight'[h] = flight[h]
             \/ /\ flight[h] # None
                /\ \E at : flight'[h] = [flight[h] EXCEPT !.at = at]
             \/ PickPort(h) \/ Decides(h)
  <2>1. CASE g # h
    BY <1>6, <2>1, OwnMoves
  <2>2. CASE g = h
    <3>1. (ResetServers(h) \/ ResetUsers(h)) => flight[h] # None
      BY DEF ResetServers, ResetUsers, At
    <3> QED
      BY <1>1, <1>5, <1>6, <2>2, <3>1, OwnMoves
  <2> QED
    BY <2>1, <2>2
<1>7. CASE \/ \E s \in Servers : DropRow(s) \/ InsertOrphanTombstone(s)
           \/ Restart
  <2>1. flight'[h] = flight[h] \/ flight'[h] = None
    BY <1>7 DEF DropRow, InsertOrphanTombstone, Restart
  <2> QED
    BY <1>1, <1>3, <2>1
<1> QED
  BY <1>3, <1>4, <1>6, <1>7 DEF Next

(* What a handler has just picked is in nobody's row, and what it has just *)
(* read is in its own server's.                                            *)
LEMMA FreshPortIsGood ==
    ASSUME AccountsTypeOK, NEW h \in Slots,
           PickPort(h) \/ Decides(h), HoldsPort(flight'[h])
    PROVE  /\ flight'[h].op = "createServer" =>
                 \A s \in Servers : ~ HasPort(servers', s, flight'[h].port)
           /\ flight'[h].op = "config" =>
                 HasPort(servers', flight'[h].server, flight'[h].port)
<1> USE DEF At
<1>1. /\ flight[h] # None /\ flight[h] \in Request /\ flight \in Flights
      /\ flight'[h] # None /\ flight'[h].port # 0
  BY DecidingSteps DEF PickPort, AccountsTypeOK, Flights, HoldsPort
<1>2. ~ Done(h)
  BY <1>1 DEF Done, Flights
<1>3. UNCHANGED servers
  BY QuietSteps DEF tables
<1>4. CASE PickPort(h)
  <2>1. PICK nodePorts \in SUBSET (Pairs \ RowPorts) :
          flight' = [flight EXCEPT ![h].at = "exists",
                                   ![h].port = allocateServerPort(RowPorts, nodePorts)]
    BY <1>2, <1>4 DEF PickPort
  <2> DEFINE port == allocateServerPort(RowPorts, nodePorts)
  <2>2. port # 0 => port \notin RowPorts
    BY AllocatedPairIsFree DEF Occupied
  <2> HIDE DEF port
  <2>3. flight'[h].port = port /\ flight'[h].op = flight[h].op
    BY <1>1, <2>1 DEF Flights, Request, port
  <2>4. flight[h].op = "createServer"
    BY <1>4 DEF PickPort
  <2> QED
    BY <1>1, <1>3, <2>2, <2>3, <2>4 DEF RowPorts, HasPort
<1>5. CASE Decides(h)
  <2>1. /\ flight[h].op \in {"transfer", "config"}
        /\ flight'[h].op = flight[h].op
        /\ flight'[h].server = flight[h].server
        /\ flight[h].op = "config" =>
              /\ servers[flight[h].server] # None
              /\ flight'[h].port = servers[flight[h].server].port
    BY <1>1, <1>5, DecidingSteps
  <2> QED
    BY <1>3, <2>1 DEF HasPort
<1> QED
  BY <1>4, <1>5

LEMMA HeldStep ==
    ASSUME AccountsTypeOK, HeldIsGood, [Next]_vars
    PROVE  HeldIsGood'
<1>1. CASE UNCHANGED vars
  BY <1>1 DEF vars, HeldIsGood, HoldsPort, HasPort
<1>2. CASE Next
  <2> SUFFICES ASSUME NEW h \in Slots, h \notin overtaken', HoldsPort(flight'[h])
               PROVE  /\ flight'[h].op = "createServer" =>
                            \A s \in Servers \ {flight'[h].server} :
                               ~ HasPort(servers', s, flight'[h].port)
                      /\ flight'[h].op = "config" =>
                            HasPort(servers', flight'[h].server, flight'[h].port)
    BY DEF HeldIsGood, HoldsPort, HasPort
  <2>1. CASE PickPort(h) \/ Decides(h)
    BY <2>1, FreshPortIsGood
  <2>2. CASE /\ flight[h] # None
             /\ flight'[h].op = flight[h].op
             /\ flight'[h].server = flight[h].server
             /\ flight'[h].port = flight[h].port
    <3>1. HoldsPort(flight[h])
      BY <2>2 DEF HoldsPort
    <3>2. h \notin overtaken /\ ~ Overtakes(flight[h])
      BY <1>2, <3>1, EveryStepTracks DEF Track
    <3>3. /\ flight[h].op = "createServer" =>
               \A s \in Servers \ {flight[h].server} :
                  ~ HasPort(servers, s, flight[h].port)
          /\ flight[h].op = "config" => HasPort(servers, flight[h].server, flight[h].port)
      BY <3>1, <3>2 DEF HeldIsGood
    <3> QED
      BY <2>2, <3>2, <3>3 DEF Overtakes
  <2> QED
    BY <1>2, <2>1, <2>2, HolderMoves
<1> QED
  BY <1>1, <1>2

(* A step after which two more servers share a pair is the write of a      *)
(* handler that has been overtaken.                                        *)
LEMMA SharingStep ==
    ASSUME AccountsTypeOK, HeldIsGood, [Next]_vars, NEW s \in Servers, NEW t \in Servers,
           Share(servers', s, t), ~ Share(servers, s, t)
    PROVE  \E h \in overtaken : /\ flight[h].server \in {s, t} /\ flight'[h] = None
                                /\ HasPort(servers', s, flight[h].port)
<1> USE DEF At
<1>1. ~ NoNewPort
  BY DEF NoNewPort, Share, HasPort
<1>2. Next
  BY <1>1, UnchangedServersNoNewPort DEF vars
<1>3. PICK h \in Slots : InsertServer(h) \/ UpdateServerConfig(h)
  BY <1>1, <1>2, MostStepsNoNewPort
<1> DEFINE u == flight[h].server
           p == flight[h].port
<1>4. /\ flight \in Flights /\ servers \in ServerTables
      /\ flight[h] # None /\ flight[h] \in Request /\ Done(h)
  BY <1>3 DEF AccountsTypeOK, Flights, InsertServer, UpdateServerConfig, WriteServers
<1>5. flight'[h] = None
  BY <1>4 DEF Done, Flights
<1>6. u \in Servers
  BY <1>3, <1>4 DEF InsertServer, UpdateServerConfig, Request, NamesServer, PortOps
<1>7. servers' # servers
  BY <1>1, UnchangedServersNoNewPort
<1>8. /\ \A v \in Servers \ {u} : servers'[v] = servers[v]
      /\ servers'[u].port = p
  <2>1. CASE InsertServer(h)
    <3>1. servers' = [servers EXCEPT ![u] = [owner |-> flight[h].who, port |-> p]]
      BY <1>7, <2>1 DEF InsertServer, WriteServers
    <3> HIDE DEF u, p
    <3> QED
      BY <1>4, <1>6, <3>1 DEF ServerTables
  <2>2. CASE UpdateServerConfig(h)
    <3>1. servers' = [servers EXCEPT ![u].port = p] /\ servers[u] # None
      BY <1>7, <2>2 DEF UpdateServerConfig, WriteServers
    <3> HIDE DEF u, p
    <3>2. servers[u] \in Server
      BY <1>4, <1>6, <3>1 DEF ServerTables
    <3> QED
      BY <1>4, <1>6, <3>1, <3>2 DEF ServerTables, Server
  <2> QED
    BY <1>3, <2>1, <2>2
<1>9. u \in {s, t}
  <2> HIDE DEF u, p
  <2> QED
    BY <1>8 DEF Share, HasPort
<1>10. p # 0 /\ HasPort(servers', s, p) /\ HasPort(servers', t, p) /\ s # t
  <2> HIDE DEF u, p
  <2> QED
    BY <1>8, <1>9 DEF Share, HasPort
<1>11. h \in overtaken
  <2> SUFFICES ASSUME h \notin overtaken
               PROVE  FALSE
    OBVIOUS
  <2>1. HoldsPort(flight[h])
    BY <1>4, <1>10 DEF HoldsPort
  <2>2. CASE InsertServer(h)
    <3>1. \A v \in Servers \ {u} : ~ HasPort(servers, v, p)
      BY <2>1, <2>2 DEF HeldIsGood, InsertServer
    <3> HIDE DEF u, p
    <3> QED
      BY <1>8, <1>9, <1>10, <3>1 DEF HasPort
  <2>3. CASE UpdateServerConfig(h)
    <3>1. HasPort(servers, u, p)
      BY <2>1, <2>3 DEF HeldIsGood, UpdateServerConfig
    <3> HIDE DEF u, p
    <3> QED
      BY <1>1, <1>8, <3>1 DEF NoNewPort, HasPort
  <2> QED
    BY <1>3, <2>2, <2>3
<1> QED
  BY <1>5, <1>9, <1>10, <1>11

(* Two servers come to share a pair only by the write of a request that    *)
(* raced with another over the pair, for any number of requests in flight  *)
(* and whatever the registry knows or misses.                              *)
THEOREM PortsAreSharedByRacesOnly == Spec => PortsSharedByRacesOnly
<1>1. Init => HeldIsGood
  BY DEF Init, HeldIsGood, HoldsPort
<1>2. AccountsTypeOK /\ HeldIsGood /\ [Next]_vars => HeldIsGood'
  BY HeldStep
<1>3. AccountsTypeOK /\ HeldIsGood /\ [Next]_vars =>
        [\A s, t \in Servers : Share(servers', s, t) /\ ~ Share(servers, s, t) =>
           \E h \in overtaken : /\ flight[h].server \in {s, t} /\ flight'[h] = None
                                /\ HasPort(servers', s, flight[h].port)]_vars
  BY SharingStep
<1> QED
  BY <1>1, <1>2, <1>3, TypeInit, TypeStep, PTL DEF Spec, PortsSharedByRacesOnly
=============================================================================
