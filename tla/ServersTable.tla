--------------------------- MODULE ServersTable ---------------------------
(***************************************************************************)
(* The `servers' table of the SQLite store (internal/db/servers.go): what  *)
(* a row holds and what each statement of the store does to the table.     *)
(* The table is a function on Names, None where the primary key is free;   *)
(* every operator returns the table after the statement.  The store has    *)
(* one connection, so a statement is atomic.                               *)
(***************************************************************************)
EXTENDS Naturals

CONSTANTS
    Names,         \* server names
    Versions,      \* contents of a config other than its server_name
    None,          \* "absent": no row, no object, no registry entry
    RecreateEvery  \* failed passes between two clean rebuilds (5 in the code)

ASSUME ServersTableAssumption ==
    /\ RecreateEvery \in Nat \ {0}
    /\ Versions \subseteq Nat \ {0}

----------------------------------------------------------------------------
(* A config is told apart by the server_name it carries, which names the   *)
(* objects it is built into, and by everything else in it.  Version 0 is   *)
(* the config of an orphan's tombstone, which holds a server_name only.    *)
Config == [ver : Versions \cup {0}, target : Names]

(* consecutive_failures is only ever tested for being positive and a       *)
(* multiple of RecreateEvery: 0 is a clean row, 1 .. RecreateEvery the     *)
(* place in the cycle after it.                                            *)
Row == [desired : {"running", "stopped", "deleting"}, purge : BOOLEAN,
        cfg : Config, fails : 0 .. RecreateEvery]

ASSUME NoneAssumption ==
    /\ None \notin Names /\ None \notin Row /\ None \notin Config
    /\ None \notin {0, 1}

Tables == [Names -> Row \cup {None}]

NewRow(c) == [desired |-> "running", purge |-> FALSE, cfg |-> c, fails |-> 0]

\* Mutant: an orphan's storage goes with it.
TombstonePurging(n) == [desired |-> "deleting", purge |-> TRUE,
                        cfg |-> [ver |-> 0, target |-> n], fails |-> 0]

Tombstone(n) == [desired |-> "deleting", purge |-> FALSE,
                 cfg |-> [ver |-> 0, target |-> n], fails |-> 0]

(* The store's statements; each assumes what its handler has checked, that *)
(* the row is there (or, for an INSERT, that it is not).                   *)
CreateServer(t, n, c) == [t EXCEPT ![n] = NewRow(c)]
\* Mutant: the handler deletes the row instead of marking it.
MarkDeletingAtOnce(t, n, purge) == [t EXCEPT ![n] = None]
\* Mutant: a purge that was once asked for stays asked for.
MarkDeletingStubborn(t, n, purge) ==
    [t EXCEPT ![n] = [@ EXCEPT !.desired = "deleting", !.purge = @ \/ purge]]
MarkDeleting(t, n, purge) ==
    [t EXCEPT ![n] = [@ EXCEPT !.desired = "deleting", !.purge = purge]]
\* Mutant: the handler stores its verb instead of the state.
UpdateStateVerb(t, n, desired) ==
    [t EXCEPT ![n].desired = IF desired = "running" THEN "start" ELSE "stop"]
UpdateState(t, n, desired) == [t EXCEPT ![n].desired = desired]
UpdateServerConfig(t, n, c) == [t EXCEPT ![n].cfg = c]
InsertOrphanTombstone(t, n) == [t EXCEPT ![n] = Tombstone(n)]
DeleteServer(t, n) == [t EXCEPT ![n] = None]
IncrementFailure(t, n) ==
    [t EXCEPT ![n].fails = IF @ = RecreateEvery THEN 1 ELSE @ + 1]
ResetFailures(t, n) == [t EXCEPT ![n].fails = 0]
ResetDatabase == [n \in Names |-> None]

(* stateActions rebuilds from scratch at every RecreateEvery-th failure.   *)
NeedsRebuild(row) == row.fails > 0 /\ row.fails % RecreateEvery = 0
=============================================================================
