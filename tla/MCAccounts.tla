----------------------------- MODULE MCAccounts -----------------------------
(* Instances of Accounts for TLC: slots and servers are interchangeable,   *)
(* and so are the users other than root.                                   *)
EXTENDS Accounts, TLC

Interchangeable ==
    Permutations(Slots) \cup Permutations(Servers) \cup Permutations(Users \ {RootUser})

(* The alterations that are left out take no rights from anybody: what     *)
(* they set in a row, another user's row may have from the start.          *)
AnyRequest == AllOps \ {"unsuspend", "promote", "resetPassword"}
OnlyCreates == {"changePassword", "createServer"}

----------------------------------------------------------------------------
(* allocateServerPort is the loop of the code, on a short range around the *)
(* UI's port that ends in the middle of a pair, for rows that have either  *)
(* half of a pair or none and node ports that come without the other half. *)
Short == INSTANCE PortPairs WITH FirstPort <- 30078, LastPort <- 30085

Loop(rowPorts, nodePorts) ==
    LET occupied == Short!Occupied(rowPorts, nodePorts)
        from[p \in 30078 .. 30087] ==
            IF p > 30085 THEN 0
            ELSE IF p \notin occupied /\ p + 1 \notin occupied THEN p
            ELSE from[p + 2]
    IN  from[30078]

ASSUME AllocateIsTheLoop ==
    \A rowPorts \in SUBSET {0, 30079, 30080, 30082, 30084},
       nodePorts \in SUBSET {0, 30078, 30081, 30083, 30085, 30086} :
          Short!allocateServerPort(rowPorts, nodePorts) = Loop(rowPorts, nodePorts)
=============================================================================
