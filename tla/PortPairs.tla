----------------------------- MODULE PortPairs -----------------------------
(***************************************************************************)
(* ApiConfig.allocateServerPort (internal/api/api.go): which pair of UDP   *)
(* ports a new server gets.  A pair is named by its first port; a port of  *)
(* 0 is "no port", as in the code's error return and in a tombstone.       *)
(***************************************************************************)
EXTENDS Integers

CONSTANTS FirstPort, LastPort   \* 30100 and 32766 in the code

ASSUME PortPairsAssumption == FirstPort \in Nat \ {0} /\ LastPort \in Nat

uiPort == 30080

(* The loop's candidates, in its order: every other port of the range.     *)
Pairs == {p \in FirstPort .. LastPort : (p - FirstPort) % 2 = 0}

(* portsOccupied: the UI's port, both halves of every row's pair, and the  *)
(* node and query ports the registry knows, each for itself.               *)
Occupied(rowPorts, nodePorts) ==
    {uiPort} \cup rowPorts \cup {p + 1 : p \in rowPorts} \cup (nodePorts \ {0})

FreePairs(rowPorts, nodePorts) ==
    LET occupied == Occupied(rowPorts, nodePorts) IN
    {p \in Pairs : p \notin occupied /\ p + 1 \notin occupied}

(* The first free pair, or 0 when there is none.                           *)
allocateServerPort(rowPorts, nodePorts) ==
    LET free == FreePairs(rowPorts, nodePorts) IN
    IF free = {} THEN 0
    ELSE CHOOSE p \in free : \A q \in free : p <= q
=============================================================================
