----------------------------- MODULE MCRegistry -----------------------------
(* An instance of Registry for TLC: a deployment that comes up, runs, is   *)
(* scaled down and deleted, and pods that crash or run.                    *)
EXTENDS Registry, TLC

SomeDeployments ==
    {[replicas |-> 1, have |-> 1, ready |-> 0, dying |-> FALSE],
     [replicas |-> 1, have |-> 1, ready |-> 1, dying |-> FALSE],
     [replicas |-> 0, have |-> 0, ready |-> 0, dying |-> FALSE],
     [replicas |-> 1, have |-> 1, ready |-> 1, dying |-> TRUE]}

SomePods == {"pending", "CrashLoopBackOff", "running"}
=============================================================================
