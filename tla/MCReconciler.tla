--------------------------- MODULE MCReconciler ---------------------------
(* Instances of Reconciler for TLC: the names and what users do come from   *)
(* the cfg, the bounds from here.  Names are interchangeable.               *)
EXTENDS Reconciler, TLC

CONSTANTS MaxRequests, MaxFaults, MaxCrashes, MaxTampers

MCBudget == [request |-> MaxRequests, fault |-> MaxFaults,
             crash |-> MaxCrashes, tamper |-> MaxTampers]

AlikeNames == Permutations(Names)
=============================================================================
