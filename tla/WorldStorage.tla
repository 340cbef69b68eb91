--------------------------- MODULE WorldStorage ---------------------------
(***************************************************************************)
(* What Ofan promises about the worlds its servers keep on their volumes   *)
(* (README.md: "Deleting a server keeps its world unless you choose to     *)
(* purge it"): a world is only ever destroyed after somebody asked for     *)
(* that, and not on the strength of a request made before the world was.   *)
(***************************************************************************)
CONSTANT Names

VARIABLES
    worlds,   \* names whose world is on a volume
    consent   \* names whose world may be destroyed

worldVars == <<worlds, consent>>

Init == worlds = {} /\ consent = {}

(* A new world is not covered by earlier requests, unless one is pending   *)
(* for the very record the world is made for.                              *)
Make(n) ==
    /\ n \notin worlds
    /\ worlds' = worlds \cup {n}
    /\ consent' \in {consent, consent \ {n}}

Ask(n) ==
    /\ consent' = consent \cup {n}
    /\ UNCHANGED worlds

(* Nobody owes the purge its completion, but it must have been asked for.  *)
Destroy(n) ==
    /\ n \in worlds /\ n \in consent
    /\ worlds' = worlds \ {n}
    /\ UNCHANGED consent

Next == \E n \in Names : Make(n) \/ Ask(n) \/ Destroy(n)

Spec == Init /\ [][Next]_worldVars
=============================================================================
