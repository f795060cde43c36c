----------------------------- MODULE MCCDStatus -----------------------------
(* TLC instance of CDStatus: two nodes of a clique, or one and a node      *)
(* without fabric, with a budget of what happens to pods.  Two daemons are  *)
(* there for their races: they do not become ready, and only then does the *)
(* address of a pod change.                                                *)
EXTENDS CDStatus

CONSTANTS a, b, p, MaxDisturbances

VARIABLES members, budget

mcvars == <<gate, cd, pod, mgr, registry, ctrl, members, budget>>

MCCliqueOf == [n \in {a, b, p} |-> IF n = p THEN "" ELSE "clique"]

(* A pod on a may come back with another address; one on b may get an      *)
(* address that a pod on a had, and the other way round.                   *)
MCAddressesOf == [n \in {a, b, p} |-> IF n = a THEN {1, 2} ELSE {1}]

(* The address of a pod that does not exist yet is irrelevant: fix it. *)
MCInit ==
    /\ Init
    /\ \A n \in Nodes : pod[n].ip = 1
    /\ members \in {{a, b}, {a, p}}
    /\ gate => p \in members
    /\ budget = MaxDisturbances

MCNext ==
    /\ \/ budget > 0 /\ Disturbance /\ budget' = budget - 1
       \/ Undisturbed /\ UNCHANGED budget
    /\ \A n \in Nodes \ members : pod'[n].phase = "absent"
    /\ IF p \in members THEN HasPod(a)' => pod'[a].ip = 2
       ELSE \A n \in Nodes : ~pod'[n].ready
    /\ UNCHANGED members

MCSpec == MCInit /\ [][MCNext]_mcvars /\ Fairness

=============================================================================
