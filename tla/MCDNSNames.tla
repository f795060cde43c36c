----------------------------- MODULE MCDNSNames -----------------------------
(* TLC instance of DNSNames.  Pods are created at most MaxPods times and   *)
(* containers terminate at most MaxStops times; readiness does not change  *)
(* (no hosts file depends on it).                                          *)
EXTENDS DNSNames

CONSTANTS MaxPods, MaxStops

VARIABLE budget

mcvars == <<clique, pod, mgr, ctrlPods, cleanups, previous, hosts, budget>>

(* The address of a pod that does not exist yet is irrelevant: fix it. *)
MCInit ==
    /\ DNSInit
    /\ \A n \in Nodes : pod[n].ip = CHOOSE ip \in IPs : TRUE
    /\ budget = [pods |-> MaxPods, stops |-> MaxStops]

HasCreatedPod == \E n \in Nodes : pod'[n].phase # "absent" /\ ~HasPod(n)

MCNext ==
    \/ /\ \E n \in Nodes : PassOn(n) \/ UpdateAndPassOn(n)
       /\ UNCHANGED budget
    \/ /\ budget.stops > 0
       /\ \E n \in Nodes : Terminate(n)
       /\ budget' = [budget EXCEPT !.stops = @ - 1]
    \/ /\ Other
       /\ IF HasCreatedPod
          THEN /\ budget.pods > 0
               /\ budget' = [budget EXCEPT !.pods = @ - 1]
          ELSE UNCHANGED budget

MCSpec == MCInit /\ [][MCNext]_mcvars
MCFairSpec == MCSpec /\ DNSFairness

=============================================================================
