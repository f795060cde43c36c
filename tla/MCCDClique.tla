----------------------------- MODULE MCCDClique -----------------------------
(* TLC instance of CDClique.  The environment's disturbances are budgeted: *)
(* how often a container stops or is killed, or a readiness probe changes  *)
(* its mind.                                                               *)
EXTENDS CDClique

CONSTANT MaxDisturbances

VARIABLE budget

mcvars == <<clique, pod, mgr, ctrlPods, cleanups, budget>>

(* The address of a pod that does not exist yet is irrelevant: fix it. *)
MCInit ==
    /\ Init
    /\ \A n \in Nodes : pod[n].ip = CHOOSE ip \in IPs : TRUE
    /\ budget = MaxDisturbances

MCNext ==
    \/ /\ budget > 0
       /\ \E n \in Nodes : ContainerKilled(n) \/ Stop(n) \/ ReadinessChanged(n)
       /\ budget' = budget - 1
    \/ /\ \/ \E n \in Nodes, ip \in IPs : PodCreated(n, ip)
          \/ \E n \in Nodes :
               \/ ContainerRestarted(n)
               \/ PodDeleted(n)
               \/ InformerEvent(n)
               \/ Resync(n)
               \/ EnsureCliqueExists(n)
               \/ OnAddOrUpdate(n)
               \/ UpdateDaemonStatus(n)
          \/ ObservePods
          \/ SyncCliques
          \/ \E runningNodes \in cleanups : CleanupClique(runningNodes)
          \/ CollectGarbage
       /\ UNCHANGED budget

MCSpec == MCInit /\ [][MCNext]_mcvars
MCFairSpec == MCSpec /\ Fairness

=============================================================================
