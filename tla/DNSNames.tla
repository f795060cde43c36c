------------------------------ MODULE DNSNames ------------------------------
(***************************************************************************)
(* The daemons of a clique (CDClique) together with what each of them      *)
(* makes of the list: maybePushDaemonsUpdate passes a list on when its set *)
(* of addresses differs from that of the list passed on before, and        *)
(* DNSNameManager turns it into the name-to-address lines of /etc/hosts by *)
(* which nvidia-imex finds its peers.                                      *)
(*                                                                         *)
(* The hand-over through updatedDaemonsChan is one step here; its          *)
(* interleavings are the subject of DaemonProcess.  A DNS name is the      *)
(* index it is made of.                                                    *)
(***************************************************************************)
EXTENDS CDClique

VARIABLES
    previous,   \* per node: previousDaemons of the manager
    hosts       \* per node: the lines of the hosts file, [ip, name]

dnsvars == <<clique, pod, mgr, ctrlPods, cleanups, previous, hosts>>

DNSTypeOK ==
    /\ TypeOK
    /\ previous \in [Nodes -> SUBSET Daemon]
    /\ hosts \in [Nodes -> SUBSET [ip : IPs, name : Indices]]

DNSInit ==
    /\ Init
    /\ previous = [n \in Nodes |-> {}]
    /\ hosts = [n \in Nodes |-> {}]

-----------------------------------------------------------------------------
(* getIPSet *)
IPSet(daemons) == {d.ip : d \in daemons}

(* UpdateDNSNameMappings builds a map from addresses to names: of several  *)
(* entries with one address, the last in the list wins, which can be any.  *)
Mappings(daemons) ==
    {H \in SUBSET {[ip |-> d.ip, name |-> d.index] : d \in daemons} :
        \A ip \in IPSet(daemons) : \E h \in H :
            h.ip = ip /\ \A g \in H : g.ip = ip => g = h}

(* Mutant: the list is remembered before the update loop has taken it. *)
PushDropped(n, daemons) ==
    /\ previous' = [previous EXCEPT ![n] = daemons]
    /\ IF previous[n] = {} /\ daemons # {}
       THEN \E H \in Mappings(daemons) : hosts' = [hosts EXCEPT ![n] = H]
       ELSE UNCHANGED hosts

(* Mutant: lines are added and not replaced. *)
PushAppending(n, daemons) ==
    \/ /\ IPSet(daemons) = IPSet(previous[n])
       /\ UNCHANGED <<previous, hosts>>
    \/ /\ IPSet(daemons) # IPSet(previous[n])
       /\ previous' = [previous EXCEPT ![n] = daemons]
       /\ \E H \in Mappings(daemons) : hosts' = [hosts EXCEPT ![n] = @ \cup H]

(* maybePushDaemonsUpdate, and the update loop's UpdateDNSNameMappings. *)
MaybePushDaemonsUpdate(n, daemons) ==
    \/ /\ IPSet(daemons) = IPSet(previous[n])
       /\ UNCHANGED <<previous, hosts>>
    \/ /\ IPSet(daemons) # IPSet(previous[n])
       /\ previous' = [previous EXCEPT ![n] = daemons]
       /\ \E H \in Mappings(daemons) : hosts' = [hosts EXCEPT ![n] = H]

(* onAddOrUpdate with a copy that lists this pod. *)
PassOn(n) ==
    /\ Running(n)
    /\ mgr[n].view.exists
    /\ UpToDate(n, mgr[n].view.daemons)
    /\ MaybePushDaemonsUpdate(n, mgr[n].view.daemons)
    /\ UNCHANGED vars

(* onAddOrUpdate with a copy that must be updated first. *)
UpdateAndPassOn(n) ==
    /\ OnAddOrUpdate(n)
    /\ MaybePushDaemonsUpdate(n, mgr'[n].view.daemons)

(* The container stops: its process and its hosts file are gone. *)
Terminate(n) ==
    /\ ContainerKilled(n) \/ Stop(n)
    /\ previous' = [previous EXCEPT ![n] = {}]
    /\ hosts' = [hosts EXCEPT ![n] = {}]

(* Everything else leaves lists and hosts files alone. *)
Other ==
    /\ \/ \E n \in Nodes, ip \in IPs : PodCreated(n, ip)
       \/ \E n \in Nodes :
            \/ ContainerRestarted(n)
            \/ PodDeleted(n)
            \/ InformerEvent(n)
            \/ EnsureCliqueExists(n)
       \/ ObservePods
       \/ SyncCliques
       \/ \E runningNodes \in cleanups : CleanupClique(runningNodes)
       \/ CollectGarbage
    /\ UNCHANGED <<previous, hosts>>

(* The statuses of the entries are nobody's concern here. *)
StatusStep ==
    /\ \E n \in Nodes :
         ReadinessChanged(n) \/ Resync(n) \/ UpdateDaemonStatus(n)
    /\ UNCHANGED <<previous, hosts>>

DNSNext ==
    \/ \E n \in Nodes : PassOn(n) \/ UpdateAndPassOn(n) \/ Terminate(n)
    \/ Other
    \/ StatusStep

DNSSpec == DNSInit /\ [][DNSNext]_dnsvars

(* The fairness of CDClique; an item with key "cdclique" is processed.     *)
DNSFairness ==
    /\ \A n \in Nodes :
         /\ WF_dnsvars(InformerEvent(n) /\ UNCHANGED <<previous, hosts>>)
         /\ WF_dnsvars(EnsureCliqueExists(n) /\ UNCHANGED <<previous, hosts>>)
         /\ SF_dnsvars(UpdateAndPassOn(n))
         /\ WF_dnsvars(PassOn(n))
    /\ WF_dnsvars(ObservePods /\ UNCHANGED <<previous, hosts>>)
    /\ WF_dnsvars(SyncCliques /\ UNCHANGED <<previous, hosts>>)
    /\ SF_dnsvars(/\ \E runningNodes \in cleanups : CleanupClique(runningNodes)
                  /\ UNCHANGED <<previous, hosts>>)

-----------------------------------------------------------------------------
(* Properties *)

(* A daemon whose copy of the clique is current, and who has passed it on. *)
Settled(n) ==
    /\ Running(n)
    /\ mgr[n].current
    /\ UpToDate(n, mgr[n].view.daemons)
    /\ IPSet(mgr[n].view.daemons) = IPSet(previous[n])

(* A hosts file maps every address to one name and every name to one       *)
(* address, whatever copies of the list its daemon has seen; and that of a *)
(* settled daemon has exactly the addresses of the clique, although lists  *)
(* may be skipped and events coalesced (updateHostsFile).                  *)
HostsCorrect ==
    \A n \in Nodes :
        /\ \A g, h \in hosts[n] : g.ip = h.ip \/ g.name = h.name => g = h
        /\ Settled(n) => {h.ip : h \in hosts[n]} = IPSet(clique.daemons)

(* The strengthening under which HostsCorrect is inductive: every copy a   *)
(* daemon holds, also an outdated one, was once the object and has one     *)
(* entry per name; and a hosts file is that of the list passed on last.    *)
HostsInv ==
    /\ IndInv
    /\ DNSTypeOK
    /\ \A n \in Nodes :
         /\ \A d, e \in mgr[n].view.daemons :
              d.node = e.node \/ d.index = e.index => d = e
         /\ \A g, h \in hosts[n] : g.ip = h.ip \/ g.name = h.name => g = h
         /\ {h.ip : h \in hosts[n]} = IPSet(previous[n])

(* Daemons that keep running eventually have the same addresses in their   *)
(* hosts files for good: every one of them can reach every other.          *)
EventuallyConnected ==
    \A n, m \in Nodes :
        <>[](Running(n) /\ Running(m) /\ clique.exists) =>
            <>[]\/ Full(n) \/ Full(m)
                \/ /\ pod[m].ip \in {h.ip : h \in hosts[n]}
                   /\ {h.ip : h \in hosts[n]} = {h.ip : h \in hosts[m]}

=============================================================================
