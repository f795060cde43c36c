------------------------------ MODULE CDStatus ------------------------------
(***************************************************************************)
(* The status of one ComputeDomain and everything that writes it.          *)
(*                                                                         *)
(* Without the feature gate ComputeDomainCliques the daemons of fabric-    *)
(* attached nodes list themselves in Status.Nodes (compute-domain-daemon/  *)
(* cdstatus.go), and the controller's periodic sync drops the entries of   *)
(* pods that are gone.  With the gate the daemons list themselves in their *)
(* clique, and sync copies the cliques into the status; the cliques are    *)
(* represented here by the atomic registry that module CDClique is shown   *)
(* to implement.  In both modes sync adds the nodes without fabric from    *)
(* their pods, and the global status has three writers: sync, the handler  *)
(* of the ComputeDomain and the handler of the DaemonSet.                  *)
(*                                                                         *)
(* As in CDClique, a copy of the object carries a flag that says whether   *)
(* the API server would accept a write of it; a write that changes nothing *)
(* is accepted without making a new version.                               *)
(***************************************************************************)
EXTENDS Integers, FiniteSets

CONSTANTS
    Nodes,
    CliqueOf,               \* per node: its clique, "" without fabric
    IPs,                    \* pod addresses, reused once a pod is gone
    AddressesOf,            \* per node: the addresses its pods may get
    NumNodes,               \* Spec.NumNodes
    MaxNodesPerIMEXDomain,
    DNSNames                \* feature gate IMEXDaemonsWithDNSNames

ASSUME CDStatusAssumption ==
    /\ IsFiniteSet(Nodes)
    /\ NumNodes \in Nat
    /\ MaxNodesPerIMEXDomain \in Nat \ {0}
    /\ DNSNames \in BOOLEAN

VARIABLES
    gate,       \* feature gate ComputeDomainCliques
    cd,         \* the ComputeDomain's status in the API server
    pod,        \* per node: the daemon pod
    mgr,        \* per node: the daemon's ComputeDomainStatusManager
    registry,   \* the cliques' entries
    ctrl        \* the controller

vars == <<gate, cd, pod, mgr, registry, ctrl>>

-----------------------------------------------------------------------------
Fabric == {n \in Nodes : CliqueOf[n] # ""}
Indices == 0 .. (MaxNodesPerIMEXDomain - 1)
Status == {"Ready", "NotReady"}

(* ComputeDomainNode; its CliqueID is that of its node. *)
Entry == [node : Nodes, ip : IPs, index : Indices \cup {-1}, status : Status]

CDObject == [nodes : SUBSET Entry, status : Status]

(* A pod is labelled with its clique ID before its manager starts. *)
Pod == [phase : {"absent", "stopped", "unlabelled", "running"}, ip : IPs,
        ready : BOOLEAN]

(* The copy the mutation cache returns, whether the work item with key     *)
(* "cd" is queued for it, and the addresses last sent to the update loop   *)
(* (previousNodes).  The item "pod" needs no flag: the pod informer        *)
(* redelivers the pod every informerResyncPeriod, and a handled item finds *)
(* nothing to do.                                                          *)
Manager == [view : SUBSET Entry, current : BOOLEAN, item : BOOLEAN,
            pushed : SUBSET IPs]

(* Whether the lister's copy and the mutation cache's copy are current (a  *)
(* copy that is not can only be refused, and one that is, is the object),  *)
(* the pod informer's pods and the clique informer's entries, and whether  *)
(* a work item for a DaemonSet whose NumberReady was NumNodes is queued.   *)
(* Items without a key are retried until they succeed; the one of the      *)
(* ComputeDomain needs no flag, as above.                                  *)
Controller == [listerCurrent : BOOLEAN, viewCurrent : BOOLEAN,
               pods : SUBSET [node : Nodes, ip : IPs, labelled : BOOLEAN,
                              ready : BOOLEAN],
               cliques : SUBSET Entry,
               dsItem : BOOLEAN]

TypeOK ==
    /\ gate \in BOOLEAN
    /\ cd \in CDObject
    /\ pod \in [Nodes -> Pod]
    /\ mgr \in [Fabric -> Manager]
    /\ registry \in SUBSET Entry
    /\ ctrl \in Controller

StoppedManager == [view |-> {}, current |-> FALSE, item |-> FALSE,
                   pushed |-> {}]

Init ==
    /\ gate \in BOOLEAN
    /\ cd = [nodes |-> {}, status |-> "NotReady"]
    /\ pod \in [Nodes -> [phase : {"absent"}, ip : IPs, ready : {FALSE}]]
    /\ mgr = [n \in Fabric |-> StoppedManager]
    /\ registry = {}
    /\ ctrl = [listerCurrent |-> TRUE, viewCurrent |-> TRUE, pods |-> {},
               cliques |-> {}, dsItem |-> FALSE]

HasPod(n) == pod[n].phase # "absent"
Running(n) == pod[n].phase = "running"
PodStatus(n) == IF pod[n].ready THEN "Ready" ELSE "NotReady"

(* All daemons' copies are stale, except that of the writer. *)
Outdated(n) == [k \in Fabric |->
                  IF k = n THEN mgr[k] ELSE [mgr[k] EXCEPT !.current = FALSE]]

-----------------------------------------------------------------------------
(* The pods (DaemonSet controller and kubelet). *)

PodCreated(n, ip) ==
    /\ ~HasPod(n)
    /\ ip \in AddressesOf[n]
    /\ \A k \in Nodes : HasPod(k) => pod[k].ip # ip
    /\ pod' = [pod EXCEPT ![n] = [phase |-> "unlabelled", ip |-> ip,
                                  ready |-> FALSE]]
    /\ UNCHANGED <<gate, cd, mgr, registry, ctrl>>

(* run: addComputeDomainCliqueLabel; then, on a fabric node and without    *)
(* the gate, NewComputeDomainStatusManager and Start, which wait for the   *)
(* first list and enqueue it.                                              *)
DaemonStarts(n) ==
    /\ pod[n].phase \in {"unlabelled", "stopped"}
    /\ pod' = [pod EXCEPT ![n].phase = "running"]
    /\ mgr' = IF n \in Fabric /\ ~gate
              THEN [mgr EXCEPT ![n] =
                      [view |-> cd.nodes, current |-> TRUE, item |-> TRUE,
                       pushed |-> {}]]
              ELSE mgr
    /\ UNCHANGED <<gate, cd, registry, ctrl>>

(* The container ends without its manager's Stop. *)
DaemonKilled(n) ==
    /\ Running(n)
    /\ pod' = [pod EXCEPT ![n].phase = "stopped", ![n].ready = FALSE]
    /\ mgr' = [k \in Fabric |-> IF k = n THEN StoppedManager ELSE mgr[k]]
    /\ UNCHANGED <<gate, cd, registry, ctrl>>

PodDeleted(n) ==
    /\ pod[n].phase = "stopped"
    /\ pod' = [pod EXCEPT ![n].phase = "absent"]
    /\ UNCHANGED <<gate, cd, mgr, registry, ctrl>>

(* A probe changes the pod's Ready condition. *)
ReadinessChanged(n, ready) ==
    /\ Running(n)
    /\ pod[n].ready # ready
    /\ pod' = [pod EXCEPT ![n].ready = ready]
    /\ UNCHANGED <<gate, cd, mgr, registry, ctrl>>

-----------------------------------------------------------------------------
(* The daemon without the gate: ComputeDomainStatusManager. *)

InformerEvent(n) ==
    /\ Running(n)
    /\ ~gate
    /\ ~mgr[n].current
    /\ mgr' = [mgr EXCEPT ![n].view = cd.nodes, ![n].current = TRUE,
                          ![n].item = TRUE]
    /\ UNCHANGED <<gate, cd, pod, registry, ctrl>>

(* Daemon n's UpdateStatus succeeds with these nodes.  The controller      *)
(* learns of it through its informer only.                                 *)
Store(n, nodes, m) ==
    /\ cd' = [cd EXCEPT !.nodes = nodes]
    /\ mgr' = [Outdated(n) EXCEPT ![n] = [m EXCEPT !.view = nodes]]
    /\ ctrl' = [ctrl EXCEPT !.listerCurrent = FALSE, !.viewCurrent = FALSE]

OfClique(n, nodes) == {e \in nodes : CliqueOf[e.node] = CliqueOf[n]}

(* Mutant: the nodes of all cliques are counted. *)
CountedIndices(n, nodes) ==
    {Cardinality(nodes)} \cap Indices

(* getNextAvailableIndex: the lowest gap among the nodes of this clique,   *)
(* an error (the empty set) when there is none.                            *)
NextAvailableIndex(n, nodes) ==
    LET used == {e.index : e \in OfClique(n, nodes)} IN
    {i \in Indices \ used : \A j \in 0 .. (i - 1) : j \in used}

(* Mutant: a pod with a new address gets a new index. *)
ReinsertedNodes(n, nodes) ==
    LET others == {e \in nodes : e.node # n} IN
    {others \cup {[node |-> n, ip |-> pod[n].ip, index |-> i,
                   status |-> "NotReady"]} :
        i \in NextAvailableIndex(n, nodes)}

(* The lists syncNodeInfoToCD may send: this node's entry with the new     *)
(* address, or a new entry.                                                *)
SyncedNodes(n, nodes) ==
    LET mine == {e \in nodes : e.node = n} IN
    {(nodes \ {e}) \cup {[e EXCEPT !.ip = pod[n].ip]} : e \in mine}
    \cup
    {nodes \cup {[node |-> n, ip |-> pod[n].ip, index |-> i,
                  status |-> "NotReady"]} :
        i \in IF mine = {} THEN NextAvailableIndex(n, nodes) ELSE {}}

(* getIPSetForClique *)
IPSetForClique(n, nodes) == {e.ip : e \in OfClique(n, nodes)}

(* Mutant: the list is sent once, when the last node has joined. *)
PushedOnce(n, m, nodes) ==
    IF m.pushed = {} /\ (DNSNames \/ Cardinality(nodes) = NumNodes)
    THEN [m EXCEPT !.pushed = IPSetForClique(n, nodes)] ELSE m

(* maybePushNodesUpdate: without DNS names the list must have NumNodes     *)
(* nodes.                                                                  *)
MaybePushNodesUpdate(n, m, nodes) ==
    IF DNSNames \/ Cardinality(nodes) = NumNodes
    THEN [m EXCEPT !.pushed = IPSetForClique(n, nodes)] ELSE m

(* onAddOrUpdate and syncNodeInfoToCD.  An error (a stale copy, no index   *)
(* left) leaves the item queued.                                           *)
OnAddOrUpdate(n) ==
    LET m == [mgr[n] EXCEPT !.item = FALSE]
        upToDate == \E e \in m.view : e.node = n /\ e.ip = pod[n].ip
    IN
    /\ mgr[n].item
    /\ \/ /\ upToDate
          /\ mgr' = [mgr EXCEPT ![n] = MaybePushNodesUpdate(n, m, m.view)]
          /\ UNCHANGED <<cd, ctrl>>
       \/ /\ ~upToDate
          /\ m.current
          /\ \E nodes \in SyncedNodes(n, m.view) :
               Store(n, nodes, MaybePushNodesUpdate(n, m, nodes))
    /\ UNCHANGED <<gate, pod, registry>>

(* updateNodeStatus, when the entry has another status than the pod.  An   *)
(* error (no entry yet, a stale copy) leaves the item queued.              *)
UpdateNodeStatus(n) ==
    LET m == mgr[n] IN
    /\ Running(n)
    /\ m.current
    /\ \E e \in m.view :
         /\ e.node = n
         /\ e.status # PodStatus(n)
         /\ Store(n, (m.view \ {e}) \cup {[e EXCEPT !.status = PodStatus(n)]}, m)
    /\ UNCHANGED <<gate, pod, registry>>

(* Stop and removeNodeFromComputeDomain: one attempt to drop the entries   *)
(* with this pod's address; an error is only logged.                       *)
Stop(n) ==
    LET remaining == {e \in mgr[n].view : e.ip # pod[n].ip} IN
    /\ Running(n)
    /\ n \in Fabric
    /\ ~gate
    /\ pod' = [pod EXCEPT ![n].phase = "stopped", ![n].ready = FALSE]
    /\ IF mgr[n].current /\ remaining # mgr[n].view
       THEN /\ cd' = [cd EXCEPT !.nodes = remaining]
            /\ mgr' = [Outdated(n) EXCEPT ![n] = StoppedManager]
            /\ ctrl' = [ctrl EXCEPT !.listerCurrent = FALSE,
                                    !.viewCurrent = FALSE]
       ELSE /\ mgr' = [mgr EXCEPT ![n] = StoppedManager]
            /\ UNCHANGED <<cd, ctrl>>
    /\ UNCHANGED <<gate, registry>>

-----------------------------------------------------------------------------
(* The daemon with the gate: what module CDClique promises. *)

(* This node's entry gets this pod's address and readiness. *)
CliqueUpdated(n) ==
    LET mine == {e \in registry : e.node = n}
        new == [node |-> n, ip |-> pod[n].ip, status |-> PodStatus(n)]
        index == {e.index : e \in mine} \cup
                 (IF mine = {} THEN NextAvailableIndex(n, registry) ELSE {})
    IN
    /\ gate
    /\ n \in Fabric
    /\ Running(n)
    /\ \E i \in index :
         registry' = (registry \ mine) \cup
                     {[node |-> n, ip |-> new.ip, index |-> i,
                       status |-> new.status]}
    /\ UNCHANGED <<gate, cd, pod, mgr, ctrl>>

(* The daemon or cleanupClique removes the entry of a pod that is gone. *)
CliqueCleaned(n) ==
    /\ gate
    /\ ~HasPod(n)
    /\ \E e \in registry : e.node = n
    /\ registry' = {e \in registry : e.node # n}
    /\ UNCHANGED <<gate, cd, pod, mgr, ctrl>>

-----------------------------------------------------------------------------
(* The controller. *)

(* calculateGlobalStatus *)
CalculateGlobalStatus(nodes) ==
    IF /\ Cardinality(nodes) >= NumNodes
       /\ \A e \in nodes : e.status # "NotReady"
    THEN "Ready" ELSE "NotReady"

(* The ComputeDomain informer delivers the newest version. *)
CtrlInformerEvent ==
    /\ ~ctrl.listerCurrent
    /\ ctrl' = [ctrl EXCEPT !.listerCurrent = TRUE, !.viewCurrent = TRUE]
    /\ UNCHANGED <<gate, cd, pod, mgr, registry>>

(* The pod informer catches up. *)
ObservePods ==
    /\ ctrl' = [ctrl EXCEPT !.pods =
                  {[node |-> n, ip |-> pod[n].ip,
                    labelled |-> pod[n].phase # "unlabelled",
                    ready |-> pod[n].ready] : n \in {k \in Nodes : HasPod(k)}}]
    /\ UNCHANGED <<gate, cd, pod, mgr, registry>>

(* The clique informer catches up with one clique, that of n. *)
ObserveClique(n) ==
    LET same(e) == CliqueOf[e.node] = CliqueOf[n]
        new == {e \in ctrl.cliques : ~same(e)} \cup {e \in registry : same(e)}
    IN
    /\ gate
    /\ new # ctrl.cliques
    /\ ctrl' = [ctrl EXCEPT !.cliques = new]
    /\ UNCHANGED <<gate, cd, pod, mgr, registry>>

(* The status manager's and the handler's UpdateStatus succeeds: the       *)
(* mutation cache has the new version, the lister does not.                *)
CtrlStore(nodes) ==
    LET new == [nodes |-> nodes, status |-> CalculateGlobalStatus(nodes)] IN
    /\ new # cd
    /\ cd' = new
    /\ mgr' = [n \in Fabric |-> [mgr[n] EXCEPT !.current = FALSE]]
    /\ ctrl' = [ctrl EXCEPT !.listerCurrent = FALSE, !.viewCurrent = TRUE]

(* buildNodesFromCliques: an entry per daemon of the cliques as the lister *)
(* has them.                                                               *)
NodesFromCliques == ctrl.cliques

(* sync's grouping: pods whose clique label is empty have no fabric. *)
NonFabricPods == {p \in ctrl.pods : p.labelled /\ p.node \notin Fabric}
FabricPods == ctrl.pods \ NonFabricPods

(* buildNodesFromPods *)
NodesFromPods ==
    {[node |-> p.node, ip |-> p.ip, index |-> -1,
      status |-> IF p.ready THEN "Ready" ELSE "NotReady"] : p \in NonFabricPods}

(* Mutant: an entry is kept as long as its pod is ready. *)
ReadyFabricNodes ==
    {e \in cd.nodes : /\ e.node \in Fabric
                      /\ \E p \in FabricPods : p.ip = e.ip /\ p.ready}

(* Mutant: an entry is kept as long as there is a pod. *)
AllFabricNodes ==
    {e \in cd.nodes : e.node \in Fabric /\ FabricPods # {}}

(* getNonStaleFabricNodes: what counts is the address. *)
NonStaleFabricNodes ==
    {e \in cd.nodes : /\ e.node \in Fabric
                      /\ \E p \in FabricPods : p.ip = e.ip}

(* sync and syncCD, for this ComputeDomain.  A conflict is only logged:    *)
(* the next tick tries again.                                              *)
SyncCD ==
    LET nodes == (IF gate THEN NodesFromCliques ELSE NonStaleFabricNodes)
                 \cup NodesFromPods
    IN
    /\ nodes # cd.nodes
    /\ ctrl.listerCurrent
    /\ CtrlStore(nodes)
    /\ UNCHANGED <<gate, pod, registry>>

(* Mutant: updateGlobalStatus leaves a domain that is Ready alone. *)
StickyReady ==
    /\ cd.status = "NotReady"
    /\ cd.status # CalculateGlobalStatus(cd.nodes)
    /\ ctrl.viewCurrent
    /\ CtrlStore(cd.nodes)
    /\ UNCHANGED <<gate, pod, registry>>

(* updateGlobalStatus, the end of the ComputeDomain's onAddOrUpdate.  A    *)
(* conflict leaves the item queued.                                        *)
UpdateGlobalStatus ==
    /\ cd.status # CalculateGlobalStatus(cd.nodes)
    /\ ctrl.viewCurrent
    /\ CtrlStore(cd.nodes)
    /\ UNCHANGED <<gate, pod, registry>>

(* The DaemonSet informer delivers a status with NumNodes ready pods, or   *)
(* redelivers it.  An item carries the DaemonSet it was made for; other    *)
(* values of NumberReady make the handler return.                          *)
DaemonSetEvent ==
    /\ Cardinality({n \in Nodes : pod[n].ready}) = NumNodes
    /\ ctrl' = [ctrl EXCEPT !.dsItem = TRUE]
    /\ UNCHANGED <<gate, cd, pod, mgr, registry>>

(* The DaemonSet's onAddOrUpdate: the status becomes Ready, whatever the   *)
(* nodes, without the mutation cache.  A conflict leaves the item queued.  *)
OnDaemonSet ==
    /\ ctrl.dsItem
    /\ ctrl.viewCurrent
    /\ cd' = [cd EXCEPT !.status = "Ready"]
    /\ IF cd.status = "Ready"
       THEN /\ ctrl' = [ctrl EXCEPT !.dsItem = FALSE]
            /\ UNCHANGED mgr
       ELSE /\ ctrl' = [ctrl EXCEPT !.dsItem = FALSE,
                                    !.listerCurrent = FALSE,
                                    !.viewCurrent = FALSE]
            /\ mgr' = [n \in Fabric |-> [mgr[n] EXCEPT !.current = FALSE]]
    /\ UNCHANGED <<gate, pod, registry>>

-----------------------------------------------------------------------------
(* What happens to pods. *)
Disturbance ==
    \E n \in Nodes :
        DaemonKilled(n) \/ Stop(n) \/ ReadinessChanged(n, FALSE)

Undisturbed ==
    \/ \E n \in Nodes, ip \in IPs : PodCreated(n, ip)
    \/ \E n \in Nodes :
         DaemonStarts(n) \/ PodDeleted(n) \/ ReadinessChanged(n, TRUE)
    \/ \E n \in Fabric :
         \/ InformerEvent(n)
         \/ OnAddOrUpdate(n)
         \/ UpdateNodeStatus(n)
         \/ CliqueUpdated(n)
         \/ CliqueCleaned(n)
         \/ ObserveClique(n)
    \/ CtrlInformerEvent
    \/ ObservePods
    \/ SyncCD
    \/ UpdateGlobalStatus
    \/ DaemonSetEvent
    \/ OnDaemonSet

Next == Disturbance \/ Undisturbed

Spec == Init /\ [][Next]_vars

(* Informers deliver and redeliver, the daemons' workers run their items   *)
(* and retry with jittered back-off (pkg/workqueue), and the controller's  *)
(* ticker fires, so that no writer loses every race for the current        *)
(* version.  Pods owe nothing, and no DaemonSet event need come.           *)
Fairness ==
    /\ \A n \in Fabric :
         /\ WF_vars(InformerEvent(n))
         /\ SF_vars(OnAddOrUpdate(n))
         /\ SF_vars(UpdateNodeStatus(n))
         /\ WF_vars(CliqueUpdated(n))
         /\ WF_vars(CliqueCleaned(n))
         /\ WF_vars(ObserveClique(n))
    /\ WF_vars(CtrlInformerEvent)
    /\ WF_vars(ObservePods)
    /\ SF_vars(SyncCD)
    /\ WF_vars(UpdateGlobalStatus)

-----------------------------------------------------------------------------
(* Properties *)

(* A node has one entry, and no two nodes of a clique the same index. *)
Unique(nodes) ==
    \A d, e \in nodes :
        \/ d.node = e.node
        \/ /\ d.node \in Fabric
           /\ CliqueOf[d.node] = CliqueOf[e.node]
           /\ d.index = e.index
        => d = e

(* "The 2-tuple of (CliqueID, Index) will always be unique"                *)
(* (ComputeDomainNode): although daemons insert themselves from stale      *)
(* copies, and the controller filters the list from another stale copy at  *)
(* the same time.                                                          *)
IndexUnique == Unique(cd.nodes)

(* A copy that the API server would accept is the object. *)
CurrentCopies == \A n \in Fabric : mgr[n].current => mgr[n].view = cd.nodes

(* Nodes without fabric have no index. *)
NoIndex == \A e \in cd.nodes : e.node \notin Fabric => e.index = -1

(* What the controller copies into the status. *)
SourcesUnique ==
    /\ Unique(registry) /\ Unique(ctrl.cliques)
    /\ \A e \in registry \cup ctrl.cliques : e.node \in Fabric
    /\ \A p, q \in ctrl.pods : p.node = q.node => p = q

(* With these, IndexUnique is inductive. *)
StatusInv ==
    /\ TypeOK
    /\ CurrentCopies
    /\ NoIndex
    /\ SourcesUnique
    /\ IndexUnique

(* A node's entry keeps its index as long as it is listed without the      *)
(* gate, whoever rewrites the list.                                        *)
StableIndex ==
    [][~gate => \A d \in cd.nodes, e \in cd'.nodes :
                   d.node = e.node => d.index = e.index]_vars

(* A daemon with nothing left to do for its copy has sent the addresses of *)
(* that copy to its update loop, unless it has to wait for NumNodes nodes. *)
AddressesPushed ==
    \A n \in Fabric :
        LET m == mgr[n] IN
        /\ ~gate
        /\ Running(n)
        /\ ~m.item
        /\ DNSNames \/ Cardinality(m.view) = NumNodes
        => m.pushed = IPSetForClique(n, m.view)

(* The entry of a running pod, as it should be. *)
Reported(n) ==
    \E e \in cd.nodes :
        e.node = n /\ e.ip = pod[n].ip /\ e.status = PodStatus(n)

(* An index is left for a node that is not listed. *)
HasRoom(n) ==
    \/ n \notin Fabric
    \/ \E e \in cd.nodes : e.node = n
    \/ NextAvailableIndex(n, cd.nodes) # {}

(* When pods stop changing, every running daemon is listed for good with   *)
(* its address and readiness, whichever of its updates met a conflict or   *)
(* was removed on the strength of an old pod list.                         *)
EventuallyReported ==
    \A n \in Nodes :
        <>[](Running(n) /\ HasRoom(n)) => <>[](Reported(n) \/ ~HasRoom(n))

(* A pod that counts as fabric-attached has this address. *)
AddressInUse(ip) ==
    \E k \in Nodes :
        /\ HasPod(k)
        /\ pod[k].ip = ip
        /\ k \in Fabric \/ pod[k].phase = "unlabelled"

(* The entry of a pod that is gone is eventually removed for good, also    *)
(* when its daemon was killed or its own removal met a conflict; but not   *)
(* as long as another pod has its address, which is all that               *)
(* getNonStaleFabricNodes looks at.                                        *)
EventuallyRemoved ==
    \A n \in Nodes :
        <>[]~HasPod(n) =>
            <>[](\A e \in cd.nodes : e.node = n => AddressInUse(e.ip))

(* The DaemonSet handler may report Ready for nodes that are not; the      *)
(* global status returns to what the nodes say, again and again.           *)
StatusFollowsNodes == []<>(cd.status = CalculateGlobalStatus(cd.nodes))

=============================================================================
