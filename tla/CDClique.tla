------------------------------ MODULE CDClique ------------------------------
(***************************************************************************)
(* One ComputeDomainClique object and the processes that write it: the     *)
(* ComputeDomain daemons of the nodes of one NVLink clique (one pod per    *)
(* node), the controller's cleanupClique goroutines, and the garbage       *)
(* collector, which follows the object's owner references.                 *)
(*                                                                         *)
(* Every writer works on a cached copy of the object, and the API server   *)
(* accepts an Update only when the copy carries the current                *)
(* resourceVersion.  Instead of counting versions, the model keeps for     *)
(* every copy whether it is still current: every successful write makes    *)
(* all other copies stale, which is all that comparing resourceVersions    *)
(* can observe.  A refused Update changes nothing; the work item stays     *)
(* queued, as in pkg/workqueue.                                            *)
(*                                                                         *)
(* The Daemons list is a set: no code depends on its order, and nothing    *)
(* in the representation prevents two entries for one node or two entries  *)
(* with one index.  What a daemon does with the list it sees is in module  *)
(* DNSNames.                                                               *)
(***************************************************************************)
EXTENDS Integers, FiniteSets

CONSTANTS
    Nodes,                  \* the nodes of the clique
    IPs,                    \* pod IP addresses, reused once a pod is gone
    MaxNodesPerIMEXDomain   \* number of indices, main.go maxNodesPerIMEXDomain

ASSUME CDCliqueAssumption == MaxNodesPerIMEXDomain \in Nat \ {0}

VARIABLES
    clique,     \* the object in the API server
    pod,        \* per node: the daemon pod and its container
    mgr,        \* per node: the ComputeDomainCliqueManager of that container
    ctrlPods,   \* nodes with a pod according to the controller's pod informer
    cleanups    \* runningNodes of the cleanupClique goroutines in flight that
                \* captured the current version (others can only conflict)

vars == <<clique, pod, mgr, ctrlPods, cleanups>>

-----------------------------------------------------------------------------
Indices == 0 .. (MaxNodesPerIMEXDomain - 1)
Status == {"Ready", "NotReady"}

(* ComputeDomainDaemonInfo.  All entries carry the clique's CliqueID. *)
Daemon == [node : Nodes, ip : IPs, index : Indices, status : Status]

(* The object: its Daemons, and its owner references.  A node stands for   *)
(* its present pod; `orphans` says that there are references to pods that  *)
(* are gone.                                                               *)
CliqueObject == [exists : BOOLEAN, daemons : SUBSET Daemon,
                 owners : SUBSET Nodes, orphans : BOOLEAN]

NoClique == [exists |-> FALSE, daemons |-> {}, owners |-> {},
             orphans |-> FALSE]

(* A cached copy.  The owner references of a copy are only used in an      *)
(* Update, which needs a current copy: they are those of the object.       *)
View == [exists : BOOLEAN, daemons : SUBSET Daemon]
NoView == [exists |-> FALSE, daemons |-> {}]
ViewOf(c) == [exists |-> c.exists, daemons |-> c.daemons]

Pod == [phase : {"absent", "stopped", "running"}, ip : IPs, ready : BOOLEAN]

(* The state of a daemon process: the copy of the object its mutation      *)
(* cache returns, whether the API server would accept an Update of it, and *)
(* whether the work items ensureCliqueExists and "pod" are pending.  The   *)
(* item "cdclique" needs no flag: it is pending whenever the copy lacks    *)
(* this pod, since every event enqueues it and every error retries it.     *)
Manager == [view : View, current : BOOLEAN, ensure : BOOLEAN,
            status : BOOLEAN]

(* NewComputeDomainCliqueManager and Start, which enqueues                 *)
(* ensureCliqueExists; the pod informer's first event enqueues "pod".      *)
NewManager == [view |-> NoView, current |-> FALSE, ensure |-> TRUE,
               status |-> TRUE]

TypeOK ==
    /\ clique \in CliqueObject
    /\ pod \in [Nodes -> Pod]
    /\ mgr \in [Nodes -> Manager]
    /\ ctrlPods \in SUBSET Nodes
    /\ cleanups \in SUBSET SUBSET Nodes

Init ==
    /\ clique = NoClique
    /\ pod \in [Nodes -> [phase : {"absent"}, ip : IPs, ready : {FALSE}]]
    /\ mgr = [n \in Nodes |-> NewManager]
    /\ ctrlPods = {}
    /\ cleanups = {}

-----------------------------------------------------------------------------
Running(n) == pod[n].phase = "running"
HasPod(n) == pod[n].phase # "absent"

(* The API server stores version c, written by the daemon of node n, whose *)
(* next state is m: every other copy is now stale.                         *)
Store(c, n, m) ==
    /\ clique' = c
    /\ mgr' = [k \in Nodes |->
                 IF k = n THEN m ELSE [mgr[k] EXCEPT !.current = FALSE]]
    /\ cleanups' = {}

(* The API server stores version c, written by somebody else. *)
StoreByOther(c) ==
    /\ clique' = c
    /\ mgr' = [k \in Nodes |-> [mgr[k] EXCEPT !.current = FALSE]]
    /\ cleanups' = {}

-----------------------------------------------------------------------------
(* The pods (DaemonSet controller and kubelet). *)

(* A pod gets an address no other pod has; its container starts. *)
PodCreated(n, ip) ==
    /\ ~HasPod(n)
    /\ \A m \in Nodes : HasPod(m) => pod[m].ip # ip
    /\ pod' = [pod EXCEPT ![n] = [phase |-> "running", ip |-> ip,
                                  ready |-> FALSE]]
    /\ UNCHANGED <<clique, mgr, ctrlPods, cleanups>>

(* The container restarts in its pod: same owner reference, same address. *)
ContainerRestarted(n) ==
    /\ pod[n].phase = "stopped"
    /\ pod' = [pod EXCEPT ![n].phase = "running"]
    /\ UNCHANGED <<clique, mgr, ctrlPods, cleanups>>

(* The container is killed before it can remove its entry.  What its       *)
(* process knew is lost.                                                   *)
ContainerKilled(n) ==
    /\ Running(n)
    /\ pod' = [pod EXCEPT ![n].phase = "stopped", ![n].ready = FALSE]
    /\ mgr' = [mgr EXCEPT ![n] = NewManager]
    /\ UNCHANGED <<clique, ctrlPods, cleanups>>

PodDeleted(n) ==
    /\ pod[n].phase = "stopped"
    /\ pod' = [pod EXCEPT ![n].phase = "absent"]
    /\ clique' = [clique EXCEPT !.owners = @ \ {n},
                                !.orphans = @ \/ n \in clique.owners]
    /\ UNCHANGED <<mgr, ctrlPods, cleanups>>

(* A probe changes the pod's Ready condition; the pod informer enqueues    *)
(* the work item with key "pod".                                           *)
ReadinessChanged(n) ==
    /\ Running(n)
    /\ pod' = [pod EXCEPT ![n].ready = ~@]
    /\ mgr' = [mgr EXCEPT ![n].status = TRUE]
    /\ UNCHANGED <<clique, ctrlPods, cleanups>>

-----------------------------------------------------------------------------
(* The daemon: ComputeDomainCliqueManager. *)

(* Mutant: the informer has no UpdateFunc. *)
InformerAddOnly(n) ==
    /\ Running(n)
    /\ ~mgr[n].current
    /\ clique.exists
    /\ ~mgr[n].view.exists
    /\ mgr' = [mgr EXCEPT ![n].view = ViewOf(clique),
                          ![n].current = TRUE, ![n].ensure = FALSE]
    /\ UNCHANGED <<clique, pod, ctrlPods, cleanups>>

(* The informer delivers the newest version and enqueues the work item     *)
(* with key "cdclique", which takes the place of ensureCliqueExists under  *)
(* that key.  For a deletion there is no handler.                          *)
InformerEvent(n) ==
    /\ Running(n)
    /\ ~mgr[n].current
    /\ \/ /\ clique.exists
          /\ mgr' = [mgr EXCEPT ![n].view = ViewOf(clique),
                                ![n].current = TRUE, ![n].ensure = FALSE]
       \/ /\ ~clique.exists
          /\ mgr[n].view.exists
          /\ mgr' = [mgr EXCEPT ![n].view = NoView]
    /\ UNCHANGED <<clique, pod, ctrlPods, cleanups>>

(* Mutant: an informer without a resync period. *)
NoResync(n) ==
    /\ Running(n)
    /\ UNCHANGED vars

(* The pod informer redelivers its pod every informerResyncPeriod.  (That  *)
(* of the clique does so too: onAddOrUpdate has nothing to do for a copy   *)
(* it has handled, and an item it has not handled is still queued.)        *)
Resync(n) ==
    /\ Running(n)
    /\ mgr' = [mgr EXCEPT ![n].status = TRUE]
    /\ UNCHANGED <<clique, pod, ctrlPods, cleanups>>

(* ensureCliqueExists, as long as no copy is known.  An AlreadyExists      *)
(* error leaves the item queued.                                           *)
EnsureCliqueExists(n) ==
    LET c == [exists |-> TRUE, daemons |-> {}, owners |-> {n},
              orphans |-> FALSE] IN
    /\ Running(n)
    /\ mgr[n].ensure
    /\ ~clique.exists
    /\ Store(c, n, [mgr[n] EXCEPT !.view = ViewOf(c), !.current = TRUE,
                                  !.ensure = FALSE])
    /\ UNCHANGED <<pod, ctrlPods>>

FreeIndices(daemons) == {i \in Indices : \A d \in daemons : d.index # i}

(* getNextAvailableIndex returns i: the lowest gap. *)
NextAvailableIndex(i, daemons) ==
    /\ i \in FreeIndices(daemons)
    /\ \A j \in FreeIndices(daemons) : i <= j

(* syncDaemonInfoToClique's early return: this node is listed with the     *)
(* address of this pod.                                                    *)
UpToDate(n, daemons) == \E d \in daemons : d.node = n /\ d.ip = pod[n].ip

(* The lists syncDaemonInfoToClique may send: the entry of this node gets  *)
(* the new address and keeps its index and status, or, when there is none, *)
(* a new entry is appended.  Empty when every index is taken (an error).   *)
SyncedDaemons(n, daemons) ==
    LET mine == {d \in daemons : d.node = n}
        free == {i \in Indices : mine = {} /\ NextAvailableIndex(i, daemons)}
    IN  {(daemons \ {d}) \cup {[d EXCEPT !.ip = pod[n].ip]} : d \in mine}
        \cup
        {daemons \cup {[node |-> n, ip |-> pod[n].ip, index |-> i,
                        status |-> "NotReady"]} : i \in free}

(* Mutant: the Update carries no resourceVersion, the last write wins. *)
LastWriteWins(n) ==
    LET m == mgr[n] IN
    /\ Running(n)
    /\ m.view.exists
    /\ ~UpToDate(n, m.view.daemons)
    /\ clique.exists
    /\ \E new \in SyncedDaemons(n, m.view.daemons) :
         LET c == [clique EXCEPT !.daemons = new, !.owners = @ \cup {n}]
         IN Store(c, n, [m EXCEPT !.view = ViewOf(c)])
    /\ UNCHANGED <<pod, ctrlPods>>

(* onAddOrUpdate, for a copy that calls for an Update (another copy is     *)
(* only passed on to maybePushDaemonsUpdate).  A stale copy makes the      *)
(* Update fail, and the item is retried.                                   *)
OnAddOrUpdate(n) ==
    LET m == mgr[n] IN
    /\ Running(n)
    /\ m.view.exists
    /\ ~UpToDate(n, m.view.daemons)
    /\ m.current
    /\ \E new \in SyncedDaemons(n, m.view.daemons) :
         LET c == [clique EXCEPT !.daemons = new, !.owners = @ \cup {n}]
         IN Store(c, n, [m EXCEPT !.view = ViewOf(c)])
    /\ UNCHANGED <<pod, ctrlPods>>

(* PodManager.addOrUpdate and isPodReady. *)
PodStatus(n) == IF pod[n].ready THEN "Ready" ELSE "NotReady"

(* updateDaemonStatus, called by PodManager.addOrUpdate for work items     *)
(* with key "pod".  An error (no entry yet, stale copy) leaves the item    *)
(* queued.                                                                 *)
UpdateDaemonStatus(n) ==
    LET m == mgr[n]
        status == PodStatus(n)
    IN
    /\ Running(n)
    /\ m.status
    /\ \E d \in m.view.daemons :
         /\ d.node = n
         /\ \/ /\ d.status = status
               /\ mgr' = [mgr EXCEPT ![n].status = FALSE]
               /\ UNCHANGED <<clique, cleanups>>
            \/ /\ d.status # status
               /\ m.current
               /\ LET c == [clique EXCEPT !.daemons =
                              (m.view.daemons \ {d})
                              \cup {[d EXCEPT !.status = status]}]
                  IN Store(c, n, [m EXCEPT !.view = ViewOf(c),
                                           !.status = FALSE])
    /\ UNCHANGED <<pod, ctrlPods>>

(* removeDaemonInfoFromClique drops every entry with this pod's address. *)
RemainingDaemons(n) == {d \in mgr[n].view.daemons : d.ip # pod[n].ip}

(* Stop: one attempt to remove the entry; a conflict is only logged. *)
Stop(n) ==
    LET remaining == RemainingDaemons(n) IN
    /\ Running(n)
    /\ pod' = [pod EXCEPT ![n].phase = "stopped", ![n].ready = FALSE]
    /\ IF mgr[n].current /\ remaining # mgr[n].view.daemons
       THEN Store([clique EXCEPT !.daemons = remaining], n, NewManager)
       ELSE /\ mgr' = [mgr EXCEPT ![n] = NewManager]
            /\ UNCHANGED <<clique, cleanups>>
    /\ UNCHANGED ctrlPods

-----------------------------------------------------------------------------
(* The controller: ComputeDomainStatusManager. *)

(* Mutant: deletions of pods are missed. *)
ObserveNewPods ==
    /\ ctrlPods' = ctrlPods \cup {n \in Nodes : HasPod(n)}
    /\ UNCHANGED <<clique, pod, mgr, cleanups>>

(* The controller's pod informer catches up. *)
ObservePods ==
    /\ ctrlPods' = {n \in Nodes : HasPod(n)}
    /\ UNCHANGED <<clique, pod, mgr, cleanups>>

(* The part of sync that concerns this clique: the lister's copy and the   *)
(* pods it knows go to a goroutine of their own, which returns at once     *)
(* when there is nothing to clean up.  A copy that is not current is not   *)
(* followed further: its Update can only be refused.                       *)
SyncCliques ==
    /\ \E d \in clique.daemons : d.node \notin ctrlPods
    /\ cleanups' = cleanups \cup {ctrlPods}
    /\ UNCHANGED <<clique, pod, mgr, ctrlPods>>

(* cleanupClique drops the entries of nodes without a daemon pod. *)
CleanupClique(runningNodes) ==
    /\ StoreByOther([clique EXCEPT !.daemons =
                        {d \in @ : d.node \in runningNodes}])
    /\ UNCHANGED <<pod, ctrlPods>>

(* The garbage collector drops owner references to pods that are gone, and *)
(* deletes the object when no owner is left.                               *)
CollectGarbage ==
    /\ clique.exists
    /\ clique.orphans
    /\ StoreByOther(IF clique.owners = {} THEN NoClique
                    ELSE [clique EXCEPT !.orphans = FALSE])
    /\ UNCHANGED <<pod, ctrlPods>>

-----------------------------------------------------------------------------
Next ==
    \/ \E n \in Nodes, ip \in IPs : PodCreated(n, ip)
    \/ \E n \in Nodes :
         \/ ContainerRestarted(n)
         \/ ContainerKilled(n)
         \/ PodDeleted(n)
         \/ ReadinessChanged(n)
         \/ InformerEvent(n)
         \/ Resync(n)
         \/ EnsureCliqueExists(n)
         \/ OnAddOrUpdate(n)
         \/ UpdateDaemonStatus(n)
         \/ Stop(n)
    \/ ObservePods
    \/ SyncCliques
    \/ \E runningNodes \in cleanups : CleanupClique(runningNodes)
    \/ CollectGarbage

Spec == Init /\ [][Next]_vars

(* The informers deliver, the work queue's worker runs and retries (with   *)
(* jittered back-off, so that no writer loses every race for the current   *)
(* version), and the controller's ticker fires.  Pods owe nothing.         *)
Fairness ==
    /\ \A n \in Nodes :
         /\ WF_vars(InformerEvent(n))
         /\ WF_vars(Resync(n))
         /\ WF_vars(EnsureCliqueExists(n))
         /\ SF_vars(OnAddOrUpdate(n))
         /\ SF_vars(UpdateDaemonStatus(n))
    /\ WF_vars(ObservePods)
    /\ WF_vars(SyncCliques)
    /\ SF_vars(\E runningNodes \in cleanups : CleanupClique(runningNodes))

FairSpec == Spec /\ Fairness

-----------------------------------------------------------------------------
(* Properties *)

(* A copy whose Update the API server would accept is the object: this is  *)
(* what makes read-modify-write on caches safe (syncDaemonInfoToClique,    *)
(* updateDaemonStatus, removeDaemonInfoFromClique).                        *)
CurrentCopies ==
    \A n \in Nodes : mgr[n].current => mgr[n].view = ViewOf(clique)

(* Two entries never share a node or an index, whatever daemons race to    *)
(* insert themselves while others restart or are cleaned up: the DNS name  *)
(* compute-domain-daemon-<index> denotes one daemon.                       *)
SlotsDistinct ==
    \A d, e \in clique.daemons :
        d.node = e.node \/ d.index = e.index => d = e

(* A node that stays listed keeps its index, even when its pod comes back  *)
(* with another address ("we maintain stable DNS names for existing        *)
(* daemons", getNextAvailableIndex).                                       *)
StableIndex ==
    [][\A d \in clique.daemons, e \in clique'.daemons :
          d.node = e.node => d.index = e.index]_vars

(* The strengthening under which SlotsDistinct is inductive: an insertion  *)
(* is computed from a copy, and is safe because only a current copy is     *)
(* accepted and a current copy is the object.                              *)
IndInv ==
    /\ TypeOK
    /\ CurrentCopies
    /\ SlotsDistinct
    /\ ~clique.exists => clique.daemons = {}

(* The caches, conflicts and retries implement an atomic slot registry. *)
Registry == INSTANCE SlotRegistry WITH
    slots <- {[node |-> d.node, index |-> d.index] : d \in clique.daemons}
ImplementsRegistry == Registry!Spec

Listed(n) == UpToDate(n, clique.daemons)

(* There is no entry for this node, and no index left for it. *)
Full(n) ==
    /\ FreeIndices(clique.daemons) = {}
    /\ \A d \in clique.daemons : d.node # n

(* A daemon that keeps running is eventually, and then permanently, listed *)
(* with its pod's address, although the controller may remove a live       *)
(* entry on the strength of a pod list that is behind.  (Unless the object *)
(* is garbage collected, or there are more nodes than indices.)            *)
EventuallyListed ==
    \A n \in Nodes :
        <>[]Running(n) =>
            <>[](Listed(n) \/ ~clique.exists \/ Full(n))

(* The entry of a pod that stays ready is eventually Ready for good: an    *)
(* entry re-inserted as NotReady, or one taken over from an earlier pod,   *)
(* is corrected although the pod does not change any more.                 *)
EventuallyReady ==
    \A n \in Nodes :
        <>[](Running(n) /\ pod[n].ready /\ clique.exists) =>
            <>[]\/ Full(n)
                \/ \E d \in clique.daemons : d.node = n /\ d.status = "Ready"

(* The entry of a node whose pod is gone for good is eventually removed,   *)
(* also when the daemon was killed or its own removal met a conflict.      *)
EventuallyCleaned ==
    \A n \in Nodes :
        <>[]~HasPod(n) => <>[](\A d \in clique.daemons : d.node # n)

=============================================================================
