--------------------------- MODULE CDStatusProofs ---------------------------
(***************************************************************************)
(* Proofs about CDStatus for every set of nodes, cliques and addresses and *)
(* every number of indices: whoever rewrites the list of nodes, and from   *)
(* whatever copy, a node has one entry, indices are unique within a clique *)
(* and a listed node keeps its own; and a daemon that has nothing to do    *)
(* has sent the addresses it knows.                                        *)
(***************************************************************************)
EXTENDS CDStatus, FiniteSetTheorems, TLAPS

-----------------------------------------------------------------------------
(* Lists of nodes *)

(* A part of a list without duplicates has none. *)
LEMMA UniqueSubset ==
    ASSUME NEW S, NEW T, T \subseteq S, Unique(S)
    PROVE  Unique(T)
BY DEF Unique

(* An entry may change in address and status. *)
LEMMA UniqueReplaced ==
    ASSUME NEW S, Unique(S), NEW e \in S, NEW f,
           f.node = e.node, f.index = e.index
    PROVE  Unique((S \ {e}) \cup {f})
<1>1. SUFFICES ASSUME NEW c \in (S \ {e}) \cup {f}, NEW d \in (S \ {e}) \cup {f},
                      \/ c.node = d.node
                      \/ /\ c.node \in Fabric
                         /\ CliqueOf[c.node] = CliqueOf[d.node]
                         /\ c.index = d.index
               PROVE  c = d
  BY DEF Unique
<1>2. CASE c \in S \ {e} /\ d \in S \ {e}
  BY <1>1, <1>2 DEF Unique
<1>3. CASE c = f /\ d \in S \ {e}
  BY <1>1, <1>3 DEF Unique
<1>4. CASE c \in S \ {e} /\ d = f
  BY <1>1, <1>4 DEF Unique
<1> QED
  BY <1>1, <1>2, <1>3, <1>4

(* A node that is not listed may be added with an index that its clique    *)
(* does not use.                                                           *)
LEMMA UniqueAdded ==
    ASSUME NEW S, Unique(S), NEW f,
           \A e \in S : e.node # f.node,
           \A e \in S : CliqueOf[e.node] = CliqueOf[f.node] => e.index # f.index
    PROVE  Unique(S \cup {f})
BY DEF Unique

(* getNextAvailableIndex gives an index that the clique does not use. *)
LEMMA NextIndexFacts ==
    ASSUME NEW n \in Nodes, NEW S, NEW i \in NextAvailableIndex(n, S)
    PROVE  /\ i \in Indices
           /\ \A e \in S : CliqueOf[e.node] = CliqueOf[n] => e.index # i
BY DEF NextAvailableIndex, OfClique

(* What every new list is: well-formed, without duplicates, and of nodes   *)
(* that keep their index unless the cliques are copied.                    *)
Good(nodes) ==
    /\ nodes \subseteq Entry
    /\ Unique(nodes)
    /\ \A e \in nodes : e.node \notin Fabric => e.index = -1
    /\ ~gate => \A d \in cd.nodes, e \in nodes : d.node = e.node => d.index = e.index

(* The list itself. *)
LEMMA GoodSame ==
    ASSUME StatusInv
    PROVE  Good(cd.nodes)
BY DEF StatusInv, TypeOK, CDObject, NoIndex, IndexUnique, Unique, Good

(* What a daemon drops. *)
LEMMA GoodSubset ==
    ASSUME StatusInv, NEW T, T \subseteq cd.nodes
    PROVE  Good(T)
<1>1. Good(cd.nodes)
  BY GoodSame
<1>2. Unique(T)
  BY <1>1, UniqueSubset DEF Good
<1> QED
  BY <1>1, <1>2 DEF Good

(* What a daemon changes in its entry. *)
LEMMA GoodReplaced ==
    ASSUME StatusInv, NEW e \in cd.nodes, NEW f \in Entry,
           f.node = e.node, f.index = e.index
    PROVE  Good((cd.nodes \ {e}) \cup {f})
<1>1. Good(cd.nodes)
  BY GoodSame
<1>2. Unique((cd.nodes \ {e}) \cup {f})
  BY <1>1, UniqueReplaced DEF Good
<1>3. ASSUME ~gate, NEW c \in cd.nodes, NEW d \in (cd.nodes \ {e}) \cup {f},
             c.node = d.node
      PROVE  c.index = d.index
  BY <1>1, <1>3 DEF Good
<1> QED
  BY <1>1, <1>2, <1>3 DEF Good

(* syncNodeInfoToCD keeps the list free of duplicates. *)
LEMMA GoodSynced ==
    ASSUME StatusInv, NEW n \in Fabric, NEW nodes \in SyncedNodes(n, cd.nodes)
    PROVE  Good(nodes)
<1> DEFINE mine == {e \in cd.nodes : e.node = n}
<1>1. /\ pod[n].ip \in IPs /\ n \in Nodes /\ cd.nodes \subseteq Entry
  BY DEF StatusInv, TypeOK, Pod, Fabric, CDObject
<1>2. CASE \E e \in mine : nodes = (cd.nodes \ {e}) \cup {[e EXCEPT !.ip = pod[n].ip]}
  <2>1. PICK e \in mine : nodes = (cd.nodes \ {e}) \cup {[e EXCEPT !.ip = pod[n].ip]}
    BY <1>2
  <2>2. /\ [e EXCEPT !.ip = pod[n].ip] \in Entry
        /\ [e EXCEPT !.ip = pod[n].ip].node = e.node
        /\ [e EXCEPT !.ip = pod[n].ip].index = e.index
    BY <1>1, <2>1 DEF Entry
  <2> QED
    BY <2>1, <2>2, GoodReplaced
<1>3. CASE /\ mine = {}
           /\ \E i \in NextAvailableIndex(n, cd.nodes) :
                nodes = cd.nodes \cup {[node |-> n, ip |-> pod[n].ip, index |-> i,
                                        status |-> "NotReady"]}
  <2>1. PICK i \in NextAvailableIndex(n, cd.nodes) :
          nodes = cd.nodes \cup {[node |-> n, ip |-> pod[n].ip, index |-> i,
                                  status |-> "NotReady"]}
    BY <1>3
  <2> DEFINE f == [node |-> n, ip |-> pod[n].ip, index |-> i, status |-> "NotReady"]
  <2>2. /\ i \in Indices
        /\ \A e \in cd.nodes : CliqueOf[e.node] = CliqueOf[n] => e.index # i
        /\ \A e \in cd.nodes : e.node # n
    BY <1>1, <1>3, NextIndexFacts
  <2>3. f \in Entry /\ f.node = n /\ f.index = i
    BY <1>1, <2>2 DEF Entry, Status
  <2>4. Good(cd.nodes)
    BY GoodSame
  <2> HIDE DEF f
  <2>5. Unique(cd.nodes \cup {f})
    BY <2>2, <2>3, <2>4, UniqueAdded DEF Good
  <2>6. nodes = cd.nodes \cup {f}
    BY <2>1 DEF f
  <2> QED
    BY <2>2, <2>3, <2>4, <2>5, <2>6 DEF Good
<1> QED
  BY <1>2, <1>3 DEF SyncedNodes

(* updateNodeStatus changes the status of an entry. *)
LEMMA GoodStatus ==
    ASSUME StatusInv, NEW n \in Fabric, NEW e \in cd.nodes
    PROVE  Good((cd.nodes \ {e}) \cup {[e EXCEPT !.status = PodStatus(n)]})
<1>1. e \in Entry /\ PodStatus(n) \in Status
  BY DEF StatusInv, TypeOK, CDObject, PodStatus, Status
<1>2. /\ [e EXCEPT !.status = PodStatus(n)] \in Entry
      /\ [e EXCEPT !.status = PodStatus(n)].node = e.node
      /\ [e EXCEPT !.status = PodStatus(n)].index = e.index
  BY <1>1 DEF Entry
<1> QED
  BY <1>2, GoodReplaced

(* What syncCD puts together: entries of the cliques, or of this list, for *)
(* nodes with fabric, and of pods for the others.                          *)
SyncNodes == (IF gate THEN NodesFromCliques ELSE NonStaleFabricNodes)
             \cup NodesFromPods

LEMMA GoodSync ==
    ASSUME StatusInv
    PROVE  Good(SyncNodes)
<1> DEFINE A == IF gate THEN NodesFromCliques ELSE NonStaleFabricNodes
<1>1. /\ A \subseteq Entry /\ Unique(A)
      /\ \A e \in A : e.node \in Fabric
      /\ ~gate => A \subseteq cd.nodes
  <2>1. CASE gate
    BY <2>1 DEF StatusInv, TypeOK, Controller, SourcesUnique, NodesFromCliques
  <2>2. CASE ~gate
    <3>1. A \subseteq cd.nodes /\ \A e \in A : e.node \in Fabric
      BY <2>2 DEF NonStaleFabricNodes
    <3>2. Good(A)
      BY <3>1, GoodSubset
    <3> QED
      BY <3>1, <3>2 DEF Good
  <2> QED
    BY <2>1, <2>2
<1>2. \A e \in NodesFromPods :
        /\ e \in Entry /\ e.node \notin Fabric /\ e.index = -1
        /\ \E p \in ctrl.pods : e = [node |-> p.node, ip |-> p.ip, index |-> -1,
                                     status |-> IF p.ready THEN "Ready"
                                                ELSE "NotReady"]
  BY DEF NodesFromPods, NonFabricPods, StatusInv, TypeOK, Controller, Entry, Status
<1>3. \A d, e \in NodesFromPods : d.node = e.node => d = e
  BY <1>2 DEF StatusInv, SourcesUnique
<1> HIDE DEF A
<1>4. Unique(A \cup NodesFromPods)
  <2>1. SUFFICES ASSUME NEW c \in A \cup NodesFromPods, NEW d \in A \cup NodesFromPods,
                        \/ c.node = d.node
                        \/ /\ c.node \in Fabric
                           /\ CliqueOf[c.node] = CliqueOf[d.node]
                           /\ c.index = d.index
                 PROVE  c = d
    BY DEF Unique
  <2>2. /\ c \in Entry /\ d \in Entry
        /\ c.node \in Nodes /\ d.node \in Nodes
    BY <1>1, <1>2 DEF Entry
  <2>3. c.node \in Fabric <=> d.node \in Fabric
    BY <2>1, <2>2 DEF Fabric
  <2>4. CASE c.node \in Fabric
    BY <1>1, <1>2, <2>1, <2>3, <2>4 DEF Unique
  <2>5. CASE c.node \notin Fabric
    BY <1>1, <1>2, <1>3, <2>1, <2>3, <2>5
  <2> QED
    BY <2>4, <2>5
<1>5. ASSUME ~gate, NEW c \in cd.nodes, NEW d \in A \cup NodesFromPods, c.node = d.node
      PROVE  c.index = d.index
  <2>1. CASE d \in A
    BY <1>1, <1>5, <2>1, GoodSame DEF Good
  <2>2. CASE d \in NodesFromPods
    BY <1>2, <1>5, <2>2 DEF StatusInv, NoIndex
  <2> QED
    BY <1>5, <2>1, <2>2
<1>6. SyncNodes = A \cup NodesFromPods
  BY DEF SyncNodes, A
<1> QED
  BY <1>1, <1>2, <1>4, <1>5, <1>6 DEF Good

-----------------------------------------------------------------------------
(* Steps *)

(* Daemon n writes this list from the copy m. *)
LEMMA StoreFacts ==
    ASSUME StatusInv, NEW n \in Fabric, NEW nodes, Good(nodes),
           NEW m \in Manager, Store(n, nodes, m)
    PROVE  /\ cd' \in CDObject /\ cd'.nodes = nodes
           /\ mgr' \in [Fabric -> Manager] /\ CurrentCopies'
<1>1. cd' = [cd EXCEPT !.nodes = nodes] /\ nodes \subseteq Entry /\ cd \in CDObject
  BY DEF Store, Good, StatusInv, TypeOK
<1>2. cd' \in CDObject /\ cd'.nodes = nodes
  BY <1>1 DEF CDObject
<1>3. mgr \in [Fabric -> Manager]
  BY DEF StatusInv, TypeOK
<1>4. /\ [m EXCEPT !.view = nodes] \in Manager
      /\ [m EXCEPT !.view = nodes].view = nodes
  BY <1>1 DEF Manager
<1>5. \A k \in Fabric : /\ [mgr[k] EXCEPT !.current = FALSE] \in Manager
                         /\ [mgr[k] EXCEPT !.current = FALSE].current = FALSE
  BY <1>3 DEF Manager
<1>6. mgr' = [k \in Fabric |-> IF k = n THEN [m EXCEPT !.view = nodes]
                               ELSE [mgr[k] EXCEPT !.current = FALSE]]
  BY <1>3 DEF Store, Outdated
<1> QED
  BY <1>2, <1>4, <1>5, <1>6 DEF CurrentCopies

(* The controller writes this list. *)
LEMMA CtrlStoreFacts ==
    ASSUME StatusInv, NEW nodes, Good(nodes), CtrlStore(nodes)
    PROVE  /\ cd' \in CDObject /\ cd'.nodes = nodes
           /\ mgr' \in [Fabric -> Manager] /\ CurrentCopies'
<1>1. /\ cd' = [nodes |-> nodes, status |-> CalculateGlobalStatus(nodes)]
      /\ nodes \subseteq Entry
      /\ CalculateGlobalStatus(nodes) \in Status
  BY DEF CtrlStore, Good, CalculateGlobalStatus, Status
<1>2. cd' \in CDObject /\ cd'.nodes = nodes
  BY <1>1 DEF CDObject
<1>3. mgr \in [Fabric -> Manager]
  BY DEF StatusInv, TypeOK
<1>4. \A k \in Fabric : /\ [mgr[k] EXCEPT !.current = FALSE] \in Manager
                         /\ [mgr[k] EXCEPT !.current = FALSE].current = FALSE
  BY <1>3 DEF Manager
<1>5. mgr' = [k \in Fabric |-> [mgr[k] EXCEPT !.current = FALSE]]
  BY DEF CtrlStore
<1> QED
  BY <1>2, <1>4, <1>5 DEF CurrentCopies

(* maybePushNodesUpdate changes what was sent, and no more. *)
LEMMA PushFacts ==
    ASSUME NEW n \in Fabric, NEW m \in Manager, NEW nodes \in SUBSET Entry
    PROVE  /\ MaybePushNodesUpdate(n, m, nodes) \in Manager
           /\ MaybePushNodesUpdate(n, m, nodes).current = m.current
           /\ MaybePushNodesUpdate(n, m, nodes).view = m.view
<1>1. IPSetForClique(n, nodes) \in SUBSET IPs
  BY DEF IPSetForClique, OfClique, Entry
<1> QED
  BY <1>1 DEF MaybePushNodesUpdate, Manager

(* Every step writes a good list or none, and leaves only true copies      *)
(* current.                                                                *)
LEMMA ListStep ==
    ASSUME StatusInv, Next
    PROVE  /\ cd' \in CDObject /\ Good(cd'.nodes)
           /\ mgr' \in [Fabric -> Manager] /\ CurrentCopies'
<1> DEFINE G == /\ cd' \in CDObject /\ Good(cd'.nodes)
                /\ mgr' \in [Fabric -> Manager] /\ CurrentCopies'
<1>0. /\ cd \in CDObject /\ Good(cd.nodes) /\ cd.nodes \in SUBSET Entry
      /\ mgr \in [Fabric -> Manager] /\ CurrentCopies
      /\ StoppedManager \in Manager /\ StoppedManager.current = FALSE
  BY GoodSame DEF StatusInv, TypeOK, CDObject, StoppedManager, Manager
<1>1. ASSUME cd' = cd, UNCHANGED mgr PROVE G
  BY <1>0, <1>1 DEF CurrentCopies
<1>2. ASSUME NEW n \in Fabric, NEW m \in Manager, m.current => m.view = cd.nodes,
             cd' = cd, mgr' = [mgr EXCEPT ![n] = m]
      PROVE  G
  BY <1>0, <1>2 DEF CurrentCopies
<1>3. ASSUME NEW n \in Nodes, DaemonStarts(n) PROVE G
  <2>1. CASE n \in Fabric /\ ~gate
    <3> DEFINE m == [view |-> cd.nodes, current |-> TRUE, item |-> TRUE, pushed |-> {}]
    <3>1. m \in Manager /\ m.view = cd.nodes
      BY <1>0 DEF Manager
    <3>2. cd' = cd /\ mgr' = [mgr EXCEPT ![n] = m]
      BY <1>3, <2>1 DEF DaemonStarts
    <3> QED
      BY <1>2, <2>1, <3>1, <3>2
  <2>2. CASE ~(n \in Fabric /\ ~gate)
    BY <1>1, <1>3, <2>2 DEF DaemonStarts
  <2> QED
    BY <2>1, <2>2
<1>4. ASSUME NEW n \in Nodes, DaemonKilled(n) PROVE G
  BY <1>0, <1>4 DEF DaemonKilled, CurrentCopies
<1>5. ASSUME NEW n \in Fabric, InformerEvent(n) PROVE G
  <2> DEFINE m == [mgr[n] EXCEPT !.view = cd.nodes, !.current = TRUE, !.item = TRUE]
  <2>1. m \in Manager /\ m.view = cd.nodes
    BY <1>0 DEF Manager
  <2>2. cd' = cd /\ mgr' = [mgr EXCEPT ![n] = m]
    BY <1>0, <1>5 DEF InformerEvent
  <2> QED
    BY <1>2, <2>1, <2>2
<1>6. ASSUME NEW n \in Fabric, OnAddOrUpdate(n) PROVE G
  <2> DEFINE m == [mgr[n] EXCEPT !.item = FALSE]
  <2>1. /\ m \in Manager /\ m.current = mgr[n].current /\ m.view = mgr[n].view
        /\ m.view \in SUBSET Entry
        /\ m.current => m.view = cd.nodes
    BY <1>0 DEF Manager, CurrentCopies
  <2>2. CASE /\ mgr' = [mgr EXCEPT ![n] = MaybePushNodesUpdate(n, m, m.view)]
             /\ cd' = cd
    <3> HIDE DEF m
    <3>1. /\ MaybePushNodesUpdate(n, m, m.view) \in Manager
          /\ MaybePushNodesUpdate(n, m, m.view).current = m.current
          /\ MaybePushNodesUpdate(n, m, m.view).view = m.view
      BY <2>1, PushFacts
    <3> QED
      BY <1>2, <2>1, <2>2, <3>1
  <2>3. CASE /\ m.current
             /\ \E nodes \in SyncedNodes(n, m.view) :
                  Store(n, nodes, MaybePushNodesUpdate(n, m, nodes))
    <3> HIDE DEF m
    <3>1. PICK nodes \in SyncedNodes(n, cd.nodes) :
            Store(n, nodes, MaybePushNodesUpdate(n, m, nodes))
      BY <2>1, <2>3
    <3>2. Good(nodes) /\ nodes \in SUBSET Entry
      BY <3>1, GoodSynced DEF Good
    <3>3. MaybePushNodesUpdate(n, m, nodes) \in Manager
      BY <2>1, <3>2, PushFacts
    <3>4. /\ cd' \in CDObject /\ cd'.nodes = nodes
          /\ mgr' \in [Fabric -> Manager] /\ CurrentCopies'
      BY <3>1, <3>2, <3>3, StoreFacts
    <3> QED
      BY <3>2, <3>4
  <2> QED
    BY <1>6, <2>2, <2>3 DEF OnAddOrUpdate
<1>7. ASSUME NEW n \in Fabric, UpdateNodeStatus(n) PROVE G
  <2>1. mgr[n] \in Manager /\ mgr[n].view = cd.nodes
    BY <1>0, <1>7 DEF UpdateNodeStatus, CurrentCopies
  <2>2. PICK e \in cd.nodes :
          Store(n, (cd.nodes \ {e}) \cup {[e EXCEPT !.status = PodStatus(n)]}, mgr[n])
    BY <1>7, <2>1 DEF UpdateNodeStatus
  <2> DEFINE nodes == (cd.nodes \ {e}) \cup {[e EXCEPT !.status = PodStatus(n)]}
  <2>3. Good(nodes) /\ Store(n, nodes, mgr[n])
    BY <2>2, GoodStatus
  <2> HIDE DEF nodes
  <2>4. /\ cd' \in CDObject /\ cd'.nodes = nodes
        /\ mgr' \in [Fabric -> Manager] /\ CurrentCopies'
    BY <2>1, <2>3, StoreFacts
  <2> QED
    BY <2>3, <2>4
<1>8. ASSUME NEW n \in Nodes, Stop(n) PROVE G
  <2> DEFINE remaining == {e \in mgr[n].view : e.ip # pod[n].ip}
  <2>1. CASE mgr[n].current /\ remaining # mgr[n].view
    <3>1. n \in Fabric /\ mgr[n].view = cd.nodes
      BY <1>0, <1>8, <2>1 DEF Stop, CurrentCopies
    <3>2. Good(remaining)
      BY <3>1, GoodSubset
    <3>3. cd' = [cd EXCEPT !.nodes = remaining]
      BY <1>8, <2>1 DEF Stop
    <3>4. cd' \in CDObject /\ cd'.nodes = remaining
      BY <1>0, <3>2, <3>3 DEF CDObject, Good
    <3>5. mgr' = [k \in Fabric |-> IF k = n THEN StoppedManager
                                   ELSE [mgr[k] EXCEPT !.current = FALSE]]
      BY <1>0, <1>8, <2>1 DEF Stop, Outdated
    <3>6. \A k \in Fabric : /\ [mgr[k] EXCEPT !.current = FALSE] \in Manager
                             /\ [mgr[k] EXCEPT !.current = FALSE].current = FALSE
      BY <1>0 DEF Manager
    <3> HIDE DEF remaining
    <3> QED
      BY <1>0, <3>2, <3>4, <3>5, <3>6 DEF CurrentCopies
  <2>2. CASE ~(mgr[n].current /\ remaining # mgr[n].view)
    BY <1>0, <1>2, <1>8, <2>2 DEF Stop
  <2> QED
    BY <2>1, <2>2
<1>9. CASE SyncCD
  <2>1. Good(SyncNodes) /\ CtrlStore(SyncNodes)
    BY <1>9, GoodSync DEF SyncCD, SyncNodes
  <2> QED
    BY <2>1, CtrlStoreFacts
<1>10. CASE UpdateGlobalStatus
  BY <1>0, <1>10, CtrlStoreFacts DEF UpdateGlobalStatus
<1>11. CASE OnDaemonSet
  <2>1. cd' \in CDObject /\ cd'.nodes = cd.nodes
    BY <1>0, <1>11 DEF OnDaemonSet, CDObject, Status
  <2>2. CASE UNCHANGED mgr
    BY <1>0, <2>1, <2>2 DEF CurrentCopies
  <2>3. CASE mgr' = [n \in Fabric |-> [mgr[n] EXCEPT !.current = FALSE]]
    <3>1. \A k \in Fabric : /\ [mgr[k] EXCEPT !.current = FALSE] \in Manager
                             /\ [mgr[k] EXCEPT !.current = FALSE].current = FALSE
      BY <1>0 DEF Manager
    <3> QED
      BY <1>0, <2>1, <2>3, <3>1 DEF CurrentCopies
  <2> QED
    BY <1>11, <2>2, <2>3 DEF OnDaemonSet
<1>12. \/ UNCHANGED <<cd, mgr>>
       \/ \E n \in Nodes : DaemonStarts(n) \/ DaemonKilled(n) \/ Stop(n)
       \/ \E n \in Fabric : InformerEvent(n) \/ OnAddOrUpdate(n) \/ UpdateNodeStatus(n)
       \/ SyncCD \/ UpdateGlobalStatus \/ OnDaemonSet
  BY DEF Next, Disturbance, Undisturbed, ReadinessChanged, PodCreated, PodDeleted,
         CliqueUpdated, CliqueCleaned, CtrlInformerEvent, ObservePods, ObserveClique, DaemonSetEvent
<1> QED
  BY <1>1, <1>3, <1>4, <1>5, <1>6, <1>7, <1>8, <1>9, <1>10, <1>11, <1>12

(* The pods stay well-formed. *)
LEMMA PodStep ==
    ASSUME StatusInv, Next
    PROVE  gate' = gate /\ pod' \in [Nodes -> Pod]
<1>1. pod \in [Nodes -> Pod]
  BY DEF StatusInv, TypeOK
<1>2. gate' = gate
  BY DEF Next, Disturbance, Undisturbed, ReadinessChanged, PodCreated, PodDeleted,
         DaemonStarts, DaemonKilled, Stop, InformerEvent, OnAddOrUpdate,
         UpdateNodeStatus, CliqueUpdated, CliqueCleaned, CtrlInformerEvent,
         ObservePods, ObserveClique, SyncCD, UpdateGlobalStatus, DaemonSetEvent, OnDaemonSet
<1>3. ASSUME NEW n \in Nodes, NEW q \in Pod, pod' = [pod EXCEPT ![n] = q]
      PROVE  pod' \in [Nodes -> Pod]
  BY <1>1, <1>3
<1>4. ASSUME NEW n \in Nodes, NEW ip \in IPs, PodCreated(n, ip)
      PROVE  pod' \in [Nodes -> Pod]
  BY <1>3, <1>4 DEF PodCreated, Pod
<1>5. ASSUME NEW n \in Nodes,
             \/ DaemonStarts(n) \/ DaemonKilled(n) \/ PodDeleted(n) \/ Stop(n)
             \/ \E r \in BOOLEAN : ReadinessChanged(n, r)
      PROVE  pod' \in [Nodes -> Pod]
  <2>1. \E ph \in {"absent", "stopped", "unlabelled", "running"}, r \in BOOLEAN :
          pod' = [pod EXCEPT ![n] = [pod[n] EXCEPT !.phase = ph, !.ready = r]]
    <3>1. CASE DaemonStarts(n)
      <4>1. pod' = [pod EXCEPT ![n] = [pod[n] EXCEPT !.phase = "running",
                                                     !.ready = pod[n].ready]]
        BY <1>1, <3>1 DEF DaemonStarts, Pod
      <4> QED
        BY <1>1, <4>1 DEF Pod
    <3>2. CASE DaemonKilled(n) \/ Stop(n)
      BY <1>1, <3>2 DEF DaemonKilled, Stop, Pod
    <3>3. CASE PodDeleted(n)
      <4>1. pod' = [pod EXCEPT ![n] = [pod[n] EXCEPT !.phase = "absent",
                                                     !.ready = pod[n].ready]]
        BY <1>1, <3>3 DEF PodDeleted, Pod
      <4> QED
        BY <1>1, <4>1 DEF Pod
    <3>4. ASSUME NEW r \in BOOLEAN, ReadinessChanged(n, r)
          PROVE  \E ph \in {"absent", "stopped", "unlabelled", "running"}, x \in BOOLEAN :
                   pod' = [pod EXCEPT ![n] = [pod[n] EXCEPT !.phase = ph, !.ready = x]]
      <4>1. pod' = [pod EXCEPT ![n] = [pod[n] EXCEPT !.phase = pod[n].phase,
                                                     !.ready = r]]
        BY <1>1, <3>4 DEF ReadinessChanged, Pod
      <4> QED
        BY <1>1, <4>1 DEF Pod
    <3> QED
      BY <1>5, <3>1, <3>2, <3>3, <3>4
  <2> QED
    BY <1>1, <1>3, <2>1 DEF Pod
<1>6. \/ UNCHANGED pod
      \/ \E n \in Nodes, ip \in IPs : PodCreated(n, ip)
      \/ \E n \in Nodes :
            \/ DaemonStarts(n) \/ DaemonKilled(n) \/ PodDeleted(n) \/ Stop(n)
            \/ \E r \in BOOLEAN : ReadinessChanged(n, r)
  BY DEF Next, Disturbance, Undisturbed, InformerEvent, OnAddOrUpdate,
         UpdateNodeStatus, CliqueUpdated, CliqueCleaned, CtrlInformerEvent,
         ObservePods, ObserveClique, SyncCD, UpdateGlobalStatus, DaemonSetEvent, OnDaemonSet
<1> QED
  BY <1>1, <1>2, <1>4, <1>5, <1>6

(* The cliques' entries and the controller's pods are distinct. *)
LEMMA SourcesStep ==
    ASSUME StatusInv, Next
    PROVE  /\ registry' \in SUBSET Entry /\ ctrl' \in Controller
           /\ SourcesUnique'
<1>0. /\ registry \subseteq Entry /\ Unique(registry) /\ ctrl \in Controller
      /\ ctrl.cliques \subseteq Entry /\ Unique(ctrl.cliques)
      /\ \A e \in registry \cup ctrl.cliques : e.node \in Fabric
      /\ \A p, q \in ctrl.pods : p.node = q.node => p = q
      /\ pod \in [Nodes -> Pod]
  BY DEF StatusInv, TypeOK, SourcesUnique, Controller
<1>1. /\ registry' \subseteq Entry /\ Unique(registry')
      /\ \A e \in registry' : e.node \in Fabric
  <2>1. CASE UNCHANGED registry
    BY <1>0, <2>1
  <2>2. ASSUME NEW n \in Fabric, CliqueUpdated(n)
        PROVE  /\ registry' \subseteq Entry /\ Unique(registry')
               /\ \A e \in registry' : e.node \in Fabric
    <3> DEFINE mine == {e \in registry : e.node = n}
               index == {e.index : e \in mine} \cup
                        (IF mine = {} THEN NextAvailableIndex(n, registry) ELSE {})
    <3>1. PICK i \in index :
            registry' = (registry \ mine) \cup
                        {[node |-> n, ip |-> pod[n].ip, index |-> i,
                          status |-> PodStatus(n)]}
      BY <2>2 DEF CliqueUpdated
    <3> DEFINE f == [node |-> n, ip |-> pod[n].ip, index |-> i, status |-> PodStatus(n)]
    <3>2. n \in Nodes /\ pod[n].ip \in IPs /\ PodStatus(n) \in Status
      BY <1>0 DEF Fabric, Pod, PodStatus, Status
    <3>3. CASE mine # {}
      <4>1. PICK e \in mine : i = e.index
        BY <3>1, <3>3
      <4>2. mine = {e} /\ e \in Entry
        BY <1>0, <4>1 DEF Unique
      <4>3. f \in Entry /\ f.node = e.node /\ f.index = e.index
        BY <3>2, <4>1, <4>2 DEF Entry
      <4>4. registry' = (registry \ {e}) \cup {f}
        BY <3>1, <4>2
      <4> HIDE DEF f
      <4>5. Unique(registry')
        BY <1>0, <4>1, <4>3, <4>4, UniqueReplaced
      <4> QED
        BY <1>0, <4>1, <4>3, <4>4, <4>5
    <3>4. CASE mine = {}
      <4>1. /\ i \in Indices /\ \A e \in registry : e.node # n
            /\ \A e \in registry : CliqueOf[e.node] = CliqueOf[n] => e.index # i
        BY <3>1, <3>2, <3>4, NextIndexFacts
      <4>2. f \in Entry /\ f.node = n /\ f.index = i
        BY <3>2, <4>1 DEF Entry
      <4>3. registry' = registry \cup {f}
        BY <3>1, <3>4
      <4> HIDE DEF f
      <4>4. Unique(registry')
        BY <1>0, <4>1, <4>2, <4>3, UniqueAdded
      <4> QED
        BY <1>0, <4>2, <4>3, <4>4
    <3> QED
      BY <3>3, <3>4
  <2>3. ASSUME NEW n \in Fabric, CliqueCleaned(n)
        PROVE  /\ registry' \subseteq Entry /\ Unique(registry')
               /\ \A e \in registry' : e.node \in Fabric
    <3>1. registry' \subseteq registry
      BY <2>3 DEF CliqueCleaned
    <3> QED
      BY <1>0, <3>1, UniqueSubset
  <2>4. \/ UNCHANGED registry
        \/ \E n \in Fabric : CliqueUpdated(n) \/ CliqueCleaned(n)
    BY DEF Next, Disturbance, Undisturbed, ReadinessChanged, PodCreated, PodDeleted,
         DaemonStarts, DaemonKilled, Stop, InformerEvent, OnAddOrUpdate,
         UpdateNodeStatus, CtrlInformerEvent,
         ObservePods, ObserveClique, SyncCD, UpdateGlobalStatus, DaemonSetEvent, OnDaemonSet
  <2> QED
    BY <2>1, <2>2, <2>3, <2>4
<1>2. /\ ctrl' \in Controller /\ \A p, q \in ctrl'.pods : p.node = q.node => p = q
      /\ Unique(ctrl'.cliques) /\ \A e \in ctrl'.cliques : e.node \in Fabric
  <2>1. CASE ObservePods
    <3> DEFINE seen(n) == [node |-> n, ip |-> pod[n].ip,
                           labelled |-> pod[n].phase # "unlabelled",
                           ready |-> pod[n].ready]
               pods == {seen(n) : n \in {k \in Nodes : HasPod(k)}}
    <3>1. ctrl' = [ctrl EXCEPT !.pods = pods]
      BY <2>1 DEF ObservePods
    <3>2. \A n \in Nodes : seen(n) \in [node : Nodes, ip : IPs, labelled : BOOLEAN,
                                         ready : BOOLEAN]
      BY <1>0 DEF Pod
    <3>3. \A n \in Nodes : seen(n).node = n
      OBVIOUS
    <3>4. pods \in SUBSET [node : Nodes, ip : IPs, labelled : BOOLEAN, ready : BOOLEAN]
      BY <3>2
    <3> HIDE DEF pods
    <3>5. ctrl' \in Controller /\ ctrl'.pods = pods /\ ctrl'.cliques = ctrl.cliques
      BY <1>0, <3>1, <3>4 DEF Controller
    <3> QED
      BY <1>0, <3>3, <3>5 DEF pods
  <2>2. ASSUME NEW n \in Fabric, ObserveClique(n)
        PROVE  /\ ctrl' \in Controller /\ ctrl'.pods = ctrl.pods
               /\ Unique(ctrl'.cliques) /\ \A e \in ctrl'.cliques : e.node \in Fabric
    <3> DEFINE same(e) == CliqueOf[e.node] = CliqueOf[n]
               new == {e \in ctrl.cliques : ~same(e)} \cup {e \in registry : same(e)}
    <3>1. ctrl' = [ctrl EXCEPT !.cliques = new]
      BY <2>2 DEF ObserveClique
    <3>2. new \subseteq Entry /\ \A e \in new : e.node \in Fabric
      BY <1>0
    <3>3. Unique(new)
      BY <1>0 DEF Unique
    <3> HIDE DEF new
    <3> QED
      BY <1>0, <3>1, <3>2, <3>3 DEF Controller
  <2>3. ASSUME NEW l \in BOOLEAN, NEW v \in BOOLEAN,
               ctrl' = [ctrl EXCEPT !.listerCurrent = l, !.viewCurrent = v]
        PROVE  /\ ctrl' \in Controller /\ ctrl'.pods = ctrl.pods
               /\ ctrl'.cliques = ctrl.cliques
    BY <1>0, <2>3 DEF Controller
  <2>4. ASSUME NEW d \in BOOLEAN, ctrl' = [ctrl EXCEPT !.dsItem = d]
        PROVE  /\ ctrl' \in Controller /\ ctrl'.pods = ctrl.pods
               /\ ctrl'.cliques = ctrl.cliques
    BY <1>0, <2>4 DEF Controller
  <2>5. ASSUME NEW n \in Fabric, OnAddOrUpdate(n) \/ UpdateNodeStatus(n)
        PROVE  ctrl' = ctrl \/ ctrl' = [ctrl EXCEPT !.listerCurrent = FALSE,
                                                   !.viewCurrent = FALSE]
    BY <2>5 DEF OnAddOrUpdate, UpdateNodeStatus, Store
  <2>6. ASSUME NEW n \in Nodes, Stop(n)
        PROVE  ctrl' = ctrl \/ ctrl' = [ctrl EXCEPT !.listerCurrent = FALSE,
                                                   !.viewCurrent = FALSE]
    BY <2>6 DEF Stop
  <2>7. CASE OnDaemonSet
    <3>1. \/ ctrl' = [ctrl EXCEPT !.dsItem = FALSE]
          \/ ctrl' = [ctrl EXCEPT !.dsItem = FALSE, !.listerCurrent = FALSE,
                                  !.viewCurrent = FALSE]
      BY <2>7 DEF OnDaemonSet
    <3> QED
      BY <1>0, <3>1 DEF Controller
  <2>8. \/ UNCHANGED ctrl \/ ObservePods \/ OnDaemonSet
        \/ \E n \in Fabric : ObserveClique(n)
        \/ \E l, v \in BOOLEAN :
             ctrl' = [ctrl EXCEPT !.listerCurrent = l, !.viewCurrent = v]
        \/ \E d \in BOOLEAN : ctrl' = [ctrl EXCEPT !.dsItem = d]
    BY <2>5, <2>6
    DEF Next, Disturbance, Undisturbed, ReadinessChanged, PodCreated, PodDeleted,
        DaemonStarts, DaemonKilled, InformerEvent, CliqueUpdated, CliqueCleaned,
        CtrlInformerEvent, SyncCD, UpdateGlobalStatus, CtrlStore, DaemonSetEvent
  <2> QED
    BY <1>0, <2>1, <2>2, <2>3, <2>4, <2>7, <2>8
<1> QED
  BY <1>1, <1>2 DEF SourcesUnique, Unique

-----------------------------------------------------------------------------
(* Theorems *)

(* Copies, sources and the list of nodes are as StatusInv says, in every   *)
(* state (UpdateStatus with stale copies, syncCD, the pod informer).       *)
THEOREM StatusInvariant == Spec => []StatusInv
<1>1. Init => StatusInv
  <2> SUFFICES ASSUME Init PROVE StatusInv
    OBVIOUS
  <2>1. /\ cd \in CDObject /\ cd.nodes = {} /\ registry = {} /\ ctrl.pods = {}
        /\ ctrl.cliques = {}
    BY DEF Init, CDObject, Status
  <2>2. mgr \in [Fabric -> Manager] /\ \A n \in Fabric : mgr[n].current = FALSE
    BY DEF Init, StoppedManager, Manager
  <2>3. ctrl \in Controller
    BY DEF Init, Controller
  <2>4. pod \in [Nodes -> Pod]
    BY DEF Init, Pod
  <2> QED
    BY <2>1, <2>2, <2>3, <2>4
    DEF Init, StatusInv, TypeOK, CurrentCopies, NoIndex, SourcesUnique, IndexUnique, Unique
<1>2. StatusInv /\ [Next]_vars => StatusInv'
  <2>1. ASSUME StatusInv, Next PROVE StatusInv'
    <3>1. TypeOK'
      BY <2>1, ListStep, PodStep, SourcesStep DEF StatusInv, TypeOK
    <3>2. CurrentCopies' /\ SourcesUnique'
      BY <2>1, ListStep, SourcesStep
    <3>3. NoIndex' /\ IndexUnique'
      BY <2>1, ListStep DEF Good, NoIndex, IndexUnique, Unique
    <3> QED
      BY <3>1, <3>2, <3>3 DEF StatusInv
  <2>2. ASSUME StatusInv, UNCHANGED vars PROVE StatusInv'
    BY <2>2
    DEF vars, StatusInv, TypeOK, CurrentCopies, NoIndex, SourcesUnique, IndexUnique,
        Unique
  <2> QED
    BY <2>1, <2>2
<1> QED
  BY <1>1, <1>2, PTL DEF Spec

(* The pair of clique and index is unique in the status, and every node    *)
(* has one entry, for all cliques at once and in both modes.               *)
THEOREM UniqueIndices == Spec => []IndexUnique
<1>1. StatusInv => IndexUnique
  BY DEF StatusInv
<1> QED
  BY <1>1, StatusInvariant, PTL

(* A listed node keeps its index in every step of every writer.            *)
THEOREM StableIndices == Spec => StableIndex
<1>1. StatusInv /\ [Next]_vars =>
        [~gate => \A d \in cd.nodes, e \in cd'.nodes :
                     d.node = e.node => d.index = e.index]_vars
  BY ListStep DEF Good
<1> QED
  BY <1>1, StatusInvariant, PTL DEF Spec, StableIndex

-----------------------------------------------------------------------------
(* Addresses that the daemons send to their update loops *)

(* A list with one entry per node is finite, and a changed entry does not  *)
(* change its length.                                                      *)
LEMMA ReplacedLength ==
    ASSUME NEW S \in SUBSET Entry, Unique(S), NEW e \in S, NEW f, f \notin S
    PROVE  Cardinality((S \ {e}) \cup {f}) = Cardinality(S)
<1> DEFINE g == [d \in S |-> d.node]
<1>1. g \in Injection(S, Nodes)
  BY DEF Entry, Unique, Injection, IsInjective
<1>2. IsFiniteSet(S)
  BY <1>1, FS_Injection, CDStatusAssumption
<1>3. IsFiniteSet(S \ {e}) /\ Cardinality(S \ {e}) = Cardinality(S) - 1
  BY <1>2, FS_RemoveElement
<1>4. Cardinality((S \ {e}) \cup {f}) = Cardinality(S \ {e}) + 1
  BY <1>3, FS_AddElement
<1>5. Cardinality(S) \in Nat
  BY <1>2, FS_CardinalityType
<1> QED
  BY <1>3, <1>4, <1>5

(* What AddressesPushed says of one daemon. *)
Sent(n, m) ==
    m.item \/ ~(DNSNames \/ Cardinality(m.view) = NumNodes)
           \/ m.pushed = IPSetForClique(n, m.view)

(* updateNodeStatus leaves number and addresses of the nodes alone, so     *)
(* that the item need not be queued again.                                 *)
LEMMA StatusSent ==
    ASSUME StatusInv, NEW n \in Fabric, NEW e \in cd.nodes, e.status # PodStatus(n)
    PROVE  LET nodes == (cd.nodes \ {e}) \cup {[e EXCEPT !.status = PodStatus(n)]}
           IN  /\ Cardinality(nodes) = Cardinality(cd.nodes)
               /\ IPSetForClique(n, nodes) = IPSetForClique(n, cd.nodes)
<1> DEFINE f == [e EXCEPT !.status = PodStatus(n)]
           nodes == (cd.nodes \ {e}) \cup {f}
<1>1. cd.nodes \in SUBSET Entry /\ Unique(cd.nodes)
  BY DEF StatusInv, TypeOK, CDObject, IndexUnique
<1>2. f.node = e.node /\ f.ip = e.ip /\ f.status # e.status
  BY <1>1 DEF Entry
<1> HIDE DEF f
<1>3. f \notin cd.nodes
  BY <1>1, <1>2 DEF Unique
<1>4. Cardinality(nodes) = Cardinality(cd.nodes)
  BY <1>1, <1>3, ReplacedLength
<1>5. IPSetForClique(n, nodes) = IPSetForClique(n, cd.nodes)
  BY <1>2 DEF IPSetForClique, OfClique
<1> QED
  BY <1>4, <1>5 DEF f

LEMMA SentStep ==
    ASSUME StatusInv, AddressesPushed, Next
    PROVE  AddressesPushed'
<1> SUFFICES ASSUME NEW n \in Fabric, ~gate', Running(n)' PROVE Sent(n, mgr'[n])
  BY DEF AddressesPushed, Sent, IPSetForClique, OfClique
<1>0. /\ mgr \in [Fabric -> Manager] /\ CurrentCopies /\ ~gate /\ n \in Nodes
      /\ pod \in [Nodes -> Pod]
  BY PodStep DEF StatusInv, TypeOK, Fabric
<1>1. Running(n) => Sent(n, mgr[n])
  BY <1>0 DEF AddressesPushed, Sent
<1>2. ASSUME Running(n),
             mgr'[n] = mgr[n] \/ mgr'[n] = [mgr[n] EXCEPT !.current = FALSE]
      PROVE  Sent(n, mgr'[n])
  BY <1>0, <1>1, <1>2 DEF Manager, Sent
<1>3. ASSUME NEW k \in Nodes, DaemonStarts(k) PROVE Sent(n, mgr'[n])
  <2>1. CASE k = n
    BY <1>0, <1>3, <2>1 DEF DaemonStarts, Sent
  <2>2. CASE k # n
    <3>1. Running(n) /\ mgr'[n] = mgr[n]
      BY <1>0, <1>3, <2>2 DEF DaemonStarts, Running
    <3> QED
      BY <1>2, <3>1
  <2> QED
    BY <2>1, <2>2
<1>4. ASSUME NEW k \in Nodes, DaemonKilled(k) \/ Stop(k) PROVE Sent(n, mgr'[n])
  <2>1. k # n /\ Running(n)
    BY <1>0, <1>4 DEF DaemonKilled, Stop, Running, Pod
  <2>2. mgr'[n] = mgr[n] \/ mgr'[n] = [mgr[n] EXCEPT !.current = FALSE]
    BY <1>0, <1>4, <2>1 DEF DaemonKilled, Stop, Outdated
  <2> QED
    BY <1>2, <2>1, <2>2
<1>5. ASSUME NEW k \in Fabric, InformerEvent(k) PROVE Sent(n, mgr'[n])
  <2>1. CASE k = n
    <3>1. mgr'[n] = [mgr[n] EXCEPT !.view = cd.nodes, !.current = TRUE, !.item = TRUE]
      BY <1>0, <1>5, <2>1 DEF InformerEvent
    <3> QED
      BY <1>0, <3>1 DEF Sent, Manager
  <2>2. CASE k # n
    <3>1. Running(n) /\ mgr'[n] = mgr[n]
      BY <1>0, <1>5, <2>2 DEF InformerEvent, Running
    <3> QED
      BY <1>2, <3>1
  <2> QED
    BY <2>1, <2>2
<1>6. ASSUME NEW k \in Fabric, NEW nodes, NEW m, Store(k, nodes, m), UNCHANGED pod, k # n
      PROVE  Sent(n, mgr'[n])
  <2>1. Running(n) /\ mgr'[n] = [mgr[n] EXCEPT !.current = FALSE]
    BY <1>0, <1>6 DEF Store, Outdated, Running
  <2> QED
    BY <1>2, <2>1
<1>7. ASSUME NEW k \in Fabric, OnAddOrUpdate(k) PROVE Sent(n, mgr'[n])
  <2> DEFINE m == [mgr[k] EXCEPT !.item = FALSE]
  <2>1. m \in Manager /\ UNCHANGED pod
    BY <1>0, <1>7 DEF Manager, OnAddOrUpdate
  <2>2. CASE k # n
    <3>1. CASE mgr' = [mgr EXCEPT ![k] = MaybePushNodesUpdate(k, m, m.view)]
      <4>1. Running(n) /\ mgr'[n] = mgr[n]
        BY <1>0, <2>1, <2>2, <3>1 DEF Running
      <4> QED
        BY <1>2, <4>1
    <3> QED
      BY <1>6, <1>7, <2>1, <2>2, <3>1 DEF OnAddOrUpdate
  <2>3. CASE k = n /\ mgr' = [mgr EXCEPT ![k] = MaybePushNodesUpdate(k, m, m.view)]
    <3>1. mgr'[n] = MaybePushNodesUpdate(n, m, m.view)
      BY <1>0, <2>3
    <3> HIDE DEF m
    <3> QED
      BY <2>1, <3>1 DEF MaybePushNodesUpdate, Manager, Sent
  <2>4. ASSUME k = n, NEW nodes \in SyncedNodes(k, m.view),
               Store(k, nodes, MaybePushNodesUpdate(k, m, nodes))
        PROVE  Sent(n, mgr'[n])
    <3> HIDE DEF m
    <3>1. mgr'[n] = [MaybePushNodesUpdate(n, m, nodes) EXCEPT !.view = nodes]
      BY <1>0, <2>4 DEF Store, Outdated
    <3>2. /\ mgr'[n].view = nodes
          /\ DNSNames \/ Cardinality(nodes) = NumNodes =>
               mgr'[n].pushed = IPSetForClique(n, nodes)
      BY <2>1, <3>1 DEF MaybePushNodesUpdate, Manager
    <3> QED
      BY <3>2 DEF Sent
  <2> QED
    BY <1>7, <2>2, <2>3, <2>4 DEF OnAddOrUpdate
<1>8. ASSUME NEW k \in Fabric, UpdateNodeStatus(k) PROVE Sent(n, mgr'[n])
  <2>1. mgr[k].view = cd.nodes /\ Running(k) /\ UNCHANGED pod
    BY <1>0, <1>8 DEF UpdateNodeStatus, CurrentCopies
  <2>2. PICK e \in cd.nodes :
          /\ e.status # PodStatus(k)
          /\ Store(k, (cd.nodes \ {e}) \cup {[e EXCEPT !.status = PodStatus(k)]}, mgr[k])
    BY <1>8, <2>1 DEF UpdateNodeStatus
  <2> DEFINE nodes == (cd.nodes \ {e}) \cup {[e EXCEPT !.status = PodStatus(k)]}
  <2>3. CASE k # n
    BY <1>6, <2>1, <2>2, <2>3
  <2>4. CASE k = n
    <3>1. /\ Cardinality(nodes) = Cardinality(cd.nodes)
          /\ IPSetForClique(n, nodes) = IPSetForClique(n, cd.nodes)
      BY <2>2, <2>4, StatusSent
    <3>2. mgr'[n] = [mgr[n] EXCEPT !.view = nodes]
      BY <1>0, <2>2, <2>4 DEF Store, Outdated
    <3> HIDE DEF nodes
    <3>3. /\ mgr'[n].view = nodes /\ mgr'[n].item = mgr[n].item
          /\ mgr'[n].pushed = mgr[n].pushed
      BY <1>0, <3>2 DEF Manager
    <3> QED
      BY <1>1, <2>1, <2>4, <3>1, <3>3 DEF Sent
  <2> QED
    BY <2>3, <2>4
<1>9. CASE SyncCD \/ UpdateGlobalStatus \/ OnDaemonSet
  <2>1. Running(n) /\ (mgr'[n] = mgr[n] \/ mgr'[n] = [mgr[n] EXCEPT !.current = FALSE])
    BY <1>9 DEF SyncCD, UpdateGlobalStatus, OnDaemonSet, CtrlStore, Running
  <2> QED
    BY <1>2, <2>1
<1>10. ASSUME NEW k \in Nodes, NEW ip \in IPs, PodCreated(k, ip) PROVE Sent(n, mgr'[n])
  <2>1. Running(n) /\ mgr' = mgr
    BY <1>0, <1>10 DEF PodCreated, Running
  <2> QED
    BY <1>2, <2>1
<1>11. ASSUME NEW k \in Nodes, PodDeleted(k) \/ \E r \in BOOLEAN : ReadinessChanged(k, r)
       PROVE  Sent(n, mgr'[n])
  <2>1. Running(n) /\ mgr' = mgr
    BY <1>0, <1>11 DEF PodDeleted, ReadinessChanged, Running, Pod
  <2> QED
    BY <1>2, <2>1
<1>12. CASE UNCHANGED <<pod, mgr>>
  BY <1>2, <1>12 DEF Running
<1>13. \/ UNCHANGED <<pod, mgr>>
       \/ \E k \in Nodes, ip \in IPs : PodCreated(k, ip)
       \/ \E k \in Nodes : \/ DaemonStarts(k) \/ DaemonKilled(k) \/ Stop(k) \/ PodDeleted(k)
                          \/ \E r \in BOOLEAN : ReadinessChanged(k, r)
       \/ \E k \in Fabric : InformerEvent(k) \/ OnAddOrUpdate(k) \/ UpdateNodeStatus(k)
       \/ SyncCD \/ UpdateGlobalStatus \/ OnDaemonSet
  BY DEF Next, Disturbance, Undisturbed, CliqueUpdated, CliqueCleaned, CtrlInformerEvent,
         ObservePods, ObserveClique, DaemonSetEvent
<1> QED
  BY <1>3, <1>4, <1>5, <1>7, <1>8, <1>9, <1>10, <1>11, <1>12, <1>13

(* A daemon with nothing left to do has sent the addresses of its copy to  *)
(* its update loop, although its other work item rewrites the copy without *)
(* queueing the first one (updateNodeStatus, maybePushNodesUpdate).        *)
THEOREM AddressesArePushed == Spec => []AddressesPushed
<1>1. Init => AddressesPushed
  BY DEF Init, AddressesPushed, Running, Fabric
<1>2. StatusInv /\ AddressesPushed /\ [Next]_vars => AddressesPushed'
  <2>1. ASSUME AddressesPushed, UNCHANGED vars PROVE AddressesPushed'
    BY <2>1 DEF AddressesPushed, vars, Running, IPSetForClique, OfClique
  <2> QED
    BY <2>1, SentStep
<1> QED
  BY <1>1, <1>2, StatusInvariant, PTL DEF Spec

=============================================================================
