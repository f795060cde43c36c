--------------------------- MODULE CDCliqueProofs ---------------------------
(***************************************************************************)
(* Proofs about CDClique for every set of nodes and addresses and every    *)
(* number of indices: type correctness, distinct slots, stable indices,    *)
(* and the refinement of SlotRegistry; then about DNSNames, whose steps    *)
(* are steps of CDClique: the hosts files are correct.                     *)
(***************************************************************************)
EXTENDS DNSNames, TLAPS

-----------------------------------------------------------------------------
(* What an insertion or address change computes from a list.               *)

(* syncDaemonInfoToClique returns a well-typed list.                       *)
LEMMA SyncedDaemonsType ==
    ASSUME TypeOK, NEW n \in Nodes, NEW daemons \in SUBSET Daemon,
           NEW new \in SyncedDaemons(n, daemons)
    PROVE  new \in SUBSET Daemon
<1>1. pod[n].ip \in IPs
  BY DEF TypeOK, Pod
<1>2. CASE \E d \in daemons : d.node = n
           /\ new = (daemons \ {d}) \cup {[d EXCEPT !.ip = pod[n].ip]}
  BY <1>1, <1>2 DEF Daemon
<1>3. CASE \E i \in Indices :
           new = daemons \cup {[node |-> n, ip |-> pod[n].ip, index |-> i,
                                status |-> "NotReady"]}
  BY <1>1, <1>3 DEF Daemon, Status
<1> QED
  BY <1>2, <1>3 DEF SyncedDaemons

(* Inserting or re-addressing this node's entry keeps slots distinct, and  *)
(* keeps the index of every node that was listed.                          *)
LEMMA SyncedDaemonsDistinct ==
    ASSUME NEW n \in Nodes, NEW daemons \in SUBSET Daemon,
           NEW new \in SyncedDaemons(n, daemons),
           \A d, e \in daemons :
              d.node = e.node \/ d.index = e.index => d = e
    PROVE  /\ \A d, e \in new :
                d.node = e.node \/ d.index = e.index => d = e
           /\ \A d \in daemons, e \in new :
                d.node = e.node => d.index = e.index
<1>1. CASE \E d \in daemons : d.node = n
           /\ new = (daemons \ {d}) \cup {[d EXCEPT !.ip = pod[n].ip]}
  <2>1. PICK d \in daemons :
             /\ d.node = n
             /\ new = (daemons \ {d}) \cup {[d EXCEPT !.ip = pod[n].ip]}
    BY <1>1
  <2> DEFINE d2 == [d EXCEPT !.ip = pod[n].ip]
  <2>2. d2.node = d.node /\ d2.index = d.index
    BY DEF Daemon
  <2>3. \A e \in daemons \ {d} : e.node # d2.node /\ e.index # d2.index
    BY <2>1, <2>2
  <2>4. new = (daemons \ {d}) \cup {d2}
    BY <2>1
  <2> HIDE DEF d2
  <2>5. \A x, y \in new : x.node = y.node \/ x.index = y.index => x = y
    BY <2>3, <2>4
  <2>6. \A x \in daemons, y \in new : x.node = y.node => x.index = y.index
    BY <2>1, <2>2, <2>3, <2>4
  <2> QED
    BY <2>5, <2>6
<1>2. CASE \E i \in Indices :
           /\ \A d \in daemons : d.node # n
           /\ NextAvailableIndex(i, daemons)
           /\ new = daemons \cup {[node |-> n, ip |-> pod[n].ip, index |-> i,
                                   status |-> "NotReady"]}
  <2>1. PICK i \in Indices :
           /\ \A d \in daemons : d.node # n
           /\ \A d \in daemons : d.index # i
           /\ new = daemons \cup {[node |-> n, ip |-> pod[n].ip, index |-> i,
                                   status |-> "NotReady"]}
    BY <1>2 DEF NextAvailableIndex, FreeIndices
  <2> QED
    BY <2>1
<1> QED
  BY <1>1, <1>2 DEF SyncedDaemons

-----------------------------------------------------------------------------
(* What the steps do to types and copies *)

(* No object, no entries, no copies: the invariant holds initially. *)
LEMMA InitInd == Init => IndInv
<1> SUFFICES ASSUME Init PROVE IndInv
  OBVIOUS
<1>1. TypeOK
  <2>1. NewManager \in Manager
    BY DEF NewManager, Manager, View, NoView, Indices
  <2>2. clique \in CliqueObject
    BY DEF Init, NoClique, CliqueObject
  <2>3. pod \in [Nodes -> Pod]
    BY DEF Init, Pod
  <2> QED
    BY <2>1, <2>2, <2>3 DEF Init, TypeOK
<1>2. CurrentCopies
  BY DEF Init, CurrentCopies, NewManager
<1>3. SlotsDistinct /\ (~clique.exists => clique.daemons = {})
  BY DEF Init, NoClique, SlotsDistinct
<1> QED
  BY <1>1, <1>2, <1>3 DEF IndInv

(* Updating fields of a daemon's state within their types. *)
LEMMA ManagerFlags ==
    \A m \in Manager :
        /\ [m EXCEPT !.current = FALSE] \in Manager
        /\ [m EXCEPT !.status = TRUE] \in Manager
        /\ [m EXCEPT !.status = FALSE] \in Manager
BY DEF Manager

(* A daemon's state with another copy of the object in it. *)
LEMMA ManagerViews ==
    \A m \in Manager, v \in View :
        /\ [m EXCEPT !.view = v] \in Manager
        /\ [m EXCEPT !.view = v, !.status = FALSE] \in Manager
        /\ [m EXCEPT !.view = v, !.current = TRUE, !.ensure = FALSE]
             \in Manager
BY DEF Manager

(* A write by a daemon keeps types when the new object and the writer's    *)
(* new state have theirs.                                                  *)
LEMMA StoreType ==
    ASSUME TypeOK, NEW c \in CliqueObject, NEW n \in Nodes, NEW m \in Manager,
           Store(c, n, m)
    PROVE  /\ clique' \in CliqueObject
           /\ mgr' \in [Nodes -> Manager]
           /\ cleanups' \in SUBSET SUBSET Nodes
<1>1. \A k \in Nodes : [mgr[k] EXCEPT !.current = FALSE] \in Manager
  <2> TAKE k \in Nodes
  <2> mgr[k] \in Manager
    BY DEF TypeOK
  <2> QED
    BY ManagerFlags
<1> QED
  BY <1>1 DEF Store

(* A write by somebody else keeps types. *)
LEMMA StoreByOtherType ==
    ASSUME TypeOK, NEW c \in CliqueObject, StoreByOther(c)
    PROVE  /\ clique' \in CliqueObject
           /\ mgr' \in [Nodes -> Manager]
           /\ cleanups' \in SUBSET SUBSET Nodes
<1>1. \A k \in Nodes : [mgr[k] EXCEPT !.current = FALSE] \in Manager
  <2> TAKE k \in Nodes
  <2> mgr[k] \in Manager
    BY DEF TypeOK
  <2> QED
    BY ManagerFlags
<1> QED
  BY <1>1 DEF StoreByOther

(* After a daemon's write its own copy may be current, and then it is the  *)
(* object; every other copy is stale.                                      *)
LEMMA StoreCopies ==
    ASSUME TypeOK, NEW c, NEW n \in Nodes, NEW m, Store(c, n, m),
           m.current => m.view = ViewOf(c)
    PROVE  CurrentCopies'
<1>1. \A k \in Nodes : k # n => ~mgr'[k].current
  BY DEF Store, TypeOK, Manager
<1>2. mgr'[n] = m /\ clique' = c
  BY DEF Store
<1> QED
  BY <1>1, <1>2 DEF CurrentCopies, ViewOf

(* A write by the controller or the garbage collector makes every copy     *)
(* of a daemon stale.                                                      *)
LEMMA StoreByOtherCopies ==
    ASSUME TypeOK, NEW c, StoreByOther(c)
    PROVE  CurrentCopies'
<1>1. \A k \in Nodes : ~mgr'[k].current
  BY DEF StoreByOther, TypeOK, Manager
<1> QED
  BY <1>1 DEF CurrentCopies

-----------------------------------------------------------------------------
(* The inductive invariant *)

(* Every step preserves the invariant. *)
LEMMA NextInd == IndInv /\ [Next]_vars => IndInv'
<1> SUFFICES ASSUME IndInv, [Next]_vars PROVE IndInv'
  OBVIOUS
<1>0. TypeOK /\ CurrentCopies /\ SlotsDistinct
      /\ (~clique.exists => clique.daemons = {})
  BY DEF IndInv
<1>a. /\ clique \in CliqueObject /\ pod \in [Nodes -> Pod]
      /\ mgr \in [Nodes -> Manager] /\ ctrlPods \in SUBSET Nodes
      /\ cleanups \in SUBSET SUBSET Nodes
  BY <1>0 DEF TypeOK
<1>b. NewManager \in Manager /\ ~NewManager.current
  BY DEF NewManager, Manager, View, NoView
<1>c. NoClique \in CliqueObject
  BY DEF NoClique, CliqueObject
\* Steps that leave the object and the copies alone.
<1>1. ASSUME NEW n \in Nodes, NEW ip \in IPs, PodCreated(n, ip)
      PROVE  IndInv'
  <2>1. [phase |-> "running", ip |-> ip, ready |-> FALSE] \in Pod
    BY DEF Pod
  <2>2. pod' \in [Nodes -> Pod]
    BY <1>1, <1>a, <2>1 DEF PodCreated
  <2> QED
    BY <1>1, <1>0, <1>a, <2>2
    DEF PodCreated, IndInv, TypeOK, CurrentCopies, SlotsDistinct, ViewOf
<1>2. ASSUME NEW n \in Nodes, ContainerRestarted(n)
      PROVE  IndInv'
  <2>1. pod' \in [Nodes -> Pod]
    BY <1>2, <1>a DEF ContainerRestarted, Pod
  <2> QED
    BY <1>2, <1>0, <1>a, <2>1
    DEF ContainerRestarted, IndInv, TypeOK, CurrentCopies, SlotsDistinct,
        ViewOf
<1>3. ASSUME NEW n \in Nodes, ContainerKilled(n)
      PROVE  IndInv'
  <2>1. pod' \in [Nodes -> Pod]
    BY <1>3, <1>a DEF ContainerKilled, Pod
  <2>2. mgr' \in [Nodes -> Manager]
    BY <1>3, <1>a, <1>b DEF ContainerKilled
  <2>3. CurrentCopies'
    BY <1>3, <1>0, <1>a, <1>b DEF ContainerKilled, CurrentCopies, ViewOf
  <2> QED
    BY <1>3, <1>0, <1>a, <2>1, <2>2, <2>3
    DEF ContainerKilled, IndInv, TypeOK, SlotsDistinct
<1>4. ASSUME NEW n \in Nodes, PodDeleted(n)
      PROVE  IndInv'
  <2>1. pod' \in [Nodes -> Pod]
    BY <1>4, <1>a DEF PodDeleted, Pod
  <2>2. clique' \in CliqueObject
    BY <1>4, <1>a DEF PodDeleted, CliqueObject
  <2>3. clique'.exists = clique.exists /\ clique'.daemons = clique.daemons
    BY <1>4, <1>a DEF PodDeleted, CliqueObject
  <2> QED
    BY <1>4, <1>0, <1>a, <2>1, <2>2, <2>3
    DEF PodDeleted, IndInv, TypeOK, CurrentCopies, SlotsDistinct, ViewOf
<1>5. ASSUME NEW n \in Nodes, ReadinessChanged(n)
      PROVE  IndInv'
  <2>1. pod' \in [Nodes -> Pod]
    BY <1>5, <1>a DEF ReadinessChanged, Pod
  <2>2. mgr' \in [Nodes -> Manager]
    <3>1. [mgr[n] EXCEPT !.status = TRUE] \in Manager
      BY <1>a, ManagerFlags
    <3> QED
      BY <1>5, <1>a, <3>1 DEF ReadinessChanged
  <2>3. \A k \in Nodes : /\ mgr'[k].view = mgr[k].view
                         /\ mgr'[k].current = mgr[k].current
    BY <1>5, <1>a DEF ReadinessChanged, Manager
  <2> QED
    BY <1>5, <1>0, <1>a, <2>1, <2>2, <2>3
    DEF ReadinessChanged, IndInv, TypeOK, CurrentCopies, SlotsDistinct, ViewOf
<1>6. ASSUME NEW n \in Nodes, InformerEvent(n)
      PROVE  IndInv'
  <2>1. ViewOf(clique) \in View /\ NoView \in View
    BY <1>a DEF ViewOf, NoView, View, CliqueObject
  <2>2. mgr' \in [Nodes -> Manager]
    <3>1. /\ [mgr[n] EXCEPT !.view = ViewOf(clique), !.current = TRUE,
                            !.ensure = FALSE] \in Manager
          /\ [mgr[n] EXCEPT !.view = NoView] \in Manager
      BY <1>a, <2>1, ManagerViews
    <3> QED
      BY <1>6, <1>a, <3>1 DEF InformerEvent
  <2>3. CurrentCopies'
    BY <1>6, <1>0, <1>a, <2>1 DEF InformerEvent, CurrentCopies, Manager, ViewOf
  <2> QED
    BY <1>6, <1>0, <1>a, <2>2, <2>3
    DEF InformerEvent, IndInv, TypeOK, SlotsDistinct
<1>7. ASSUME NEW n \in Nodes, Resync(n)
      PROVE  IndInv'
  <2>2. mgr' \in [Nodes -> Manager]
    <3>1. [mgr[n] EXCEPT !.status = TRUE] \in Manager
      BY <1>a, ManagerFlags
    <3> QED
      BY <1>7, <1>a, <3>1 DEF Resync
  <2>3. \A k \in Nodes : /\ mgr'[k].view = mgr[k].view
                         /\ mgr'[k].current = mgr[k].current
    BY <1>7, <1>a DEF Resync, Manager
  <2> QED
    BY <1>7, <1>0, <1>a, <2>2, <2>3
    DEF Resync, IndInv, TypeOK, CurrentCopies, SlotsDistinct, ViewOf
\* Writes by a daemon.
<1>8. ASSUME NEW n \in Nodes, EnsureCliqueExists(n)
      PROVE  IndInv'
  <2> DEFINE c == [exists |-> TRUE, daemons |-> {}, owners |-> {n},
                   orphans |-> FALSE]
             m == [mgr[n] EXCEPT !.view = ViewOf(c), !.current = TRUE,
                                 !.ensure = FALSE]
  <2>1. c \in CliqueObject /\ ViewOf(c) \in View
    BY DEF CliqueObject, ViewOf, View
  <2>2. m \in Manager
    BY <1>a, <2>1, ManagerViews
  <2>3. m.view = ViewOf(c)
    BY <1>a DEF Manager
  <2>4. Store(c, n, m) /\ pod' = pod /\ ctrlPods' = ctrlPods
    BY <1>8 DEF EnsureCliqueExists
  <2>5. c.exists /\ c.daemons = {}
    OBVIOUS
  <2> HIDE DEF c, m
  <2>6. TypeOK' /\ clique' = c
    BY <1>0, <1>a, <2>1, <2>2, <2>4, StoreType DEF TypeOK, Store
  <2>7. CurrentCopies'
    BY <1>0, <2>3, <2>4, StoreCopies
  <2> QED
    BY <2>5, <2>6, <2>7 DEF IndInv, SlotsDistinct
<1>9. ASSUME NEW n \in Nodes, OnAddOrUpdate(n)
      PROVE  IndInv'
  <2>1. PICK new \in SyncedDaemons(n, mgr[n].view.daemons) :
          /\ mgr[n].current
          /\ mgr[n].view.exists
          /\ LET c == [clique EXCEPT !.daemons = new, !.owners = @ \cup {n}]
             IN Store(c, n, [mgr[n] EXCEPT !.view = ViewOf(c)])
          /\ pod' = pod /\ ctrlPods' = ctrlPods
    BY <1>9 DEF OnAddOrUpdate
  <2> DEFINE c == [clique EXCEPT !.daemons = new, !.owners = @ \cup {n}]
             m == [mgr[n] EXCEPT !.view = ViewOf(c)]
  <2>2. mgr[n].view.daemons = clique.daemons /\ clique.exists
    BY <1>0, <2>1 DEF CurrentCopies, ViewOf
  <2>3. clique.daemons \in SUBSET Daemon
    BY <1>a DEF CliqueObject
  <2>4. new \in SUBSET Daemon
    BY <1>0, <2>1, <2>2, <2>3, SyncedDaemonsType
  <2>5. c \in CliqueObject /\ ViewOf(c) \in View
    BY <1>a, <2>4 DEF CliqueObject, ViewOf, View
  <2>6. m \in Manager /\ m.view = ViewOf(c)
    <3>1. m \in Manager
      BY <1>a, <2>5, ManagerViews
    <3>2. m.view = ViewOf(c)
      BY <1>a DEF Manager
    <3> QED
      BY <3>1, <3>2
  <2>7. c.exists /\ c.daemons = new
    BY <1>a, <2>2 DEF CliqueObject
  <2>8. Store(c, n, m)
    BY <2>1
  <2> HIDE DEF c, m
  <2>9. TypeOK' /\ clique' = c
    <3>1. pod' = pod /\ ctrlPods' = ctrlPods
      BY <2>1
    <3> QED
      BY <1>0, <1>a, <2>5, <2>6, <2>8, <3>1, StoreType DEF TypeOK, Store
  <2>10. CurrentCopies'
    BY <1>0, <2>6, <2>8, StoreCopies
  <2>11. \A d, e \in new : d.node = e.node \/ d.index = e.index => d = e
    BY <1>0, <2>1, <2>2, <2>3, SyncedDaemonsDistinct DEF SlotsDistinct
  <2> QED
    BY <2>7, <2>9, <2>10, <2>11 DEF IndInv, SlotsDistinct
<1>10. ASSUME NEW n \in Nodes, UpdateDaemonStatus(n)
       PROVE  IndInv'
  <2> DEFINE status == PodStatus(n)
  <2>1. PICK d \in mgr[n].view.daemons :
          /\ d.node = n
          /\ \/ /\ mgr' = [mgr EXCEPT ![n].status = FALSE]
                /\ UNCHANGED <<clique, cleanups>>
             \/ /\ mgr[n].current
                /\ LET c == [clique EXCEPT !.daemons =
                               (mgr[n].view.daemons \ {d})
                               \cup {[d EXCEPT !.status = status]}]
                   IN Store(c, n, [mgr[n] EXCEPT !.view = ViewOf(c),
                                                 !.status = FALSE])
    BY <1>10 DEF UpdateDaemonStatus
  <2>2. pod' = pod /\ ctrlPods' = ctrlPods
    BY <1>10 DEF UpdateDaemonStatus
  <2>3. CASE mgr' = [mgr EXCEPT ![n].status = FALSE]
             /\ UNCHANGED <<clique, cleanups>>
    <3>1. mgr' \in [Nodes -> Manager]
      <4>1. [mgr[n] EXCEPT !.status = FALSE] \in Manager
        BY <1>a, ManagerFlags
      <4> QED
        BY <2>3, <1>a, <4>1
    <3>2. \A k \in Nodes : /\ mgr'[k].view = mgr[k].view
                           /\ mgr'[k].current = mgr[k].current
      BY <2>3, <1>a DEF Manager
    <3> QED
      BY <2>2, <2>3, <1>0, <1>a, <3>1, <3>2
      DEF IndInv, TypeOK, CurrentCopies, SlotsDistinct, ViewOf
  <2>4. CASE mgr[n].current /\ ~(UNCHANGED <<clique, cleanups>>
               /\ mgr' = [mgr EXCEPT ![n].status = FALSE])
    <3> DEFINE d2 == [d EXCEPT !.status = status]
               new == (mgr[n].view.daemons \ {d}) \cup {d2}
               c == [clique EXCEPT !.daemons = new]
               m == [mgr[n] EXCEPT !.view = ViewOf(c), !.status = FALSE]
    <3>1. mgr[n].view.daemons = clique.daemons
          /\ clique.exists = mgr[n].view.exists
      BY <1>0, <2>4 DEF CurrentCopies, ViewOf
    <3>2. clique.daemons \in SUBSET Daemon
      BY <1>a DEF CliqueObject
    <3>3. d2 \in Daemon /\ d2.node = d.node /\ d2.index = d.index
      BY <2>1, <3>1, <3>2 DEF Daemon, Status, PodStatus
    <3>4. new \in SUBSET Daemon
      BY <3>1, <3>2, <3>3
    <3>5. c \in CliqueObject /\ ViewOf(c) \in View
      BY <1>a, <3>4 DEF CliqueObject, ViewOf, View
    <3>6. m \in Manager /\ m.view = ViewOf(c)
      <4>1. m \in Manager
        BY <1>a, <3>5, ManagerViews
      <4>2. m.view = ViewOf(c)
        BY <1>a DEF Manager
      <4> QED
        BY <4>1, <4>2
    <3>7. c.daemons = new /\ c.exists = clique.exists
      BY <1>a DEF CliqueObject
    <3>8. Store(c, n, m)
      BY <2>1, <2>4
    <3>9. \A x, y \in new : x.node = y.node \/ x.index = y.index => x = y
      <4>1. \A e \in clique.daemons \ {d} :
                e.node # d2.node /\ e.index # d2.index
        BY <1>0, <2>1, <3>1, <3>3 DEF SlotsDistinct
      <4>2. \A x, y \in clique.daemons :
                x.node = y.node \/ x.index = y.index => x = y
        BY <1>0 DEF SlotsDistinct
      <4>3. new = (clique.daemons \ {d}) \cup {d2}
        BY <3>1
      <4> HIDE DEF new, d2
      <4> QED
        BY <4>1, <4>2, <4>3
    <3>10. clique.exists
      BY <1>0, <2>1, <3>1
    <3> HIDE DEF c, m, new
    <3>11. TypeOK' /\ clique' = c
      BY <1>0, <1>a, <2>2, <3>5, <3>6, <3>8, StoreType DEF TypeOK, Store
    <3>12. CurrentCopies'
      BY <1>0, <3>6, <3>8, StoreCopies
    <3> QED
      BY <3>7, <3>9, <3>10, <3>11, <3>12 DEF IndInv, SlotsDistinct
  <2> QED
    BY <2>1, <2>3, <2>4
<1>11. ASSUME NEW n \in Nodes, Stop(n)
       PROVE  IndInv'
  <2> DEFINE remaining == RemainingDaemons(n)
             c == [clique EXCEPT !.daemons = remaining]
  <2>1. pod' \in [Nodes -> Pod] /\ ctrlPods' = ctrlPods
    <3>1. pod' = [pod EXCEPT ![n].phase = "stopped", ![n].ready = FALSE]
          /\ ctrlPods' = ctrlPods
      BY <1>11 DEF Stop
    <3> QED
      BY <1>a, <3>1 DEF Pod
  <2>2. CASE mgr[n].current /\ remaining # mgr[n].view.daemons
    <3>1. Store(c, n, NewManager)
      BY <1>11, <2>2 DEF Stop
    <3>2. remaining \subseteq clique.daemons /\ c.daemons = remaining
          /\ c.exists = clique.exists
      BY <1>0, <1>a, <2>2 DEF CurrentCopies, RemainingDaemons, ViewOf,
                             CliqueObject
    <3>3. c \in CliqueObject
      BY <1>a, <3>2 DEF CliqueObject
    <3> HIDE DEF c, remaining
    <3>4. TypeOK' /\ clique' = c
      BY <1>0, <1>a, <1>b, <2>1, <3>1, <3>3, StoreType DEF TypeOK, Store
    <3>5. CurrentCopies'
      BY <1>0, <1>b, <3>1, StoreCopies
    <3> QED
      BY <1>0, <3>2, <3>4, <3>5 DEF IndInv, SlotsDistinct
  <2>3. CASE ~(mgr[n].current /\ remaining # mgr[n].view.daemons)
    <3>1. mgr' = [mgr EXCEPT ![n] = NewManager] /\ UNCHANGED <<clique, cleanups>>
      BY <1>11, <2>3 DEF Stop
    <3> QED
      BY <1>0, <1>a, <1>b, <2>1, <3>1
      DEF IndInv, TypeOK, CurrentCopies, SlotsDistinct, ViewOf
  <2> QED
    BY <2>2, <2>3
\* The controller and the garbage collector.
<1>12. ASSUME ObservePods PROVE IndInv'
  BY <1>12, <1>0, <1>a
  DEF ObservePods, IndInv, TypeOK, CurrentCopies, SlotsDistinct, ViewOf
<1>13. ASSUME SyncCliques PROVE IndInv'
  BY <1>13, <1>0, <1>a
  DEF SyncCliques, IndInv, TypeOK, CurrentCopies, SlotsDistinct, ViewOf
<1>14. ASSUME NEW runningNodes \in cleanups, CleanupClique(runningNodes)
       PROVE  IndInv'
  <2> DEFINE kept == {d \in clique.daemons : d.node \in runningNodes}
             c == [clique EXCEPT !.daemons = kept]
  <2>1. StoreByOther(c) /\ pod' = pod /\ ctrlPods' = ctrlPods
    BY <1>14 DEF CleanupClique
  <2>2. c \in CliqueObject /\ c.daemons = kept /\ c.exists = clique.exists
    BY <1>a DEF CliqueObject
  <2>3. TypeOK' /\ clique' = c
    BY <1>0, <1>a, <2>1, <2>2, StoreByOtherType DEF TypeOK, StoreByOther
  <2>4. CurrentCopies'
    BY <1>0, <2>1, StoreByOtherCopies
  <2> QED
    BY <1>0, <2>2, <2>3, <2>4 DEF IndInv, SlotsDistinct
<1>15. ASSUME CollectGarbage PROVE IndInv'
  <2> DEFINE c == IF clique.owners = {} THEN NoClique
                  ELSE [clique EXCEPT !.orphans = FALSE]
  <2>1. StoreByOther(c) /\ pod' = pod /\ ctrlPods' = ctrlPods
    BY <1>15 DEF CollectGarbage
  <2>2. c \in CliqueObject /\ c.daemons \subseteq clique.daemons
        /\ (~c.exists => c.daemons = {})
    BY <1>0, <1>a, <1>c DEF CliqueObject, NoClique
  <2> HIDE DEF c
  <2>3. TypeOK' /\ clique' = c
    BY <1>0, <1>a, <2>1, <2>2, StoreByOtherType DEF TypeOK, StoreByOther
  <2>4. CurrentCopies'
    BY <1>0, <2>1, StoreByOtherCopies
  <2> QED
    BY <1>0, <2>2, <2>3, <2>4 DEF IndInv, SlotsDistinct
<1>16. CASE UNCHANGED vars
  BY <1>16, <1>0, <1>a
  DEF vars, IndInv, TypeOK, CurrentCopies, SlotsDistinct, ViewOf
<1> QED
  BY <1>1, <1>2, <1>3, <1>4, <1>5, <1>6, <1>7, <1>8, <1>9, <1>10, <1>11,
     <1>12, <1>13, <1>14, <1>15, <1>16 DEF Next

(* Every reachable state satisfies the inductive invariant. *)
THEOREM Inductive == Spec => []IndInv
BY InitInd, NextInd, PTL DEF Spec

(* The variables of CDClique keep their types. *)
THEOREM TypeCorrect == Spec => []TypeOK
<1>1. IndInv => TypeOK
  BY DEF IndInv
<1> QED
  BY <1>1, Inductive, PTL

(* No two entries share a node or an index, for every number of daemons,   *)
(* restarts and conflicts.                                                 *)
THEOREM DistinctSlots == Spec => []SlotsDistinct
<1>1. IndInv => SlotsDistinct
  BY DEF IndInv
<1> QED
  BY <1>1, Inductive, PTL

-----------------------------------------------------------------------------
(* What a step can do to the list of entries, and what follows from it. *)

SlotsOf(daemons) == {[node |-> d.node, index |-> d.index] : d \in daemons}

(* A step only removes entries, or keeps every slot, or inserts one node   *)
(* at the lowest free index.                                               *)
DaemonsStep ==
    \/ clique'.daemons \subseteq clique.daemons
    \/ SlotsOf(clique'.daemons) = SlotsOf(clique.daemons)
    \/ \E n \in Nodes, i \in Indices :
         /\ \A d \in clique.daemons : d.node # n
         /\ NextAvailableIndex(i, clique.daemons)
         /\ SlotsOf(clique'.daemons) =
              SlotsOf(clique.daemons) \cup {[node |-> n, index |-> i]}

(* Replacing an entry by one with the same node and index keeps the slots. *)
LEMMA ReplaceKeepsSlots ==
    ASSUME NEW daemons, NEW d \in daemons, NEW e,
           e.node = d.node, e.index = d.index
    PROVE  SlotsOf((daemons \ {d}) \cup {e}) = SlotsOf(daemons)
BY DEF SlotsOf

(* Every step does to the list what DaemonsStep allows. *)
LEMMA NextDaemons == IndInv /\ [Next]_vars => DaemonsStep
<1> SUFFICES ASSUME IndInv, [Next]_vars PROVE DaemonsStep
  OBVIOUS
<1>a. /\ clique \in CliqueObject /\ CurrentCopies
      /\ mgr \in [Nodes -> Manager]
  BY DEF IndInv, TypeOK
<1>b. clique.daemons \in SUBSET Daemon
  BY <1>a DEF CliqueObject
<1>1. ASSUME NEW n \in Nodes, EnsureCliqueExists(n) PROVE DaemonsStep
  BY <1>1 DEF EnsureCliqueExists, Store, DaemonsStep
<1>2. ASSUME NEW n \in Nodes, OnAddOrUpdate(n) PROVE DaemonsStep
  <2>1. PICK new \in SyncedDaemons(n, mgr[n].view.daemons) :
          mgr[n].current /\ clique'.daemons = new
    BY <1>2, <1>a DEF OnAddOrUpdate, Store, CliqueObject
  <2>2. new \in SyncedDaemons(n, clique.daemons)
    BY <1>a, <2>1 DEF CurrentCopies, ViewOf
  <2>3. CASE \E d \in clique.daemons :
             new = (clique.daemons \ {d}) \cup {[d EXCEPT !.ip = pod[n].ip]}
    <3>1. PICK d \in clique.daemons :
             new = (clique.daemons \ {d}) \cup {[d EXCEPT !.ip = pod[n].ip]}
      BY <2>3
    <3> DEFINE d2 == [d EXCEPT !.ip = pod[n].ip]
    <3>2. d2.node = d.node /\ d2.index = d.index
      BY <1>b DEF Daemon
    <3>3. clique'.daemons = (clique.daemons \ {d}) \cup {d2}
      BY <2>1, <3>1
    <3> HIDE DEF d2
    <3> QED
      BY <3>2, <3>3, ReplaceKeepsSlots DEF DaemonsStep
  <2>4. CASE \E i \in Indices :
             /\ \A d \in clique.daemons : d.node # n
             /\ NextAvailableIndex(i, clique.daemons)
             /\ new = clique.daemons \cup
                   {[node |-> n, ip |-> pod[n].ip, index |-> i,
                     status |-> "NotReady"]}
    <3>1. PICK i \in Indices :
             /\ \A d \in clique.daemons : d.node # n
             /\ NextAvailableIndex(i, clique.daemons)
             /\ new = clique.daemons \cup
                   {[node |-> n, ip |-> pod[n].ip, index |-> i,
                     status |-> "NotReady"]}
      BY <2>4
    <3>2. SlotsOf(new) = SlotsOf(clique.daemons)
                         \cup {[node |-> n, index |-> i]}
      <4> DEFINE x == [node |-> n, ip |-> pod[n].ip, index |-> i,
                       status |-> "NotReady"]
      <4>1. new = clique.daemons \cup {x} /\ x.node = n /\ x.index = i
        BY <3>1
      <4> HIDE DEF x
      <4> QED
        BY <4>1 DEF SlotsOf
    <3> QED
      BY <2>1, <3>1, <3>2 DEF DaemonsStep
  <2> QED
    BY <2>2, <2>3, <2>4 DEF SyncedDaemons
<1>3. ASSUME NEW n \in Nodes, UpdateDaemonStatus(n) PROVE DaemonsStep
  <2> DEFINE status == PodStatus(n)
  <2>1. CASE clique' = clique
    BY <2>1 DEF DaemonsStep
  <2>2. CASE clique' # clique
    <3>1. PICK d \in mgr[n].view.daemons :
            /\ mgr[n].current
            /\ clique' = [clique EXCEPT !.daemons =
                 (mgr[n].view.daemons \ {d}) \cup {[d EXCEPT !.status = status]}]
      BY <1>3, <2>2 DEF UpdateDaemonStatus, Store
    <3>2. mgr[n].view.daemons = clique.daemons
      BY <1>a, <3>1 DEF CurrentCopies, ViewOf
    <3> DEFINE d2 == [d EXCEPT !.status = status]
    <3>3. d2.node = d.node /\ d2.index = d.index
      BY <1>b, <3>2 DEF Daemon
    <3>4. clique'.daemons = (clique.daemons \ {d}) \cup {d2}
      BY <1>a, <3>1, <3>2 DEF CliqueObject
    <3> HIDE DEF d2
    <3> QED
      BY <3>2, <3>3, <3>4, ReplaceKeepsSlots DEF DaemonsStep
  <2> QED
    BY <2>1, <2>2
<1>4. ASSUME NEW n \in Nodes, Stop(n) PROVE DaemonsStep
  BY <1>4, <1>a DEF Stop, RemainingDaemons, Store, DaemonsStep, CurrentCopies,
                  ViewOf, CliqueObject
<1>5. ASSUME NEW runningNodes \in cleanups, CleanupClique(runningNodes)
      PROVE  DaemonsStep
  BY <1>5, <1>a DEF CleanupClique, StoreByOther, DaemonsStep, CliqueObject
<1>6. ASSUME CollectGarbage PROVE DaemonsStep
  BY <1>6, <1>a
  DEF CollectGarbage, StoreByOther, DaemonsStep, CliqueObject, NoClique
<1>7. ASSUME NEW n \in Nodes, PodDeleted(n) PROVE DaemonsStep
  BY <1>7, <1>a DEF PodDeleted, DaemonsStep, CliqueObject
<1>8. ASSUME clique' = clique PROVE DaemonsStep
  BY <1>8 DEF DaemonsStep
<1>9. ASSUME NEW n \in Nodes,
             \/ \E ip \in IPs : PodCreated(n, ip)
             \/ ContainerRestarted(n) \/ ContainerKilled(n)
             \/ ReadinessChanged(n) \/ InformerEvent(n) \/ Resync(n)
      PROVE  clique' = clique
  BY <1>9 DEF PodCreated, ContainerRestarted, ContainerKilled,
              ReadinessChanged, InformerEvent, Resync
<1>10. ASSUME ObservePods \/ SyncCliques \/ UNCHANGED vars
       PROVE  clique' = clique
  BY <1>10 DEF ObservePods, SyncCliques, vars
<1> QED
  BY <1>1, <1>2, <1>3, <1>4, <1>5, <1>6, <1>7, <1>8, <1>9, <1>10 DEF Next

(* A node that stays listed keeps its index. *)
THEOREM IndexStability == Spec => StableIndex
<1>1. ASSUME IndInv, IndInv', [Next]_vars,
             NEW d \in clique.daemons, NEW e \in clique'.daemons,
             d.node = e.node
      PROVE  d.index = e.index
  <2>1. DaemonsStep
    BY <1>1, NextDaemons
  <2>2. SlotsDistinct /\ clique.daemons \in SUBSET Daemon
    BY <1>1 DEF IndInv, TypeOK, CliqueObject
  <2>3. CASE clique'.daemons \subseteq clique.daemons
    BY <1>1, <2>2, <2>3 DEF SlotsDistinct
  <2> DEFINE s == [node |-> e.node, index |-> e.index]
  <2>4. s \in SlotsOf(clique'.daemons)
    BY DEF SlotsOf
  <2>5. CASE s \in SlotsOf(clique.daemons)
    <3>1. PICK f \in clique.daemons :
               s = [node |-> f.node, index |-> f.index]
      BY <2>5 DEF SlotsOf
    <3>2. f.node = e.node /\ f.index = e.index
      BY <3>1
    <3> QED
      BY <1>1, <2>2, <3>2 DEF SlotsDistinct
  <2>6. CASE \E n \in Nodes, i \in Indices :
               /\ \A x \in clique.daemons : x.node # n
               /\ s = [node |-> n, index |-> i]
    <3>1. \A x \in clique.daemons : x.node # s.node
      BY <2>6
    <3> QED
      BY <1>1, <3>1
  <2> QED
    BY <2>1, <2>3, <2>4, <2>5, <2>6 DEF DaemonsStep
<1>2. IndInv /\ IndInv' /\ [Next]_vars =>
        [\A d \in clique.daemons, e \in clique'.daemons :
            d.node = e.node => d.index = e.index]_vars
  BY <1>1
<1> QED
  BY <1>2, Inductive, PTL DEF Spec, StableIndex

(* The clique protocol implements the atomic slot registry. *)
THEOREM Refinement == Spec => ImplementsRegistry
<1> DEFINE slots == {[node |-> d.node, index |-> d.index] :
                        d \in clique.daemons}
<1>1. Init => Registry!Init
  BY DEF Init, NoClique, Registry!Init
<1>2. IndInv /\ [Next]_vars => [Registry!Next]_slots
  <2> SUFFICES ASSUME IndInv, [Next]_vars, slots' # slots
               PROVE  Registry!Next
    OBVIOUS
  <2>0. slots = SlotsOf(clique.daemons) /\ slots' = SlotsOf(clique'.daemons)
    BY DEF SlotsOf
  <2>1. DaemonsStep
    BY NextDaemons
  <2>2. CASE clique'.daemons \subseteq clique.daemons
    <3> DEFINE S == slots \ slots'
    <3>1. slots' \subseteq slots
      BY <2>2
    <3> HIDE DEF slots
    <3>2. S # {} /\ S \in SUBSET slots /\ slots' = slots \ S
      BY <3>1
    <3> HIDE DEF S
    <3>3. \E T \in SUBSET slots : T # {} /\ slots' = slots \ T
      BY <3>2
    <3> USE DEF slots
    <3> QED
      BY <3>3 DEF Registry!Next, Registry!Release
  <2>3. CASE \E n \in Nodes, i \in Indices :
         /\ \A d \in clique.daemons : d.node # n
         /\ NextAvailableIndex(i, clique.daemons)
         /\ slots' = slots \cup {[node |-> n, index |-> i]}
    <3>1. PICK n \in Nodes, i \in Indices :
         /\ \A d \in clique.daemons : d.node # n
         /\ NextAvailableIndex(i, clique.daemons)
         /\ slots' = slots \cup {[node |-> n, index |-> i]}
      BY <2>3
    <3>2. \A t \in slots : t.node # n
      BY <3>1
    <3>3. Registry!Free = FreeIndices(clique.daemons)
      <4>1. \A i1 : (\A t \in slots : t.index # i1)
                    <=> (\A d \in clique.daemons : d.index # i1)
        <5>1. ASSUME NEW i1, \A t \in slots : t.index # i1,
                     NEW d \in clique.daemons
              PROVE  d.index # i1
          <6>1. [node |-> d.node, index |-> d.index] \in slots
            OBVIOUS
          <6>2. [node |-> d.node, index |-> d.index].index = d.index
            OBVIOUS
          <6> HIDE DEF slots
          <6> QED
            BY <5>1, <6>1, <6>2
        <5>2. ASSUME NEW i1, \A d \in clique.daemons : d.index # i1,
                     NEW t \in slots
              PROVE  t.index # i1
          BY <5>2
        <5> QED
          BY <5>1, <5>2
      <4> QED
        BY <4>1 DEF Registry!Free, FreeIndices, Registry!Indices, Indices
    <3>4. Registry!Register(n)
      BY <3>1, <3>2, <3>3 DEF Registry!Register, NextAvailableIndex
    <3> QED
      BY <3>4 DEF Registry!Next
  <2> QED
    BY <2>0, <2>1, <2>2, <2>3 DEF DaemonsStep
<1> QED
  BY <1>1, <1>2, Inductive, PTL DEF Spec, ImplementsRegistry, Registry!Spec

-----------------------------------------------------------------------------
(* The hosts files *)

(* A daemon's copy comes from the object before or after the step, or the  *)
(* step does not touch it.                                                 *)
LEMMA NextViews ==
    ASSUME IndInv, [Next]_vars, NEW k \in Nodes
    PROVE  \/ mgr'[k].view.daemons = mgr[k].view.daemons
           \/ mgr'[k].view.daemons = {}
           \/ mgr'[k].view.daemons = clique'.daemons
<1>a. /\ mgr \in [Nodes -> Manager] /\ CurrentCopies /\ clique \in CliqueObject
  BY DEF IndInv, TypeOK
<1> DEFINE Goal == \/ mgr'[k].view.daemons = mgr[k].view.daemons
                   \/ mgr'[k].view.daemons = {}
                   \/ mgr'[k].view.daemons = clique'.daemons
<1>b. NewManager.view.daemons = {}
  BY DEF NewManager, NoView
<1>1. ASSUME NEW c, NEW n \in Nodes, NEW m, Store(c, n, m),
             m.view.daemons = c.daemons \/ m.view.daemons = {}
      PROVE  Goal
  <2>1. CASE k = n
    BY <1>1, <2>1 DEF Store
  <2>2. CASE k # n
    <3>1. mgr'[k] = [mgr[k] EXCEPT !.current = FALSE]
      BY <1>1, <2>2 DEF Store
    <3> QED
      BY <1>a, <3>1 DEF Manager
  <2> QED
    BY <2>1, <2>2
<1>2. ASSUME NEW c, StoreByOther(c) PROVE Goal
  <2>1. mgr'[k] = [mgr[k] EXCEPT !.current = FALSE]
    BY <1>2 DEF StoreByOther
  <2> QED
    BY <1>a, <2>1 DEF Manager
<1>3. ASSUME NEW n \in Nodes, EnsureCliqueExists(n) PROVE Goal
  <2> DEFINE c == [exists |-> TRUE, daemons |-> {}, owners |-> {n},
                   orphans |-> FALSE]
             m == [mgr[n] EXCEPT !.view = ViewOf(c), !.current = TRUE,
                                 !.ensure = FALSE]
  <2>1. Store(c, n, m)
    BY <1>3 DEF EnsureCliqueExists
  <2>2. m.view = ViewOf(c)
    BY <1>a DEF Manager
  <2>3. m.view.daemons = c.daemons
    BY <2>2 DEF ViewOf
  <2> HIDE DEF c, m
  <2> QED
    BY <1>1, <2>1, <2>3
<1>4. ASSUME NEW n \in Nodes, OnAddOrUpdate(n) PROVE Goal
  <2>1. PICK c : Store(c, n, [mgr[n] EXCEPT !.view = ViewOf(c)])
    BY <1>4 DEF OnAddOrUpdate
  <2> DEFINE m == [mgr[n] EXCEPT !.view = ViewOf(c)]
  <2>2. m.view = ViewOf(c)
    BY <1>a DEF Manager
  <2>3. m.view.daemons = c.daemons
    BY <2>2 DEF ViewOf
  <2>4. Store(c, n, m)
    BY <2>1
  <2> HIDE DEF m
  <2> QED
    BY <1>1, <2>3, <2>4
<1>5. ASSUME NEW n \in Nodes, UpdateDaemonStatus(n) PROVE Goal
  <2>1. CASE mgr' = [mgr EXCEPT ![n].status = FALSE]
    BY <1>a, <2>1 DEF Manager
  <2>2. CASE \E c : Store(c, n, [mgr[n] EXCEPT !.view = ViewOf(c),
                                               !.status = FALSE])
    <3>1. PICK c : Store(c, n, [mgr[n] EXCEPT !.view = ViewOf(c),
                                              !.status = FALSE])
      BY <2>2
    <3> DEFINE m == [mgr[n] EXCEPT !.view = ViewOf(c), !.status = FALSE]
    <3>2. m.view = ViewOf(c)
      BY <1>a DEF Manager
    <3>3. m.view.daemons = c.daemons
      BY <3>2 DEF ViewOf
    <3>4. Store(c, n, m)
      BY <3>1
    <3> HIDE DEF m
    <3> QED
      BY <1>1, <3>3, <3>4
  <2> QED
    BY <1>5, <2>1, <2>2 DEF UpdateDaemonStatus
<1>6. ASSUME NEW n \in Nodes, Stop(n) PROVE Goal
  <2>1. CASE mgr' = [mgr EXCEPT ![n] = NewManager]
    BY <1>a, <1>b, <2>1
  <2>2. CASE \E c : Store(c, n, NewManager)
    BY <1>1, <1>b, <2>2
  <2> QED
    BY <1>6, <2>1, <2>2 DEF Stop
<1>7. ASSUME NEW n \in Nodes, ContainerKilled(n) PROVE Goal
  BY <1>7, <1>a, <1>b DEF ContainerKilled
<1>8. ASSUME NEW n \in Nodes, InformerEvent(n) PROVE Goal
  <2>1. CASE mgr' = [mgr EXCEPT ![n].view = ViewOf(clique),
                                ![n].current = TRUE, ![n].ensure = FALSE]
    <3>1. k = n => mgr'[k].view = ViewOf(clique)
      BY <1>a, <2>1 DEF Manager
    <3>2. k # n => mgr'[k] = mgr[k]
      BY <1>a, <2>1
    <3> QED
      BY <1>8, <3>1, <3>2 DEF InformerEvent, ViewOf
  <2>2. CASE mgr' = [mgr EXCEPT ![n].view = NoView]
    BY <1>a, <2>2 DEF Manager, NoView
  <2> QED
    BY <1>8, <2>1, <2>2 DEF InformerEvent
<1>9. ASSUME NEW n \in Nodes, ReadinessChanged(n) \/ Resync(n) PROVE Goal
  <2>1. mgr' = [mgr EXCEPT ![n].status = TRUE]
    BY <1>9 DEF ReadinessChanged, Resync
  <2> QED
    BY <1>a, <2>1 DEF Manager
<1>10. ASSUME NEW runningNodes \in cleanups, CleanupClique(runningNodes)
       PROVE  Goal
  BY <1>10, <1>2 DEF CleanupClique
<1>11. ASSUME CollectGarbage PROVE Goal
  BY <1>11, <1>2 DEF CollectGarbage
<1>12. ASSUME mgr' = mgr PROVE Goal
  BY <1>12
<1>13. ASSUME NEW n \in Nodes,
              \/ \E ip \in IPs : PodCreated(n, ip)
              \/ ContainerRestarted(n) \/ PodDeleted(n)
       PROVE  mgr' = mgr
  BY <1>13 DEF PodCreated, ContainerRestarted, PodDeleted
<1>14. ASSUME ObservePods \/ SyncCliques \/ UNCHANGED vars
       PROVE  mgr' = mgr
  BY <1>14 DEF ObservePods, SyncCliques, vars
<1> HIDE DEF Goal
<1>15. Goal
  BY <1>3, <1>4, <1>5, <1>6, <1>7, <1>8, <1>9, <1>10, <1>11, <1>12, <1>13,
     <1>14 DEF Next
<1> QED
  BY <1>15 DEF Goal

(* Each step of DNSNames is one of CDClique, or leaves its variables alone.*)
LEMMA DNSStep == [DNSNext]_dnsvars => [Next]_vars
<1> SUFFICES ASSUME [DNSNext]_dnsvars PROVE [Next]_vars
  OBVIOUS
<1>1. ASSUME NEW n \in Nodes, PassOn(n) PROVE [Next]_vars
  BY <1>1 DEF PassOn
<1>2. ASSUME NEW n \in Nodes, UpdateAndPassOn(n) PROVE [Next]_vars
  BY <1>2 DEF UpdateAndPassOn, Next
<1>3. ASSUME NEW n \in Nodes, Terminate(n) PROVE [Next]_vars
  BY <1>3 DEF Terminate, Next
<1>4. ASSUME Other PROVE [Next]_vars
  BY <1>4 DEF Other, Next
<1>5. ASSUME StatusStep PROVE [Next]_vars
  BY <1>5 DEF StatusStep, Next
<1>6. ASSUME UNCHANGED dnsvars PROVE [Next]_vars
  BY <1>6 DEF dnsvars, vars
<1> QED
  BY <1>1, <1>2, <1>3, <1>4, <1>5, <1>6 DEF DNSNext

(* UpdateDNSNameMappings turns a list without shared indices into lines    *)
(* that map addresses to names one to one, and has a line for every        *)
(* address of the list.                                                    *)
LEMMA MappingsOneToOne ==
    ASSUME NEW daemons \in SUBSET Daemon,
           \A d, e \in daemons : d.index = e.index => d = e,
           NEW H \in Mappings(daemons)
    PROVE  /\ H \subseteq [ip : IPs, name : Indices]
           /\ \A g, h \in H : g.ip = h.ip \/ g.name = h.name => g = h
           /\ {h.ip : h \in H} = IPSet(daemons)
<1>1. \A h \in H : \E d \in daemons : h = [ip |-> d.ip, name |-> d.index]
  BY DEF Mappings
<1>2. \A ip \in IPSet(daemons) : \E h \in H :
         h.ip = ip /\ \A g \in H : g.ip = ip => g = h
  BY DEF Mappings
<1>3. H \subseteq [ip : IPs, name : Indices]
  BY <1>1 DEF Daemon
<1>4. ASSUME NEW g \in H, NEW h \in H, g.ip = h.ip \/ g.name = h.name
      PROVE  g = h
  <2>1. PICK d \in daemons : g = [ip |-> d.ip, name |-> d.index]
    BY <1>1
  <2>2. PICK e \in daemons : h = [ip |-> e.ip, name |-> e.index]
    BY <1>1
  <2>3. CASE g.ip = h.ip
    <3>1. g.ip \in IPSet(daemons)
      BY <2>1 DEF IPSet
    <3> QED
      BY <1>2, <2>3, <3>1
  <2>4. CASE g.name = h.name
    <3>1. d = e
      BY <2>1, <2>2, <2>4
    <3> QED
      BY <2>1, <2>2, <3>1
  <2> QED
    BY <1>4, <2>3, <2>4
<1>5. {h.ip : h \in H} = IPSet(daemons)
  <2>1. ASSUME NEW h \in H PROVE h.ip \in IPSet(daemons)
    BY <1>1 DEF IPSet
  <2> QED
    BY <1>2, <2>1
<1> QED
  BY <1>3, <1>4, <1>5

(* What passing a list on, or stopping, does to one daemon's hosts file.   *)
LEMMA PushKeeps ==
    ASSUME HostsInv, NEW n \in Nodes, NEW daemons \in SUBSET Daemon,
           \A d, e \in daemons : d.index = e.index => d = e,
           MaybePushDaemonsUpdate(n, daemons)
    PROVE  /\ previous' \in [Nodes -> SUBSET Daemon]
           /\ hosts' \in [Nodes -> SUBSET [ip : IPs, name : Indices]]
           /\ \A k \in Nodes :
                /\ \A g, h \in hosts'[k] :
                      g.ip = h.ip \/ g.name = h.name => g = h
                /\ {h.ip : h \in hosts'[k]} = IPSet(previous'[k])
<1>a. /\ previous \in [Nodes -> SUBSET Daemon]
      /\ hosts \in [Nodes -> SUBSET [ip : IPs, name : Indices]]
      /\ \A k \in Nodes :
           /\ \A g, h \in hosts[k] : g.ip = h.ip \/ g.name = h.name => g = h
           /\ {h.ip : h \in hosts[k]} = IPSet(previous[k])
  BY DEF HostsInv, DNSTypeOK
<1>1. CASE UNCHANGED <<previous, hosts>>
  BY <1>a, <1>1
<1>2. CASE /\ previous' = [previous EXCEPT ![n] = daemons]
           /\ \E H \in Mappings(daemons) : hosts' = [hosts EXCEPT ![n] = H]
  <2>1. PICK H \in Mappings(daemons) : hosts' = [hosts EXCEPT ![n] = H]
    BY <1>2
  <2>2. /\ H \subseteq [ip : IPs, name : Indices]
        /\ \A g, h \in H : g.ip = h.ip \/ g.name = h.name => g = h
        /\ {h.ip : h \in H} = IPSet(daemons)
    BY MappingsOneToOne
  <2>3. hosts'[n] = H /\ previous'[n] = daemons
    BY <1>2, <1>a, <2>1
  <2>4. \A k \in Nodes \ {n} : hosts'[k] = hosts[k] /\ previous'[k] = previous[k]
    BY <1>2, <1>a, <2>1
  <2>5. /\ previous' \in [Nodes -> SUBSET Daemon]
        /\ hosts' \in [Nodes -> SUBSET [ip : IPs, name : Indices]]
    BY <1>2, <1>a, <2>1, <2>2
  <2>6. ASSUME NEW k \in Nodes
        PROVE  /\ \A g, h \in hosts'[k] :
                      g.ip = h.ip \/ g.name = h.name => g = h
               /\ {h.ip : h \in hosts'[k]} = IPSet(previous'[k])
    <3>1. CASE k = n
      BY <2>2, <2>3, <3>1
    <3>2. CASE k # n
      BY <1>a, <2>4, <3>2
    <3> QED
      BY <3>1, <3>2
  <2> QED
    BY <2>5, <2>6
<1> QED
  BY <1>1, <1>2 DEF MaybePushDaemonsUpdate

(* Empty lists and empty files: the invariant holds initially. *)
LEMMA InitHosts == DNSInit => HostsInv
<1> SUFFICES ASSUME DNSInit PROVE HostsInv
  OBVIOUS
<1>1. IndInv /\ TypeOK
  BY InitInd DEF DNSInit, IndInv
<1>2. \A n \in Nodes : mgr[n].view.daemons = {}
  BY DEF DNSInit, Init, NewManager, NoView
<1>3. \A n \in Nodes : hosts[n] = {} /\ previous[n] = {}
  BY DEF DNSInit
<1>4. DNSTypeOK
  BY <1>1 DEF DNSInit, DNSTypeOK
<1> QED
  BY <1>1, <1>2, <1>3, <1>4 DEF HostsInv, IPSet

(* Every step preserves it. *)
LEMMA NextHosts == HostsInv /\ [DNSNext]_dnsvars => HostsInv'
<1> SUFFICES ASSUME HostsInv, [DNSNext]_dnsvars PROVE HostsInv'
  OBVIOUS
<1>a. IndInv /\ [Next]_vars /\ IndInv'
  BY DNSStep, NextInd DEF HostsInv
<1>b. TypeOK /\ TypeOK' /\ SlotsDistinct /\ SlotsDistinct'
  BY <1>a DEF IndInv
<1>c. /\ previous \in [Nodes -> SUBSET Daemon]
      /\ hosts \in [Nodes -> SUBSET [ip : IPs, name : Indices]]
      /\ \A n \in Nodes :
           /\ \A d, e \in mgr[n].view.daemons :
                d.node = e.node \/ d.index = e.index => d = e
           /\ \A g, h \in hosts[n] : g.ip = h.ip \/ g.name = h.name => g = h
           /\ {h.ip : h \in hosts[n]} = IPSet(previous[n])
  BY DEF HostsInv, DNSTypeOK
<1>d. \A n \in Nodes : \A d, e \in mgr'[n].view.daemons :
          d.node = e.node \/ d.index = e.index => d = e
  BY <1>a, <1>b, <1>c, NextViews DEF SlotsDistinct
<1>e. \A n \in Nodes : /\ mgr[n].view.daemons \in SUBSET Daemon
                       /\ mgr'[n].view.daemons \in SUBSET Daemon
  BY <1>b DEF TypeOK, Manager, View
<1> DEFINE Files ==
       /\ previous' \in [Nodes -> SUBSET Daemon]
       /\ hosts' \in [Nodes -> SUBSET [ip : IPs, name : Indices]]
       /\ \A k \in Nodes :
            /\ \A g, h \in hosts'[k] :
                  g.ip = h.ip \/ g.name = h.name => g = h
            /\ {h.ip : h \in hosts'[k]} = IPSet(previous'[k])
<1>1. ASSUME NEW n \in Nodes, PassOn(n) PROVE Files
  <2>1. MaybePushDaemonsUpdate(n, mgr[n].view.daemons)
    BY <1>1 DEF PassOn
  <2> QED
    BY <1>c, <1>e, <2>1, PushKeeps
<1>2. ASSUME NEW n \in Nodes, UpdateAndPassOn(n) PROVE Files
  <2>1. MaybePushDaemonsUpdate(n, mgr'[n].view.daemons)
    BY <1>2 DEF UpdateAndPassOn
  <2> QED
    BY <1>d, <1>e, <2>1, PushKeeps
<1>3. ASSUME NEW n \in Nodes, Terminate(n) PROVE Files
  <2>1. /\ previous' = [previous EXCEPT ![n] = {}]
        /\ hosts' = [hosts EXCEPT ![n] = {}]
    BY <1>3 DEF Terminate
  <2>2. \A k \in Nodes :
          \/ hosts'[k] = hosts[k] /\ previous'[k] = previous[k]
          \/ hosts'[k] = {} /\ previous'[k] = {}
    BY <1>c, <2>1
  <2> QED
    BY <1>c, <2>1, <2>2 DEF IPSet
<1>4. ASSUME UNCHANGED <<previous, hosts>> PROVE Files
  BY <1>c, <1>4
<1>5. Files
  <2> HIDE DEF Files
  <2> QED
    BY <1>1, <1>2, <1>3, <1>4 DEF DNSNext, Other, StatusStep, dnsvars
<1> QED
  <2>1. DNSTypeOK'
    BY <1>b, <1>5 DEF DNSTypeOK
  <2> QED
    BY <1>a, <1>d, <1>5, <2>1 DEF HostsInv, IPSet

(* The hosts file of every daemon maps addresses to names one to one,      *)
(* whatever copies of the list it has seen, and that of a settled daemon   *)
(* has exactly the addresses of the clique, for every number of daemons.   *)
THEOREM HostsAreCorrect == DNSSpec => []HostsCorrect
<1>1. HostsInv => HostsCorrect
  <2> SUFFICES ASSUME HostsInv, NEW n \in Nodes
               PROVE  /\ \A g, h \in hosts[n] :
                            g.ip = h.ip \/ g.name = h.name => g = h
                      /\ Settled(n) => {h.ip : h \in hosts[n]}
                                          = IPSet(clique.daemons)
    BY DEF HostsCorrect
  <2>1. /\ \A g, h \in hosts[n] : g.ip = h.ip \/ g.name = h.name => g = h
        /\ {h.ip : h \in hosts[n]} = IPSet(previous[n])
        /\ CurrentCopies
    BY DEF HostsInv, IndInv
  <2>2. ASSUME Settled(n)
        PROVE  {h.ip : h \in hosts[n]} = IPSet(clique.daemons)
    <3>1. mgr[n].view.daemons = clique.daemons
      BY <2>1, <2>2 DEF Settled, CurrentCopies, ViewOf
    <3> QED
      BY <2>1, <2>2, <3>1 DEF Settled
  <2> QED
    BY <2>1, <2>2
<1> QED
  BY <1>1, InitHosts, NextHosts, PTL DEF DNSSpec

(* Seen without their hosts files the daemons of DNSNames are those of     *)
(* CDClique: what is proved of the clique holds with the hand-over too.    *)
THEOREM HostsRefineClique == DNSSpec => Spec
<1>1. DNSInit => Init
  BY DEF DNSInit
<1> QED
  BY <1>1, DNSStep, PTL DEF DNSSpec, Spec

=============================================================================
