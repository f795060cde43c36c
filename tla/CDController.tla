---------------------------- MODULE CDController ----------------------------
(***************************************************************************)
(* The life of ComputeDomains in the controller: the handler that creates  *)
(* and deletes what a domain owns (a workload ResourceClaimTemplate, a     *)
(* DaemonSet and the DaemonSet's ResourceClaimTemplate, all protected by a *)
(* finalizer), the managers that clean up what has lost its domain, and    *)
(* the node labels that the kubelet plugins set for a domain.              *)
(*                                                                         *)
(* The handler runs in the single worker of the work queue, one API call   *)
(* per step, on what the informers have delivered so far; any call may     *)
(* fail, and the whole handler is then retried.  The controller may crash  *)
(* or lose its lease at any step, and a creation it had sent may reach the *)
(* API server after the next leader has started.                           *)
(*                                                                         *)
(* One namespace has DaemonSets.  The status is the subject of CDStatus.   *)
(***************************************************************************)
EXTENDS Naturals

CONSTANTS
    Domains,        \* UIDs of ComputeDomains
    Nodes,          \* cluster nodes, with at most one label each
    None,           \* no label
    MaxFaults,      \* bound: failing calls and crashes
    MaxLabels       \* bound: labels set by the kubelet plugins

ASSUME CDControllerAssumption ==
    /\ None \notin Domains
    /\ MaxFaults \in Nat
    /\ MaxLabels \in Nat

VARIABLES
    cd,         \* the ComputeDomains in the API server
    api,        \* what they own, in the API server
    label,      \* the nodes' labels, in the API server
    cache,      \* the controller's informers: cd, owned objects, labels
    made,       \* objects the mutation caches have and the informers do not
    ghost,      \* deleted ComputeDomains that the mutation cache still has
    work,       \* the handler the worker is running
    late,       \* creations sent by a controller that is gone
    faults, labels  \* what happened so far, for the bounds

vars == <<cd, api, label, cache, made, ghost, work, late, faults, labels>>

-----------------------------------------------------------------------------
(* A ComputeDomain without finalizer, with it, and marked for deletion. *)
Live == {"new", "present", "deleting"}
Phase == {"none", "gone"} \cup Live

Owned == {"workloadRCT", "daemonRCT", "daemonSet"}
Object == {"absent", "present", "deleting"}

(* onAddOrUpdate's calls, in their order. *)
CreateSteps == {"addFinalizer", "createDaemonRCT", "createDaemonSet",
                "createWorkloadRCT"}
DeleteSteps == {"deleteWorkloadRCT", "deleteDaemonRCT", "deleteDaemonSet",
                "removeLabels", "releaseWorkloadRCT", "assertWorkloadRCT",
                "releaseDaemonRCT", "releaseDaemonSet", "assertDaemonRCT",
                "assertDaemonSet", "removeFinalizer"}

Idle == [domain |-> None, step |-> "idle", copy |-> "none"]

TypeOK ==
    /\ cd \in [Domains -> Phase]
    /\ api \in [Domains -> [Owned -> Object]]
    /\ label \in [Nodes -> Domains \cup {None}]
    /\ cache \in [cd : [Domains -> Phase],
                  owned : [Domains -> [Owned -> Object]],
                  label : [Nodes -> Domains \cup {None}]]
    /\ made \in [Domains -> SUBSET Owned]
    /\ ghost \in SUBSET Domains
    /\ work \in [domain : Domains \cup {None}, copy : Phase,
                 step : {"idle"} \cup CreateSteps \cup DeleteSteps]
    /\ late \in [Domains -> [Owned -> {"no", "inflight", "landed"}]]
    /\ faults \in 0 .. MaxFaults
    /\ labels \in 0 .. MaxLabels

Init ==
    /\ cd = [d \in Domains |-> "none"]
    /\ api = [d \in Domains |-> [k \in Owned |-> "absent"]]
    /\ label = [n \in Nodes |-> None]
    /\ cache = [cd |-> cd, owned |-> api, label |-> label]
    /\ made = [d \in Domains |-> {}]
    /\ ghost = {}
    /\ work = Idle
    /\ late = [d \in Domains |-> [k \in Owned |-> "no"]]
    /\ faults = 0
    /\ labels = 0

-----------------------------------------------------------------------------
(* Users, kubelet plugins and informers. *)

UserCreates(d) ==
    /\ cd[d] = "none"
    /\ cd' = [cd EXCEPT ![d] = "new"]
    /\ UNCHANGED <<api, label, cache, made, ghost, work, late, faults, labels>>

UserDeletes(d) ==
    /\ cd[d] \in {"new", "present"}
    /\ cd' = [cd EXCEPT ![d] = IF @ = "new" THEN "gone" ELSE "deleting"]
    /\ UNCHANGED <<api, label, cache, made, ghost, work, late, faults, labels>>

(* A plugin labels its node for a domain it has in its cache, which may be *)
(* gone by now.                                                            *)
PluginLabels(n, d) ==
    /\ labels < MaxLabels
    /\ label[n] = None
    /\ cd[d] # "none"
    /\ label' = [label EXCEPT ![n] = d]
    /\ labels' = labels + 1
    /\ UNCHANGED <<cd, api, cache, made, ghost, work, late, faults>>

(* The mutation cache may keep the last status this controller wrote when  *)
(* the ComputeDomain is deleted.                                           *)
CDEvent(d) ==
    /\ cache.cd[d] # cd[d]
    /\ cache' = [cache EXCEPT !.cd[d] = cd[d]]
    /\ \/ UNCHANGED ghost
       \/ cd[d] = "gone" /\ cache.cd[d] \in Live /\ ghost' = ghost \cup {d}
    /\ UNCHANGED <<cd, api, label, made, work, late, faults, labels>>

(* mutationCacheTTL *)
GhostExpires(d) ==
    /\ d \in ghost
    /\ ghost' = ghost \ {d}
    /\ UNCHANGED <<cd, api, label, cache, made, work, late, faults, labels>>

ObjectEvent(d, k) ==
    /\ cache.owned[d][k] # api[d][k]
    /\ cache' = [cache EXCEPT !.owned[d][k] = api[d][k]]
    /\ made' = [made EXCEPT ![d] = @ \ {k}]
    /\ UNCHANGED <<cd, api, label, ghost, work, late, faults, labels>>

NodeEvent(n) ==
    /\ cache.label[n] # label[n]
    /\ cache' = [cache EXCEPT !.label[n] = label[n]]
    /\ UNCHANGED <<cd, api, label, made, ghost, work, late, faults, labels>>

-----------------------------------------------------------------------------
(* What the managers see. *)

(* ComputeDomainManager.Get *)
Get(d) == IF cache.cd[d] \in Live THEN cache.cd[d]
          ELSE IF d \in ghost THEN "deleting" ELSE "none"

(* getByComputeDomainUID on a mutation cache. *)
Seen(d, k) == IF cache.owned[d][k] # "absent" THEN cache.owned[d][k]
              ELSE IF k \in made[d] THEN "present" ELSE "absent"

(* Object k of domain d goes to state o in the API server. *)
Put(a, d, k, o) == [a EXCEPT ![d][k] = o]

(* What Delete leaves in the API server: nothing to do for an object that  *)
(* is not known or marked already; NotFound is not an error.               *)
Deleted(a, d, k) ==
    IF Seen(d, k) = "present" /\ a[d][k] = "present"
    THEN Put(a, d, k, "deleting") ELSE a

(* RemoveFinalizer has nothing to do, or its Update is accepted.  It is an *)
(* error when the object is not known to be marked for deletion, or is     *)
(* gone already.                                                           *)
Releasable(d, k) ==
    \/ Seen(d, k) = "absent"
    \/ Seen(d, k) = "deleting" /\ api[d][k] = "deleting"

Released(a, d, k) ==
    IF Seen(d, k) = "deleting" THEN Put(a, d, k, "absent") ELSE a

-----------------------------------------------------------------------------
(* ComputeDomainManager.onAddOrUpdate. *)

(* Events, retries and the resync give the worker items for every domain   *)
(* the informer has, and for one whose last item failed.                   *)
Begin(d) ==
    /\ work = Idle
    /\ Get(d) # "none"
    /\ work' = [domain |-> d, copy |-> Get(d),
                step |-> IF Get(d) = "deleting" THEN "deleteWorkloadRCT"
                         ELSE "addFinalizer"]
    /\ UNCHANGED <<cd, api, label, cache, made, ghost, late, faults, labels>>

At(d, step) == work.domain = d /\ work.step = step
Goto(step) == work' = [work EXCEPT !.step = step]

(* The handler returns: done, or with an error, and is run again. *)
Return == work' = Idle

(* Any call to the API server may fail. *)
CallFails ==
    /\ work # Idle
    /\ faults < MaxFaults
    /\ faults' = faults + 1
    /\ Return
    /\ UNCHANGED <<cd, api, label, cache, made, ghost, late, labels>>

(* Mutant: a ComputeDomain that has the finalizer needs nothing more. *)
AddFinalizerOnce(d) ==
    /\ At(d, "addFinalizer")
    /\ IF work.copy = "new" /\ cd[d] = "new"
       THEN /\ cd' = [cd EXCEPT ![d] = "present"]
            /\ Goto("createDaemonRCT")
       ELSE Return /\ UNCHANGED cd
    /\ UNCHANGED <<api, label, cache, made, ghost, late, faults, labels>>

(* addFinalizer; the Update is refused when the copy is old. *)
AddFinalizer(d) ==
    /\ At(d, "addFinalizer")
    /\ \/ /\ work.copy = "present"
          /\ Goto("createDaemonRCT")
          /\ UNCHANGED cd
       \/ /\ work.copy = "new"
          /\ cd[d] = "new"
          /\ cd' = [cd EXCEPT ![d] = "present"]
          /\ Goto("createDaemonRCT")
       \/ /\ work.copy = "new"
          /\ cd[d] # "new"
          /\ Return
          /\ UNCHANGED cd
    /\ UNCHANGED <<api, label, cache, made, ghost, late, faults, labels>>

(* Create: nothing when the object is known, an error when it exists and   *)
(* is not known.                                                           *)
CreateObject(d, k, next) ==
    \/ /\ Seen(d, k) # "absent"
       /\ work' = next
       /\ UNCHANGED <<api, made>>
    \/ /\ Seen(d, k) = "absent"
       /\ api[d][k] = "absent"
       /\ api' = Put(api, d, k, "present")
       /\ made' = [made EXCEPT ![d] = @ \cup {k}]
       /\ work' = next
    \/ /\ Seen(d, k) = "absent"
       /\ api[d][k] # "absent"
       /\ Return
       /\ UNCHANGED <<api, made>>

(* DaemonSetManager.Create: with a known DaemonSet, nothing. *)
CreateDaemonRCT(d) ==
    /\ At(d, "createDaemonRCT")
    /\ IF Seen(d, "daemonSet") # "absent"
       THEN /\ Goto("createWorkloadRCT")
            /\ UNCHANGED <<api, made>>
       ELSE CreateObject(d, "daemonRCT",
                         [work EXCEPT !.step = "createDaemonSet"])
    /\ UNCHANGED <<cd, label, cache, ghost, late, faults, labels>>

CreateDaemonSet(d) ==
    /\ At(d, "createDaemonSet")
    /\ CreateObject(d, "daemonSet",
                    [work EXCEPT !.step = "createWorkloadRCT"])
    /\ UNCHANGED <<cd, label, cache, ghost, late, faults, labels>>

CreateWorkloadRCT(d) ==
    /\ At(d, "createWorkloadRCT")
    /\ CreateObject(d, "workloadRCT", Idle)
    /\ UNCHANGED <<cd, label, cache, ghost, late, faults, labels>>

DeleteObject(d, k, next) ==
    /\ api' = Deleted(api, d, k)
    /\ Goto(next)

DeleteWorkloadRCT(d) ==
    /\ At(d, "deleteWorkloadRCT")
    /\ DeleteObject(d, "workloadRCT", "deleteDaemonRCT")
    /\ UNCHANGED <<cd, label, cache, made, ghost, late, faults, labels>>

(* Mutant: the DaemonSet's claim template is left for later. *)
DeleteDaemonRCTSkipped(d) ==
    /\ At(d, "deleteDaemonRCT")
    /\ IF Seen(d, "daemonSet") = "absent"
       THEN Goto("removeLabels")
       ELSE Goto("deleteDaemonSet")
    /\ UNCHANGED <<cd, api, label, cache, made, ghost, late, faults, labels>>

(* DaemonSetManager.Delete: without a known DaemonSet, nothing. *)
DeleteDaemonRCT(d) ==
    /\ At(d, "deleteDaemonRCT")
    /\ IF Seen(d, "daemonSet") = "absent"
       THEN Goto("removeLabels") /\ UNCHANGED api
       ELSE DeleteObject(d, "daemonRCT", "deleteDaemonSet")
    /\ UNCHANGED <<cd, label, cache, made, ghost, late, faults, labels>>

DeleteDaemonSet(d) ==
    /\ At(d, "deleteDaemonSet")
    /\ DeleteObject(d, "daemonSet", "removeLabels")
    /\ UNCHANGED <<cd, label, cache, made, ghost, late, faults, labels>>

WithoutLabel(d) == [n \in Nodes |-> IF label[n] = d THEN None ELSE label[n]]

(* RemoveComputeDomainLabels, on what the API server has now. *)
RemoveLabels(d) ==
    /\ At(d, "removeLabels")
    /\ label' = WithoutLabel(d)
    /\ Goto("releaseWorkloadRCT")
    /\ UNCHANGED <<cd, api, cache, made, ghost, late, faults, labels>>

(* The mutation cache may still have the copy whose finalizer this         *)
(* controller has removed before: nothing to do, and no error.             *)
ReleaseObject(d, k, step, next) ==
    /\ At(d, step)
    /\ \/ Releasable(d, k) /\ api' = Released(api, d, k) /\ Goto(next)
       \/ Seen(d, k) = "deleting" /\ api[d][k] = "absent" /\ Goto(next) /\ UNCHANGED api
       \/ ~Releasable(d, k) /\ Return /\ UNCHANGED api
    /\ UNCHANGED <<cd, label, cache, made, ghost, late, faults, labels>>

(* AssertRemoved looks at the informer's store. *)
AssertRemoved(d, k, step, next) ==
    /\ At(d, step)
    /\ IF cache.owned[d][k] = "absent" THEN Goto(next) ELSE Return
    /\ UNCHANGED <<cd, api, label, cache, made, ghost, late, faults, labels>>

(* Mutant: the DaemonSet's pods are trusted to go away. *)
ReleaseUnasserted(d) ==
    \/ ReleaseObject(d, "workloadRCT", "releaseWorkloadRCT", "assertWorkloadRCT")
    \/ AssertRemoved(d, "workloadRCT", "assertWorkloadRCT", "removeFinalizer")

ReleaseOwned(d) ==
    \/ ReleaseObject(d, "workloadRCT", "releaseWorkloadRCT", "assertWorkloadRCT")
    \/ AssertRemoved(d, "workloadRCT", "assertWorkloadRCT", "releaseDaemonRCT")
    \/ ReleaseObject(d, "daemonRCT", "releaseDaemonRCT", "releaseDaemonSet")
    \/ ReleaseObject(d, "daemonSet", "releaseDaemonSet", "assertDaemonRCT")
    \/ AssertRemoved(d, "daemonRCT", "assertDaemonRCT", "assertDaemonSet")
    \/ AssertRemoved(d, "daemonSet", "assertDaemonSet", "removeFinalizer")

(* RemoveFinalizer of the ComputeDomain, on a copy got again. *)
RemoveFinalizer(d) ==
    /\ At(d, "removeFinalizer")
    /\ Return
    /\ IF Get(d) = "deleting" /\ cd[d] = "deleting"
       THEN cd' = [cd EXCEPT ![d] = "gone"]
       ELSE UNCHANGED cd
    /\ UNCHANGED <<api, label, cache, made, ghost, late, faults, labels>>

-----------------------------------------------------------------------------
(* The cleanup managers, each in a goroutine of its own. *)

(* What the callback of the manager of kind k takes care of. *)
CleanupKinds(k) == IF k = "daemonSet" THEN {"daemonRCT", "daemonSet"} ELSE {k}

(* cleanup: an object of the store whose ComputeDomain is not known. *)
Stale(d, k) == cache.owned[d][k] # "absent" /\ Get(d) = "none"

(* The callback: Delete, which is then seen by the informer ... *)
CleanupDelete(d, k) ==
    /\ Stale(d, k)
    /\ api' = [api EXCEPT ![d] =
                 [j \in Owned |-> IF j \in CleanupKinds(k)
                                  THEN Deleted(api, d, j)[d][j] ELSE @[j]]]
    /\ UNCHANGED <<cd, label, cache, made, ghost, work, late, faults, labels>>

(* Mutant: only the manager of the DaemonSets is started. *)
CleanupOnlyDaemonSet(d, k) ==
    /\ k = "daemonSet"
    /\ Stale(d, k)
    /\ \A j \in CleanupKinds(k) : Releasable(d, j)
    /\ api' = [api EXCEPT ![d] =
                 [j \in Owned |-> IF j \in CleanupKinds(k)
                                  THEN Released(api, d, j)[d][j] ELSE @[j]]]
    /\ UNCHANGED <<cd, label, cache, made, ghost, work, late, faults, labels>>

(* ... and RemoveFinalizer, which until then is an error and is tried      *)
(* again with the next cleanup.  An error for the DaemonSet comes after    *)
(* its template has been released.                                         *)
CleanupRelease(d, k) ==
    /\ Stale(d, k)
    /\ \E done \in {CleanupKinds(k), CleanupKinds(k) \ {"daemonSet"}} :
         /\ \A j \in done : Releasable(d, j)
         /\ api' = [api EXCEPT ![d] =
                      [j \in Owned |-> IF j \in done
                                       THEN Released(api, d, j)[d][j] ELSE @[j]]]
    /\ UNCHANGED <<cd, label, cache, made, ghost, work, late, faults, labels>>

(* cleanupLabels: periodically, and after every addFinalizer               *)
(* (RemoveStaleComputeDomainLabelsAsync).                                  *)
CleanupLabels(d) ==
    /\ \E n \in Nodes : cache.label[n] = d
    /\ Get(d) = "none"
    /\ label' = WithoutLabel(d)
    /\ UNCHANGED <<cd, api, cache, made, ghost, work, late, faults, labels>>

-----------------------------------------------------------------------------
(* Crash, loss of the lease and Start. *)

(* The object the running handler is about to create. *)
Sending(d, k) ==
    \/ k = "daemonRCT" /\ At(d, "createDaemonRCT")
    \/ k = "daemonSet" /\ At(d, "createDaemonSet")
    \/ k = "workloadRCT" /\ At(d, "createWorkloadRCT")

(* Mutant: the cleanup managers do not wait for the ComputeDomains. *)
FailoverUnsynced ==
    /\ faults < MaxFaults
    /\ faults' = faults + 1
    /\ cache' = [cd |-> [d \in Domains |-> "none"], owned |-> api, label |-> label]
    /\ made' = [d \in Domains |-> {}]
    /\ ghost' = {}
    /\ work' = Idle
    /\ UNCHANGED <<cd, api, label, late, labels>>

(* Another controller takes over: its informers are synced before its      *)
(* worker and its cleanup managers run, ComputeDomains first.  A creation  *)
(* of the old one may be under way.                                        *)
Failover ==
    /\ faults < MaxFaults
    /\ faults' = faults + 1
    /\ \/ UNCHANGED late
       \/ \E d \in Domains, k \in Owned :
            /\ Sending(d, k) /\ api[d][k] = "absent"
            /\ late' = [late EXCEPT ![d][k] = "inflight"]
    /\ cache' = [cd |-> cd, owned |-> api, label |-> label]
    /\ made' = [d \in Domains |-> {}]
    /\ ghost' = {}
    /\ work' = Idle
    /\ UNCHANGED <<cd, api, label, labels>>

LateCreation(d, k) ==
    /\ late[d][k] = "inflight"
    /\ IF api[d][k] = "absent"
       THEN /\ api' = Put(api, d, k, "present")
            /\ late' = [late EXCEPT ![d][k] = "landed"]
       ELSE /\ late' = [late EXCEPT ![d][k] = "no"]
            /\ UNCHANGED api
    /\ UNCHANGED <<cd, label, cache, made, ghost, work, faults, labels>>

-----------------------------------------------------------------------------
Handler(d) ==
    \/ AddFinalizer(d)
    \/ CreateDaemonRCT(d)
    \/ CreateDaemonSet(d)
    \/ CreateWorkloadRCT(d)
    \/ DeleteWorkloadRCT(d)
    \/ DeleteDaemonRCT(d)
    \/ DeleteDaemonSet(d)
    \/ RemoveLabels(d)
    \/ ReleaseOwned(d)
    \/ RemoveFinalizer(d)

Next ==
    \/ \E d \in Domains :
         \/ UserCreates(d)
         \/ UserDeletes(d)
         \/ CDEvent(d)
         \/ GhostExpires(d)
         \/ Begin(d)
         \/ Handler(d)
         \/ CleanupLabels(d)
         \/ \E n \in Nodes : PluginLabels(n, d)
         \/ \E k \in Owned :
              \/ ObjectEvent(d, k)
              \/ CleanupDelete(d, k)
              \/ CleanupRelease(d, k)
              \/ LateCreation(d, k)
    \/ \E n \in Nodes : NodeEvent(n)
    \/ CallFails
    \/ Failover

Spec == Init /\ [][Next]_vars

(* Informers deliver, cache entries expire, requests arrive, the worker    *)
(* takes its items in turn and runs their handlers, and the cleanup        *)
(* managers' tickers fire.                                                 *)
Fairness ==
    /\ \A d \in Domains :
         /\ WF_vars(CDEvent(d))
         /\ WF_vars(GhostExpires(d))
         /\ SF_vars(Begin(d))
         /\ WF_vars(Handler(d))
         /\ WF_vars(CleanupLabels(d))
         /\ \A k \in Owned :
              /\ WF_vars(ObjectEvent(d, k))
              /\ WF_vars(CleanupDelete(d, k))
              /\ WF_vars(CleanupRelease(d, k))
              /\ WF_vars(LateCreation(d, k))
    /\ \A n \in Nodes : WF_vars(NodeEvent(n))

FairSpec == Spec /\ Fairness

-----------------------------------------------------------------------------
(* Properties *)

(* The phases of a ComputeDomain from p on, in the order of its life. *)
From(p) == CASE p = "none" -> Phase
             [] p = "new" -> Live \cup {"gone"}
             [] p = "present" -> {"present", "deleting", "gone"}
             [] p = "deleting" -> {"deleting", "gone"}
             [] OTHER -> {"gone"}

(* The controller's copies of a ComputeDomain are behind the API server,   *)
(* never beside it, and the handler deletes only for a marked one.         *)
CopiesBehind ==
    \A d \in Domains :
        /\ cd[d] \in From(cache.cd[d])
        /\ d \in ghost => cache.cd[d] = "gone"
        /\ work.domain = d =>
             /\ cd[d] \in From(work.copy)
             /\ cache.cd[d] # "none"
             /\ work.step \in DeleteSteps <=> work.copy = "deleting"

(* An object is never seen before its ComputeDomain. *)
SeenAfterDomain ==
    \A d \in Domains : cache.cd[d] = "none" =>
        \A k \in Owned : /\ api[d][k] = "absent"
                          /\ cache.owned[d][k] = "absent"
                          /\ late[d][k] = "no"

(* An object that exists is known to the informer or the mutation cache,   *)
(* unless a former leader's request made it.                               *)
ObjectsKnown ==
    \A d \in Domains, k \in Owned : api[d][k] # "absent" =>
        \/ cache.owned[d][k] # "absent"
        \/ k \in made[d]
        \/ late[d][k] = "landed"

(* What the handler has released before a step. *)
ReleasedBefore(step) ==
    CASE step \in {"assertWorkloadRCT", "releaseDaemonRCT"} -> {"workloadRCT"}
      [] step = "releaseDaemonSet" -> {"workloadRCT", "daemonRCT"}
      [] step \in {"assertDaemonRCT", "assertDaemonSet", "removeFinalizer"} -> Owned
      [] OTHER -> {}

(* An object that the handler has released is gone until the handler       *)
(* returns, unless a former leader's request brings it back.               *)
ReleasedGone ==
    \A d \in Domains : work.domain = d =>
        \A k \in ReleasedBefore(work.step) :
            api[d][k] = "absent" \/ late[d][k] = "landed"

(* What FinalizerLast and LiveKept rest on. *)
ControllerInv ==
    /\ TypeOK
    /\ CopiesBehind
    /\ SeenAfterDomain
    /\ ObjectsKnown
    /\ ReleasedGone

(* The finalizer of a ComputeDomain is removed only when what it owns is   *)
(* gone from the API server, although the check looks at caches; except    *)
(* for what a former leader's request created behind its back.             *)
FinalizerLast ==
    [][\A d \in Domains :
          cd[d] = "deleting" /\ cd'[d] = "gone" =>
              \A k \in Owned : api[d][k] = "absent" \/ late[d][k] # "no"]_vars

(* What a ComputeDomain owns is never deleted before the ComputeDomain is: *)
(* the cleanup managers do not take a domain for stale because a cache is  *)
(* behind, and the handler does not act on an old copy.                    *)
LiveKept ==
    \A d \in Domains :
        cd[d] \in {"new", "present"} =>
            \A k \in Owned : api[d][k] # "deleting"

(* A ComputeDomain's DaemonSet is gone and its claim template is not: a    *)
(* creation stopped half-way, and Delete does not look further when there  *)
(* is no DaemonSet.                                                        *)
Stranded(d) == api[d]["daemonRCT"] = "present" /\ api[d]["daemonSet"] = "absent"

(* A ComputeDomain that is marked for deletion is eventually gone, with    *)
(* its finalizers removed in several passes over caches that are behind    *)
(* and calls that fail; unless its creation was Stranded.                  *)
DeletionCompletes ==
    \A d \in Domains :
        (cd[d] = "deleting" /\ []~Stranded(d)) ~> (cd[d] = "gone")

(* A ComputeDomain that stays eventually owns all its objects, for good.   *)
CreationCompletes ==
    \A d \in Domains :
        <>[](cd[d] \in {"new", "present"}) =>
            <>[](\A k \in Owned : api[d][k] = "present")

(* What is left of a ComputeDomain that is gone is eventually cleaned up:  *)
(* objects that a former leader created late, and labels that a plugin set *)
(* after RemoveComputeDomainLabels.                                        *)
OrphansCollected ==
    \A d \in Domains :
        cd[d] = "gone" ~>
            /\ \A k \in Owned : api[d][k] = "absent"
            /\ \A n \in Nodes : label[n] # d

=============================================================================
