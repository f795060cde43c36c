------------------------ MODULE CDControllerProofs ------------------------
(***************************************************************************)
(* Proofs about CDController for every set of domains and nodes and any    *)
(* number of failing calls, changes of leader and labels: what a live      *)
(* ComputeDomain owns is kept, and its finalizer goes last.                *)
(***************************************************************************)
EXTENDS CDController, TLAPS

-----------------------------------------------------------------------------
(* Operators *)

(* Put changes one object of one domain. *)
LEMMA PutFacts ==
    ASSUME NEW a \in [Domains -> [Owned -> Object]], NEW d \in Domains,
           NEW k \in Owned, NEW o \in Object
    PROVE  /\ Put(a, d, k, o) \in [Domains -> [Owned -> Object]]
           /\ \A e \in Domains, j \in Owned :
                Put(a, d, k, o)[e][j] = IF e = d /\ j = k THEN o ELSE a[e][j]
BY DEF Put, Object

(* A mark for deletion is all that Delete may leave behind. *)
LEMMA DeletedFacts ==
    ASSUME TypeOK, NEW d \in Domains, NEW k \in Owned
    PROVE  /\ Deleted(api, d, k) \in [Domains -> [Owned -> Object]]
           /\ \A e \in Domains, j \in Owned :
                \/ Deleted(api, d, k)[e][j] = api[e][j]
                \/ /\ e = d /\ api[e][j] = "present"
                   /\ Deleted(api, d, k)[e][j] = "deleting"
<1>1. api \in [Domains -> [Owned -> Object]] /\ "deleting" \in Object
  BY DEF TypeOK, Object
<1>2. CASE Seen(d, k) = "present" /\ api[d][k] = "present"
  <2>1. Deleted(api, d, k) = Put(api, d, k, "deleting")
    BY <1>2 DEF Deleted
  <2>2. /\ Put(api, d, k, "deleting") \in [Domains -> [Owned -> Object]]
        /\ \A e \in Domains, j \in Owned :
             Put(api, d, k, "deleting")[e][j] =
               IF e = d /\ j = k THEN "deleting" ELSE api[e][j]
    BY <1>1, PutFacts
  <2> QED
    BY <1>2, <2>1, <2>2
<1>3. CASE ~(Seen(d, k) = "present" /\ api[d][k] = "present")
  BY <1>1, <1>3 DEF Deleted
<1> QED
  BY <1>2, <1>3

(* RemoveFinalizer lets the object go, or leaves everything as it is. *)
LEMMA ReleasedFacts ==
    ASSUME TypeOK, NEW d \in Domains, NEW k \in Owned
    PROVE  /\ Released(api, d, k) \in [Domains -> [Owned -> Object]]
           /\ \A e \in Domains, j \in Owned :
                \/ Released(api, d, k)[e][j] = api[e][j]
                \/ e = d /\ j = k /\ Released(api, d, k)[e][j] = "absent"
           /\ Seen(d, k) = "deleting" => Released(api, d, k)[d][k] = "absent"
<1>1. api \in [Domains -> [Owned -> Object]] /\ "absent" \in Object
  BY DEF TypeOK, Object
<1>2. CASE Seen(d, k) = "deleting"
  <2>1. Released(api, d, k) = Put(api, d, k, "absent")
    BY <1>2 DEF Released
  <2>2. /\ Put(api, d, k, "absent") \in [Domains -> [Owned -> Object]]
        /\ \A e \in Domains, j \in Owned :
             Put(api, d, k, "absent")[e][j] =
               IF e = d /\ j = k THEN "absent" ELSE api[e][j]
    BY <1>1, PutFacts
  <2> QED
    BY <1>2, <2>1, <2>2
<1>3. CASE Seen(d, k) # "deleting"
  BY <1>1, <1>3 DEF Released
<1> QED
  BY <1>2, <1>3

(* A ComputeDomain's phases only go forward. *)
LEMMA FromFacts ==
    /\ \A p \in Phase : p \in From(p)
    /\ \A p, q, r \in Phase : q \in From(p) /\ r \in From(q) => r \in From(p)
    /\ \A p, q \in Phase : q = "none" /\ q \in From(p) => p = "none"
    /\ \A p, q \in Phase : q \in {"new", "present"} /\ q \in From(p)
                              => p \in {"none", "new", "present"}
BY DEF From, Phase, Live

(* What the mutation caches show of an object. *)
LEMMA SeenFacts ==
    ASSUME TypeOK, NEW d \in Domains, NEW k \in Owned
    PROVE  /\ Seen(d, k) = "absent" => cache.owned[d][k] = "absent" /\ k \notin made[d]
           /\ Seen(d, k) = "deleting" => cache.owned[d][k] = "deleting"
BY DEF TypeOK, Seen, Object

(* The ComputeDomain that the handler gets exists or has existed, and one  *)
(* that is not found although its objects are seen is gone.                *)
LEMMA GetFacts ==
    ASSUME TypeOK, CopiesBehind, NEW d \in Domains
    PROVE  /\ Get(d) \in Live \cup {"none"}
           /\ Get(d) # "none" => cd[d] \in From(Get(d)) /\ cache.cd[d] # "none"
           /\ Get(d) = "none" /\ cache.cd[d] # "none" => cd[d] = "gone"
<1>1. /\ cd[d] \in Phase /\ cache.cd[d] \in Phase
      /\ cd[d] \in From(cache.cd[d])
      /\ d \in ghost => cache.cd[d] = "gone"
  BY DEF TypeOK, CopiesBehind
<1>2. CASE cache.cd[d] \in Live
  BY <1>1, <1>2 DEF Get, Live
<1>3. CASE cache.cd[d] = "gone"
  BY <1>1, <1>3 DEF Get, Live, From
<1>4. CASE cache.cd[d] = "none"
  BY <1>1, <1>4 DEF Get, Live
<1> QED
  BY <1>1, <1>2, <1>3, <1>4 DEF Phase

-----------------------------------------------------------------------------
(* What a step may do to each part of the state *)

(* The handler goes on within its branch, or returns. *)
LEMMA HandlerFacts ==
    ASSUME TypeOK, NEW d \in Domains, Handler(d)
    PROVE  /\ work.domain = d
           /\ \/ work' = Idle
              \/ /\ work' = [work EXCEPT !.step = work'.step]
                 /\ work'.step \in CreateSteps \cup DeleteSteps
                 /\ work.step \in DeleteSteps <=> work'.step \in DeleteSteps
           /\ UNCHANGED <<cache, ghost, late, faults, labels>>
<1> USE DEF TypeOK, At, Goto, Return
<1>1. CASE AddFinalizer(d)
  BY <1>1 DEF AddFinalizer, CreateSteps, DeleteSteps
<1>2. CASE CreateDaemonRCT(d)
  BY <1>2 DEF CreateDaemonRCT, CreateObject, CreateSteps, DeleteSteps
<1>3. CASE CreateDaemonSet(d)
  BY <1>3 DEF CreateDaemonSet, CreateObject, CreateSteps, DeleteSteps
<1>4. CASE CreateWorkloadRCT(d)
  BY <1>4 DEF CreateWorkloadRCT, CreateObject, CreateSteps, DeleteSteps
<1>5. CASE DeleteWorkloadRCT(d)
  BY <1>5 DEF DeleteWorkloadRCT, DeleteObject, CreateSteps, DeleteSteps
<1>6. CASE DeleteDaemonRCT(d)
  BY <1>6 DEF DeleteDaemonRCT, DeleteObject, CreateSteps, DeleteSteps
<1>7. CASE DeleteDaemonSet(d)
  BY <1>7 DEF DeleteDaemonSet, DeleteObject, CreateSteps, DeleteSteps
<1>8. CASE RemoveLabels(d)
  BY <1>8 DEF RemoveLabels, CreateSteps, DeleteSteps
<1>9. CASE ReleaseOwned(d)
  <2>1. CASE ReleaseObject(d, "workloadRCT", "releaseWorkloadRCT", "assertWorkloadRCT")
    BY <2>1 DEF ReleaseObject, CreateSteps, DeleteSteps
  <2>2. CASE AssertRemoved(d, "workloadRCT", "assertWorkloadRCT", "releaseDaemonRCT")
    BY <2>2 DEF AssertRemoved, CreateSteps, DeleteSteps
  <2>3. CASE ReleaseObject(d, "daemonRCT", "releaseDaemonRCT", "releaseDaemonSet")
    BY <2>3 DEF ReleaseObject, CreateSteps, DeleteSteps
  <2>4. CASE ReleaseObject(d, "daemonSet", "releaseDaemonSet", "assertDaemonRCT")
    BY <2>4 DEF ReleaseObject, CreateSteps, DeleteSteps
  <2>5. CASE AssertRemoved(d, "daemonRCT", "assertDaemonRCT", "assertDaemonSet")
    BY <2>5 DEF AssertRemoved, CreateSteps, DeleteSteps
  <2>6. CASE AssertRemoved(d, "daemonSet", "assertDaemonSet", "removeFinalizer")
    BY <2>6 DEF AssertRemoved, CreateSteps, DeleteSteps
  <2> QED
    BY <1>9, <2>1, <2>2, <2>3, <2>4, <2>5, <2>6 DEF ReleaseOwned
<1>10. CASE RemoveFinalizer(d)
  BY <1>10 DEF RemoveFinalizer
<1> QED
  BY <1>1, <1>2, <1>3, <1>4, <1>5, <1>6, <1>7, <1>8, <1>9, <1>10 DEF Handler

(* A ComputeDomain goes forward in its life, and from marked to gone only  *)
(* when the handler removes its finalizer.                                 *)
LEMMA DomainFacts ==
    ASSUME TypeOK, Next
    PROVE  /\ cd' \in [Domains -> Phase]
           /\ \A e \in Domains :
                /\ cd'[e] \in From(cd[e])
                /\ cd[e] = "deleting" /\ cd'[e] = "gone" => RemoveFinalizer(e)
<1> DEFINE G == /\ cd' \in [Domains -> Phase]
                /\ \A e \in Domains :
                     /\ cd'[e] \in From(cd[e])
                     /\ cd[e] = "deleting" /\ cd'[e] = "gone" => RemoveFinalizer(e)
<1>0. cd \in [Domains -> Phase]
  BY DEF TypeOK
<1>1. CASE UNCHANGED cd
  BY <1>0, <1>1, FromFacts
<1>2. ASSUME NEW d \in Domains, UserCreates(d) PROVE G
  BY <1>0, <1>2, FromFacts DEF UserCreates, Phase, Live, From
<1>3. ASSUME NEW d \in Domains, UserDeletes(d) PROVE G
  BY <1>0, <1>3, FromFacts DEF UserDeletes, Phase, Live, From
<1>4. ASSUME NEW d \in Domains, AddFinalizer(d) PROVE G
  BY <1>0, <1>4, FromFacts DEF AddFinalizer, Phase, Live, From
<1>5. ASSUME NEW d \in Domains, RemoveFinalizer(d) PROVE G
  BY <1>0, <1>5, FromFacts DEF RemoveFinalizer, Phase, Live, From
<1>6. \/ UNCHANGED cd
      \/ \E d \in Domains : \/ UserCreates(d) \/ UserDeletes(d)
                            \/ AddFinalizer(d) \/ RemoveFinalizer(d)
  BY DEF Next, Handler, CDEvent, GhostExpires, Begin, CleanupLabels, PluginLabels,
         ObjectEvent, CleanupDelete, CleanupRelease, LateCreation, NodeEvent,
         CallFails, Failover, CreateDaemonRCT, CreateDaemonSet, CreateWorkloadRCT,
         DeleteWorkloadRCT, DeleteDaemonRCT, DeleteDaemonSet, RemoveLabels,
         ReleaseOwned, ReleaseObject, AssertRemoved
<1> QED
  BY <1>1, <1>2, <1>3, <1>4, <1>5, <1>6

(* What a step may do to object j of domain e: nothing, let it go, mark it *)
(* when its ComputeDomain is marked or gone, or create it, in the handler  *)
(* or for a former leader.                                                 *)
ObjectStep(e, j) ==
    \/ api'[e][j] = api[e][j]
    \/ api'[e][j] = "absent"
    \/ /\ api[e][j] = "present" /\ api'[e][j] = "deleting"
       /\ cd[e] \in {"deleting", "gone"}
    \/ /\ api'[e][j] = "present" /\ cache.cd[e] # "none"
       /\ \/ j \in made'[e] /\ work.step \in CreateSteps
          \/ late'[e][j] = "landed"

ObjectSteps ==
    /\ api' \in [Domains -> [Owned -> Object]]
    /\ \A e \in Domains, j \in Owned : ObjectStep(e, j)

(* The API server with one more object. *)
LEMMA PresentFacts ==
    ASSUME TypeOK, NEW d \in Domains, NEW k \in Owned
    PROVE  /\ Put(api, d, k, "present") \in [Domains -> [Owned -> Object]]
           /\ \A e \in Domains, j \in Owned :
                Put(api, d, k, "present")[e][j] =
                  IF e = d /\ j = k THEN "present" ELSE api[e][j]
<1>1. api \in [Domains -> [Owned -> Object]] /\ "present" \in Object
  BY DEF TypeOK, Object
<1> QED
  BY <1>1, PutFacts

(* Create makes an object that the mutation cache then has. *)
LEMMA CreateFacts ==
    ASSUME TypeOK, NEW d \in Domains, NEW k \in Owned, NEW next,
           CreateObject(d, k, next), cache.cd[d] # "none",
           work.step \in CreateSteps
    PROVE  ObjectSteps
<1>1. CASE UNCHANGED <<api, made>>
  BY <1>1 DEF ObjectSteps, ObjectStep, TypeOK
<1>2. CASE /\ api' = Put(api, d, k, "present")
           /\ made' = [made EXCEPT ![d] = @ \cup {k}]
  <2>1. /\ Put(api, d, k, "present") \in [Domains -> [Owned -> Object]]
        /\ \A e \in Domains, j \in Owned :
             Put(api, d, k, "present")[e][j] =
               IF e = d /\ j = k THEN "present" ELSE api[e][j]
    BY PresentFacts
  <2>2. k \in made'[d]
    BY <1>2 DEF TypeOK
  <2> QED
    BY <1>2, <2>1, <2>2 DEF ObjectSteps, ObjectStep
<1> QED
  BY <1>1, <1>2 DEF CreateObject

(* Delete marks an object of a ComputeDomain that is marked or gone. *)
LEMMA DeleteFacts ==
    ASSUME TypeOK, NEW d \in Domains, NEW k \in Owned,
           api' = Deleted(api, d, k), cd[d] \in {"deleting", "gone"}
    PROVE  ObjectSteps
BY DeletedFacts DEF ObjectSteps, ObjectStep

(* RemoveFinalizer only lets objects go. *)
LEMMA ReleaseFacts ==
    ASSUME TypeOK, NEW d \in Domains, NEW k \in Owned,
           api' = Released(api, d, k)
    PROVE  ObjectSteps
BY ReleasedFacts DEF ObjectSteps, ObjectStep

(* The cleanup managers see an object of a ComputeDomain that is gone. *)
LEMMA StaleFacts ==
    ASSUME TypeOK, CopiesBehind, SeenAfterDomain,
           NEW d \in Domains, NEW k \in Owned, Stale(d, k)
    PROVE  cd[d] = "gone"
BY GetFacts DEF Stale, SeenAfterDomain

(* The handler's delete branch works for a ComputeDomain that is marked or *)
(* gone, and the other one for a ComputeDomain that has been seen.         *)
LEMMA BranchFacts ==
    ASSUME CopiesBehind, NEW d \in Domains, work.domain = d
    PROVE  /\ work.step \in DeleteSteps => cd[d] \in {"deleting", "gone"}
           /\ cache.cd[d] # "none"
BY DEF CopiesBehind, From

(* Every step does this to every object. *)
LEMMA ObjectFacts ==
    ASSUME TypeOK, CopiesBehind, SeenAfterDomain, Next
    PROVE  ObjectSteps
<1>0. CASE UNCHANGED api
  BY <1>0 DEF ObjectSteps, ObjectStep, TypeOK
<1>1. ASSUME NEW d \in Domains, CreateDaemonRCT(d) PROVE ObjectSteps
  <2>1. cache.cd[d] # "none" /\ work.step \in CreateSteps
    BY <1>1, BranchFacts DEF CreateDaemonRCT, At, CreateSteps
  <2>2. UNCHANGED api \/ \E next : CreateObject(d, "daemonRCT", next)
    BY <1>1 DEF CreateDaemonRCT
  <2> QED
    BY <1>0, <2>1, <2>2, CreateFacts DEF Owned
<1>2. ASSUME NEW d \in Domains, CreateDaemonSet(d) PROVE ObjectSteps
  <2>1. cache.cd[d] # "none" /\ work.step \in CreateSteps
    BY <1>2, BranchFacts DEF CreateDaemonSet, At, CreateSteps
  <2>2. \E next : CreateObject(d, "daemonSet", next)
    BY <1>2 DEF CreateDaemonSet
  <2> QED
    BY <2>1, <2>2, CreateFacts DEF Owned
<1>3. ASSUME NEW d \in Domains, CreateWorkloadRCT(d) PROVE ObjectSteps
  <2>1. cache.cd[d] # "none" /\ work.step \in CreateSteps
    BY <1>3, BranchFacts DEF CreateWorkloadRCT, At, CreateSteps
  <2>2. \E next : CreateObject(d, "workloadRCT", next)
    BY <1>3 DEF CreateWorkloadRCT
  <2> QED
    BY <2>1, <2>2, CreateFacts DEF Owned
<1>4. ASSUME NEW d \in Domains, DeleteWorkloadRCT(d) PROVE ObjectSteps
  BY <1>4, BranchFacts, DeleteFacts
  DEF DeleteWorkloadRCT, DeleteObject, At, DeleteSteps, Owned
<1>5. ASSUME NEW d \in Domains, DeleteDaemonRCT(d) PROVE ObjectSteps
  <2>1. cd[d] \in {"deleting", "gone"}
    BY <1>5, BranchFacts DEF DeleteDaemonRCT, At, DeleteSteps
  <2>2. UNCHANGED api \/ api' = Deleted(api, d, "daemonRCT")
    BY <1>5 DEF DeleteDaemonRCT, DeleteObject
  <2> QED
    BY <1>0, <2>1, <2>2, DeleteFacts DEF Owned
<1>6. ASSUME NEW d \in Domains, DeleteDaemonSet(d) PROVE ObjectSteps
  BY <1>6, BranchFacts, DeleteFacts
  DEF DeleteDaemonSet, DeleteObject, At, DeleteSteps, Owned
<1>7. ASSUME NEW d \in Domains, ReleaseOwned(d) PROVE ObjectSteps
  <2>1. UNCHANGED api \/ \E k \in Owned : api' = Released(api, d, k)
    BY <1>7 DEF ReleaseOwned, ReleaseObject, AssertRemoved, Owned
  <2> QED
    BY <1>0, <2>1, ReleaseFacts
<1>8. ASSUME NEW d \in Domains, NEW k \in Owned, CleanupDelete(d, k)
      PROVE  ObjectSteps
  <2>1. cd[d] = "gone"
    BY <1>8, StaleFacts DEF CleanupDelete
  <2>2. \A j \in Owned :
          /\ Deleted(api, d, j)[d][j] \in Object
          /\ \/ Deleted(api, d, j)[d][j] = api[d][j]
             \/ api[d][j] = "present" /\ Deleted(api, d, j)[d][j] = "deleting"
    BY DeletedFacts
  <2>3. api' = [api EXCEPT ![d] =
                  [j \in Owned |-> IF j \in CleanupKinds(k)
                                   THEN Deleted(api, d, j)[d][j] ELSE @[j]]]
    BY <1>8 DEF CleanupDelete
  <2>4. /\ api' \in [Domains -> [Owned -> Object]]
        /\ \A e \in Domains \ {d} : api'[e] = api[e]
        /\ \A j \in Owned : \/ api'[d][j] = api[d][j]
                            \/ api'[d][j] = Deleted(api, d, j)[d][j]
    BY <2>2, <2>3 DEF TypeOK
  <2> QED
    BY <2>1, <2>2, <2>4 DEF ObjectSteps, ObjectStep
<1>9. ASSUME NEW d \in Domains, NEW k \in Owned, CleanupRelease(d, k)
      PROVE  ObjectSteps
  <2>1. \A j \in Owned :
          /\ Released(api, d, j)[d][j] \in Object
          /\ \/ Released(api, d, j)[d][j] = api[d][j]
             \/ Released(api, d, j)[d][j] = "absent"
    BY ReleasedFacts
  <2>2. PICK done : api' = [api EXCEPT ![d] =
                  [j \in Owned |-> IF j \in done
                                   THEN Released(api, d, j)[d][j] ELSE @[j]]]
    BY <1>9 DEF CleanupRelease
  <2>3. /\ api' \in [Domains -> [Owned -> Object]]
        /\ \A e \in Domains \ {d} : api'[e] = api[e]
        /\ \A j \in Owned : \/ api'[d][j] = api[d][j]
                            \/ api'[d][j] = Released(api, d, j)[d][j]
    BY <2>1, <2>2 DEF TypeOK
  <2> QED
    BY <2>1, <2>3 DEF ObjectSteps, ObjectStep
<1>10. ASSUME NEW d \in Domains, NEW k \in Owned, LateCreation(d, k)
       PROVE  ObjectSteps
  <2>1. cache.cd[d] # "none"
    BY <1>10 DEF LateCreation, SeenAfterDomain
  <2>2. CASE UNCHANGED api
    BY <1>0, <2>2
  <2>3. CASE /\ api' = Put(api, d, k, "present")
             /\ late' = [late EXCEPT ![d][k] = "landed"]
    <3>1. /\ Put(api, d, k, "present") \in [Domains -> [Owned -> Object]]
          /\ \A e \in Domains, j \in Owned :
               Put(api, d, k, "present")[e][j] =
                 IF e = d /\ j = k THEN "present" ELSE api[e][j]
      BY PresentFacts
    <3>2. late'[d][k] = "landed"
      BY <2>3 DEF TypeOK
    <3> QED
      BY <2>1, <2>3, <3>1, <3>2 DEF ObjectSteps, ObjectStep
  <2> QED
    BY <1>10, <2>2, <2>3 DEF LateCreation
<1>11. \/ UNCHANGED api
       \/ \E d \in Domains :
            \/ CreateDaemonRCT(d) \/ CreateDaemonSet(d) \/ CreateWorkloadRCT(d)
            \/ DeleteWorkloadRCT(d) \/ DeleteDaemonRCT(d) \/ DeleteDaemonSet(d)
            \/ ReleaseOwned(d)
            \/ \E k \in Owned : \/ CleanupDelete(d, k) \/ CleanupRelease(d, k)
                                \/ LateCreation(d, k)
  BY DEF Next, Handler, UserCreates, UserDeletes, CDEvent, GhostExpires, Begin,
         CleanupLabels, PluginLabels, ObjectEvent, NodeEvent, CallFails, Failover,
         AddFinalizer, RemoveLabels, RemoveFinalizer
<1> QED
  BY <1>0, <1>1, <1>2, <1>3, <1>4, <1>5, <1>6, <1>7, <1>8, <1>9, <1>10, <1>11

(* The informers deliver what the API server has, object by object or, to  *)
(* a new leader, all of it.  What is not delivered stays as it is, and so  *)
(* does what the mutation cache has of it.                                 *)
CacheSteps ==
    /\ cache' \in [cd : [Domains -> Phase],
                   owned : [Domains -> [Owned -> Object]],
                   label : [Nodes -> Domains \cup {None}]]
    /\ made' \in [Domains -> SUBSET Owned]
    /\ \A e \in Domains :
         /\ \/ cache'.cd[e] = cache.cd[e]
            \/ cache'.cd[e] = cd[e] /\ cd'[e] = cd[e]
         /\ \A j \in Owned :
              \/ /\ cache'.owned[e][j] = cache.owned[e][j]
                 /\ j \in made[e] => j \in made'[e]
              \/ cache'.owned[e][j] = api[e][j] /\ api'[e][j] = api[e][j]

(* Every step leaves the caches as they are, or updates them so. *)
LEMMA CacheFacts ==
    ASSUME TypeOK, Next
    PROVE  CacheSteps
<1>0. CASE UNCHANGED <<cache, made>>
  BY <1>0 DEF CacheSteps, TypeOK
<1>1. ASSUME NEW d \in Domains, CDEvent(d) PROVE CacheSteps
  <2>1. /\ cache' = [cache EXCEPT !.cd[d] = cd[d]]
        /\ UNCHANGED <<cd, api, made>>
    BY <1>1 DEF CDEvent
  <2>2. /\ cache'.owned = cache.owned /\ cache'.label = cache.label
        /\ cache'.cd = [cache.cd EXCEPT ![d] = cd[d]]
        /\ cache' = [cd |-> cache'.cd, owned |-> cache'.owned, label |-> cache'.label]
    BY <2>1 DEF TypeOK
  <2> QED
    BY <2>1, <2>2 DEF CacheSteps, TypeOK
<1>2. ASSUME NEW d \in Domains, NEW k \in Owned, ObjectEvent(d, k) PROVE CacheSteps
  <2>1. /\ cache' = [cache EXCEPT !.owned[d][k] = api[d][k]]
        /\ made' = [made EXCEPT ![d] = @ \ {k}]
        /\ UNCHANGED <<cd, api>>
    BY <1>2 DEF ObjectEvent
  <2>2. /\ cache'.cd = cache.cd /\ cache'.label = cache.label
        /\ cache'.owned = [cache.owned EXCEPT ![d][k] = api[d][k]]
        /\ cache' = [cd |-> cache'.cd, owned |-> cache'.owned, label |-> cache'.label]
    BY <2>1 DEF TypeOK
  <2>3. /\ cache'.owned \in [Domains -> [Owned -> Object]]
        /\ \A e \in Domains, j \in Owned :
             cache'.owned[e][j] = IF e = d /\ j = k THEN api[d][k]
                                  ELSE cache.owned[e][j]
    BY <2>2 DEF TypeOK
  <2>4. /\ made' \in [Domains -> SUBSET Owned]
        /\ \A e \in Domains, j \in Owned :
             e # d \/ j # k => (j \in made[e] => j \in made'[e])
    BY <2>1 DEF TypeOK
  <2>5. \A e \in Domains, j \in Owned :
          \/ /\ cache'.owned[e][j] = cache.owned[e][j]
             /\ j \in made[e] => j \in made'[e]
          \/ cache'.owned[e][j] = api[e][j] /\ api'[e][j] = api[e][j]
    BY <2>1, <2>3, <2>4
  <2> QED
    BY <2>1, <2>2, <2>3, <2>4, <2>5 DEF CacheSteps, TypeOK
<1>3. ASSUME NEW n \in Nodes, NodeEvent(n) PROVE CacheSteps
  <2>1. /\ cache' = [cache EXCEPT !.label[n] = label[n]]
        /\ UNCHANGED <<cd, api, made>>
    BY <1>3 DEF NodeEvent
  <2>2. /\ cache'.owned = cache.owned /\ cache'.cd = cache.cd
        /\ cache'.label = [cache.label EXCEPT ![n] = label[n]]
        /\ cache' = [cd |-> cache'.cd, owned |-> cache'.owned, label |-> cache'.label]
    BY <2>1 DEF TypeOK
  <2> QED
    BY <2>1, <2>2 DEF CacheSteps, TypeOK
<1>4. CASE Failover
  <2>1. /\ cache' = [cd |-> cd, owned |-> api, label |-> label]
        /\ made' = [d \in Domains |-> {}]
        /\ UNCHANGED <<cd, api>>
    BY <1>4 DEF Failover
  <2> QED
    BY <2>1 DEF CacheSteps, TypeOK
<1>5. ASSUME NEW d \in Domains, NEW k \in Owned, NEW next, CreateObject(d, k, next),
             UNCHANGED <<cd, cache>>
      PROVE  CacheSteps
  <2>1. \/ made' = made
        \/ made' = [made EXCEPT ![d] = @ \cup {k}]
    BY <1>5 DEF CreateObject
  <2>2. /\ made' \in [Domains -> SUBSET Owned]
        /\ \A e \in Domains : made[e] \subseteq made'[e]
    <3>1. made \in [Domains -> SUBSET Owned]
      BY DEF TypeOK
    <3>2. CASE made' = [made EXCEPT ![d] = @ \cup {k}]
      <4>1. /\ made[d] \cup {k} \in SUBSET Owned
            /\ made'[d] = made[d] \cup {k}
            /\ \A e \in Domains \ {d} : made'[e] = made[e]
        BY <3>1, <3>2
      <4> QED
        BY <3>1, <3>2, <4>1
    <3> QED
      BY <2>1, <3>1, <3>2
  <2> QED
    BY <1>5, <2>2 DEF CacheSteps, TypeOK
<1>6. \/ UNCHANGED <<cache, made>>
      \/ \E d \in Domains : CDEvent(d) \/ \E k \in Owned : ObjectEvent(d, k)
      \/ \E n \in Nodes : NodeEvent(n)
      \/ Failover
      \/ /\ \E d \in Domains, k \in Owned, next \in {work', Idle} : CreateObject(d, k, next)
         /\ UNCHANGED <<cd, cache>>
  <2>1. ASSUME NEW d \in Domains,
               CreateDaemonRCT(d) \/ CreateDaemonSet(d) \/ CreateWorkloadRCT(d)
        PROVE  \/ UNCHANGED <<cache, made>>
               \/ /\ \E k \in Owned, next \in {work', Idle} : CreateObject(d, k, next)
                  /\ UNCHANGED <<cd, cache>>
    BY <2>1 DEF CreateDaemonRCT, CreateDaemonSet, CreateWorkloadRCT, CreateObject,
                Return, Owned
  <2> QED
    BY <2>1
    DEF Next, Handler, UserCreates, UserDeletes, GhostExpires, Begin,
        CleanupLabels, PluginLabels, CleanupDelete, CleanupRelease, LateCreation,
        CallFails, AddFinalizer, DeleteWorkloadRCT, DeleteDaemonRCT,
        DeleteDaemonSet, RemoveLabels, ReleaseOwned, ReleaseObject,
        AssertRemoved, RemoveFinalizer
<1> QED
  BY <1>0, <1>1, <1>2, <1>3, <1>4, <1>5, <1>6

(* A request of a former leader comes only from a handler, and what it has *)
(* made is remembered while the handler of this leader runs.               *)
LateSteps ==
    /\ late' \in [Domains -> [Owned -> {"no", "inflight", "landed"}]]
    /\ \A e \in Domains, j \in Owned :
         /\ late'[e][j] # "no" /\ late[e][j] = "no" => work.domain = e
         /\ late[e][j] = "landed" => late'[e][j] = "landed" \/ Failover

(* Every step does this to the requests of former leaders. *)
LEMMA LateFacts ==
    ASSUME TypeOK, Next
    PROVE  LateSteps
<1> DEFINE Value == {"no", "inflight", "landed"}
<1>0. late \in [Domains -> [Owned -> Value]]
  BY DEF TypeOK
<1>1. CASE UNCHANGED late
  BY <1>0, <1>1 DEF LateSteps
<1>2. ASSUME NEW d \in Domains, NEW k \in Owned, LateCreation(d, k) PROVE LateSteps
  <2>1. PICK v \in Value : late' = [late EXCEPT ![d][k] = v]
    BY <1>2 DEF LateCreation
  <2>2. /\ late' \in [Domains -> [Owned -> Value]]
        /\ \A e \in Domains, j \in Owned :
             late'[e][j] = IF e = d /\ j = k THEN v ELSE late[e][j]
    BY <1>0, <2>1
  <2>3. late[d][k] = "inflight"
    BY <1>2 DEF LateCreation
  <2> QED
    BY <2>2, <2>3 DEF LateSteps
<1>3. CASE Failover /\ late' # late
  <2>1. PICK d \in Domains, k \in Owned :
          Sending(d, k) /\ late' = [late EXCEPT ![d][k] = "inflight"]
    BY <1>3 DEF Failover
  <2>2. /\ late' \in [Domains -> [Owned -> Value]]
        /\ \A e \in Domains, j \in Owned :
             late'[e][j] = IF e = d /\ j = k THEN "inflight" ELSE late[e][j]
    BY <1>0, <2>1
  <2>3. work.domain = d
    BY <2>1 DEF Sending, At
  <2> QED
    BY <1>3, <2>2, <2>3 DEF LateSteps
<1>4. \/ UNCHANGED late
      \/ Failover
      \/ \E d \in Domains, k \in Owned : LateCreation(d, k)
  BY HandlerFacts
  DEF Next, UserCreates, UserDeletes, CDEvent, GhostExpires, Begin, CleanupLabels,
      PluginLabels, ObjectEvent, CleanupDelete, CleanupRelease, NodeEvent, CallFails
<1> QED
  BY <1>1, <1>2, <1>3, <1>4

(* The worker's item: a new one, the next call of the handler, or none. *)
LEMMA WorkFacts ==
    ASSUME TypeOK, Next
    PROVE  \/ work' = work /\ ~Failover
           \/ work' = Idle
           \/ \E d \in Domains : Begin(d)
           \/ \E d \in Domains : Handler(d)
BY HandlerFacts
DEF Next, UserCreates, UserDeletes, CDEvent, GhostExpires, CleanupLabels,
    PluginLabels, ObjectEvent, CleanupDelete, CleanupRelease, LateCreation,
    NodeEvent, CallFails, Failover, Return

(* The worker's item stays well-formed. *)
LEMMA WorkTyped ==
    ASSUME TypeOK, CopiesBehind, Next
    PROVE  work' \in [domain : Domains \cup {None}, copy : Phase,
                      step : {"idle"} \cup CreateSteps \cup DeleteSteps]
<1>1. CASE work' = work
  BY <1>1 DEF TypeOK
<1>2. CASE work' = Idle
  BY <1>2 DEF Idle, Phase
<1>3. ASSUME NEW d \in Domains, Begin(d)
      PROVE  work' \in [domain : Domains \cup {None}, copy : Phase,
                        step : {"idle"} \cup CreateSteps \cup DeleteSteps]
  <2>1. Get(d) \in Phase
    BY GetFacts DEF Phase
  <2> QED
    BY <1>3, <2>1 DEF Begin, CreateSteps, DeleteSteps
<1>4. ASSUME NEW d \in Domains, Handler(d)
      PROVE  work' \in [domain : Domains \cup {None}, copy : Phase,
                        step : {"idle"} \cup CreateSteps \cup DeleteSteps]
  BY <1>2, <1>4, HandlerFacts DEF TypeOK
<1> QED
  BY <1>1, <1>2, <1>3, <1>4, WorkFacts

(* So do the labels, the mutation cache's leftovers and the counters. *)
LEMMA LabelsTyped ==
    ASSUME TypeOK, Next
    PROVE  /\ label' \in [Nodes -> Domains \cup {None}]
           /\ ghost' \in SUBSET Domains
           /\ faults' \in 0 .. MaxFaults
           /\ labels' \in 0 .. MaxLabels
<1> USE CDControllerAssumption
<1>1. label' \in [Nodes -> Domains \cup {None}]
  <2>1. CASE UNCHANGED label
    BY <2>1 DEF TypeOK
  <2>2. ASSUME NEW d \in Domains, label' = WithoutLabel(d)
        PROVE  label' \in [Nodes -> Domains \cup {None}]
    BY <2>2 DEF WithoutLabel, TypeOK
  <2>3. ASSUME NEW d \in Domains, NEW n \in Nodes, PluginLabels(n, d)
        PROVE  label' \in [Nodes -> Domains \cup {None}]
    BY <2>3 DEF PluginLabels, TypeOK
  <2>4. \/ UNCHANGED label
        \/ \E d \in Domains : label' = WithoutLabel(d)
        \/ \E d \in Domains, n \in Nodes : PluginLabels(n, d)
    BY DEF Next, Handler, UserCreates, UserDeletes, CDEvent, GhostExpires, Begin,
         CleanupLabels, ObjectEvent, CleanupDelete, CleanupRelease,
         LateCreation, NodeEvent, CallFails, Failover, AddFinalizer,
         CreateDaemonRCT, CreateDaemonSet, CreateWorkloadRCT,
         DeleteWorkloadRCT, DeleteDaemonRCT, DeleteDaemonSet, RemoveLabels,
         ReleaseOwned, ReleaseObject, AssertRemoved, RemoveFinalizer
  <2> QED
    BY <2>1, <2>2, <2>3, <2>4
<1>2. \/ UNCHANGED ghost
      \/ \E d \in Domains : ghost' = ghost \cup {d} \/ ghost' = ghost \ {d}
      \/ ghost' = {}
  BY HandlerFacts
  DEF Next, UserCreates, UserDeletes, CDEvent, GhostExpires, Begin, CleanupLabels,
      PluginLabels, ObjectEvent, CleanupDelete, CleanupRelease, LateCreation,
      NodeEvent, CallFails, Failover
<1>3. /\ UNCHANGED faults \/ (faults < MaxFaults /\ faults' = faults + 1)
      /\ UNCHANGED labels \/ (labels < MaxLabels /\ labels' = labels + 1)
  BY HandlerFacts
  DEF Next, UserCreates, UserDeletes, CDEvent, GhostExpires, Begin, CleanupLabels,
      PluginLabels, ObjectEvent, CleanupDelete, CleanupRelease, LateCreation,
      NodeEvent, CallFails, Failover
<1>4. ghost' \in SUBSET Domains
  BY <1>2 DEF TypeOK
<1>5. faults' \in 0 .. MaxFaults /\ labels' \in 0 .. MaxLabels
  BY <1>3 DEF TypeOK
<1> QED
  BY <1>1, <1>4, <1>5

-----------------------------------------------------------------------------
(* The invariant *)

(* Type correctness, from the facts above. *)
LEMMA TypeStep ==
    ASSUME ControllerInv, Next
    PROVE  TypeOK'
BY DomainFacts, ObjectFacts, CacheFacts, LateFacts, WorkTyped, LabelsTyped
DEF ControllerInv, TypeOK, ObjectSteps, CacheSteps, LateSteps

(* The copies stay behind: the informer's moves forward with what it       *)
(* delivers, and the handler's was taken from it.                          *)
LEMMA CopiesStep ==
    ASSUME ControllerInv, Next, TypeOK'
    PROVE  CopiesBehind'
<1> USE CDControllerAssumption
<1>1. TypeOK /\ CopiesBehind
  BY DEF ControllerInv
<1>2. ASSUME NEW d \in Domains PROVE (cd[d] \in From(cache.cd[d]))'
  <2>1. /\ cd[d] \in Phase /\ cd'[d] \in Phase /\ cache.cd[d] \in Phase
        /\ cd[d] \in From(cache.cd[d]) /\ cd'[d] \in From(cd[d])
    BY <1>1, DomainFacts DEF TypeOK, CopiesBehind
  <2>2. \/ cache'.cd[d] = cache.cd[d]
        \/ cache'.cd[d] = cd[d] /\ cd'[d] = cd[d]
    BY <1>1, CacheFacts DEF CacheSteps
  <2>3. cd'[d] \in From(cache'.cd[d])
    BY <2>1, <2>2, FromFacts
  <2> QED
    BY <2>3 DEF From
<1>3. ASSUME NEW d \in Domains PROVE (d \in ghost => cache.cd[d] = "gone")'
  <2>1. CASE d \in ghost /\ ghost' # {}
    <3>1. cache.cd[d] = "gone" /\ cd[d] = "gone"
      BY <1>1, <2>1 DEF CopiesBehind, From
    <3>2. cache'.cd[d] = "gone"
      BY <1>1, <3>1, CacheFacts DEF CacheSteps
    <3> QED
      BY <3>2
  <2>2. CASE d \notin ghost /\ d \in ghost'
    <3>1. PICK e \in Domains : CDEvent(e) /\ ghost' = ghost \cup {e} /\ cd[e] = "gone"
      BY <1>1, <2>2, HandlerFacts
      DEF Next, UserCreates, UserDeletes, CDEvent, GhostExpires, Begin,
          CleanupLabels, PluginLabels, ObjectEvent, CleanupDelete, CleanupRelease,
          LateCreation, NodeEvent, CallFails, Failover
    <3>2. e = d
      BY <2>2, <3>1
    <3> QED
      BY <1>1, <3>1, <3>2 DEF CDEvent, TypeOK
  <2> QED
    BY <2>1, <2>2
<1>4. ASSUME NEW d \in Domains, work'.domain = d
      PROVE  /\ cd'[d] \in From(work'.copy)
             /\ cache'.cd[d] # "none"
             /\ work'.step \in DeleteSteps <=> work'.copy = "deleting"
  <2>1. /\ cd[d] \in Phase /\ cd'[d] \in Phase /\ cd'[d] \in From(cd[d])
        /\ cd[d] \in From(cache.cd[d])
        /\ \/ cache'.cd[d] = cache.cd[d]
           \/ cache'.cd[d] = cd[d] /\ cd'[d] = cd[d]
    BY <1>1, DomainFacts, CacheFacts DEF TypeOK, CopiesBehind, CacheSteps
  <2>2. /\ cache.cd[d] \in Phase
        /\ cache.cd[d] # "none" => cache'.cd[d] # "none"
    BY <1>1, <2>1, FromFacts DEF TypeOK
  <2>3. ASSUME work.domain = d, work'.copy = work.copy,
               work.step \in DeleteSteps <=> work'.step \in DeleteSteps
        PROVE  /\ cd'[d] \in From(work'.copy)
               /\ cache'.cd[d] # "none"
               /\ work'.step \in DeleteSteps <=> work'.copy = "deleting"
    BY <1>1, <2>1, <2>2, <2>3, FromFacts DEF CopiesBehind, TypeOK
  <2>4. CASE work' = work
    BY <1>4, <2>3, <2>4
  <2>5. CASE work' = Idle
    BY <1>4, <2>5 DEF Idle
  <2>6. ASSUME NEW e \in Domains, Begin(e)
        PROVE  /\ cd'[d] \in From(work'.copy)
               /\ cache'.cd[d] # "none"
               /\ work'.step \in DeleteSteps <=> work'.copy = "deleting"
    <3>1. /\ work'.domain = e /\ work'.copy = Get(e) /\ Get(e) # "none"
          /\ work'.step = IF Get(e) = "deleting" THEN "deleteWorkloadRCT"
                          ELSE "addFinalizer"
          /\ UNCHANGED cd
      BY <2>6 DEF Begin
    <3>2. cd[d] \in From(Get(d)) /\ cache.cd[d] # "none"
      BY <1>1, <1>4, <3>1, GetFacts
    <3> QED
      BY <1>4, <2>2, <3>1, <3>2 DEF DeleteSteps
  <2>7. ASSUME NEW e \in Domains, Handler(e)
        PROVE  /\ cd'[d] \in From(work'.copy)
               /\ cache'.cd[d] # "none"
               /\ work'.step \in DeleteSteps <=> work'.copy = "deleting"
    <3>1. CASE work' = [work EXCEPT !.step = work'.step] /\ work' # Idle
      <4>1. work'.domain = work.domain /\ work'.copy = work.copy
        BY <1>1, <3>1 DEF TypeOK
      <4>2. work.step \in DeleteSteps <=> work'.step \in DeleteSteps
        BY <1>1, <2>7, <3>1, HandlerFacts
      <4> QED
        BY <1>4, <2>3, <4>1, <4>2
    <3> QED
      BY <1>1, <2>5, <2>7, <3>1, HandlerFacts
  <2> QED
    BY <1>1, <2>4, <2>5, <2>6, <2>7, WorkFacts
<1> QED
  BY <1>2, <1>3, <1>4 DEF CopiesBehind, From

(* A domain that the informer has not delivered has no objects. *)
LEMMA SeenStep ==
    ASSUME ControllerInv, Next
    PROVE  SeenAfterDomain'
<1>1. TypeOK /\ CopiesBehind /\ SeenAfterDomain
  BY DEF ControllerInv
<1>2. SUFFICES ASSUME NEW d \in Domains, cache'.cd[d] = "none", NEW k \in Owned
               PROVE  /\ api'[d][k] = "absent"
                      /\ cache'.owned[d][k] = "absent"
                      /\ late'[d][k] = "no"
  BY DEF SeenAfterDomain
<1>3. cache.cd[d] = "none"
  <2>1. /\ cd[d] \in Phase /\ cache.cd[d] \in Phase /\ cd[d] \in From(cache.cd[d])
        /\ cache'.cd[d] \in {cache.cd[d], cd[d]}
    BY <1>1, CacheFacts DEF TypeOK, CopiesBehind, CacheSteps
  <2> QED
    BY <1>2, <2>1, FromFacts
<1>4. /\ api[d][k] = "absent" /\ cache.owned[d][k] = "absent" /\ late[d][k] = "no"
      /\ work.domain # d
  BY <1>1, <1>3 DEF SeenAfterDomain, CopiesBehind
<1>5. api'[d][k] = "absent"
  BY <1>1, <1>3, <1>4, ObjectFacts DEF ObjectSteps, ObjectStep
<1>6. cache'.owned[d][k] = "absent"
  BY <1>1, <1>4, CacheFacts DEF CacheSteps
<1>7. late'[d][k] = "no"
  BY <1>1, <1>4, LateFacts DEF LateSteps
<1> QED
  BY <1>5, <1>6, <1>7

(* A created object is in the mutation cache until the informer has it, and a
   new leader lists all of them. *)
LEMMA KnownStep ==
    ASSUME ControllerInv, Next
    PROVE  ObjectsKnown'
<1>1. TypeOK /\ CopiesBehind /\ SeenAfterDomain /\ ObjectsKnown
  BY DEF ControllerInv
<1>2. SUFFICES ASSUME NEW d \in Domains, NEW k \in Owned, api'[d][k] # "absent"
               PROVE  \/ cache'.owned[d][k] # "absent"
                      \/ k \in made'[d]
                      \/ late'[d][k] = "landed"
  BY DEF ObjectsKnown
<1>3. CASE Failover
  <2>1. cache'.owned = api /\ api' = api
    BY <1>3 DEF Failover
  <2> QED
    BY <1>2, <2>1
<1>4. CASE ~Failover
  <2>1. /\ late[d][k] = "landed" => late'[d][k] = "landed"
        /\ \/ /\ cache'.owned[d][k] = cache.owned[d][k]
              /\ k \in made[d] => k \in made'[d]
           \/ cache'.owned[d][k] = api[d][k] /\ api'[d][k] = api[d][k]
        /\ ObjectStep(d, k)
    BY <1>1, <1>4, LateFacts, CacheFacts, ObjectFacts
    DEF LateSteps, CacheSteps, ObjectSteps
  <2>2. CASE api[d][k] # "absent"
    BY <1>1, <1>2, <2>1, <2>2 DEF ObjectsKnown
  <2>3. CASE api[d][k] = "absent"
    BY <1>2, <2>1, <2>3 DEF ObjectStep
  <2> QED
    BY <2>2, <2>3
<1> QED
  BY <1>3, <1>4

(* RemoveFinalizer goes on when the object is not known, is marked, or is  *)
(* gone: in each case it is gone then, or a former leader's.               *)
LEMMA ReleaseGone ==
    ASSUME TypeOK, ObjectsKnown, NEW d \in Domains, NEW k \in Owned,
           NEW step, NEW next, ReleaseObject(d, k, step, next), work' # Idle
    PROVE  /\ api'[d][k] = "absent" \/ late[d][k] = "landed"
           /\ work.step = step /\ work'.step = next
           /\ late' = late
           /\ \A j \in Owned : api[d][j] = "absent" => api'[d][j] = "absent"
<1>1. /\ work.step = step /\ work'.step = next /\ late' = late
      /\ \/ Releasable(d, k) /\ api' = Released(api, d, k)
         \/ api[d][k] = "absent" /\ UNCHANGED api
  BY DEF ReleaseObject, At, Goto, Return, TypeOK
<1>2. CASE Seen(d, k) = "absent" /\ api' = Released(api, d, k)
  <2>1. api' = api
    BY <1>2 DEF Released
  <2> QED
    BY <1>1, <1>2, <2>1, SeenFacts DEF ObjectsKnown
<1>3. CASE Seen(d, k) = "deleting" /\ api' = Released(api, d, k)
  BY <1>1, <1>3, ReleasedFacts
<1> QED
  BY <1>1, <1>2, <1>3 DEF Releasable

(* Between the release of an object and the end of the handler, only a former
   leader's request can create it. *)
LEMMA ReleasedStep ==
    ASSUME ControllerInv, Next
    PROVE  ReleasedGone'
<1> USE CDControllerAssumption
<1>1. /\ TypeOK /\ CopiesBehind /\ SeenAfterDomain /\ ObjectsKnown /\ ReleasedGone
  BY DEF ControllerInv
<1> DEFINE G(d) == \A k \in ReleasedBefore(work'.step) :
                       api'[d][k] = "absent" \/ late'[d][k] = "landed"
<1>2. SUFFICES ASSUME NEW d \in Domains, work'.domain = d PROVE G(d)
  BY DEF ReleasedGone, ReleasedBefore
<1>3. CASE work' = Idle
  BY <1>2, <1>3 DEF Idle
<1>4. CASE work' = work /\ ~Failover
  <2>1. SUFFICES ASSUME NEW k \in ReleasedBefore(work.step)
                 PROVE  api'[d][k] = "absent" \/ late'[d][k] = "landed"
    BY <1>4
  <2>2. k \in Owned /\ work.step \in DeleteSteps
    BY <2>1 DEF ReleasedBefore, Owned, DeleteSteps
  <2>3. CASE late[d][k] = "landed"
    BY <1>1, <1>4, <2>2, <2>3, LateFacts DEF LateSteps
  <2>4. CASE api[d][k] = "absent"
    <3>1. ObjectStep(d, k)
      BY <1>1, <2>2, ObjectFacts DEF ObjectSteps
    <3>2. work.step \notin CreateSteps
      BY <2>2 DEF CreateSteps, DeleteSteps
    <3> QED
      BY <2>4, <3>1, <3>2 DEF ObjectStep
  <2> QED
    BY <1>1, <1>2, <1>4, <2>1, <2>3, <2>4 DEF ReleasedGone
<1>5. ASSUME NEW e \in Domains, Begin(e) PROVE G(d)
  BY <1>5 DEF Begin, ReleasedBefore
<1>6. ASSUME NEW e \in Domains, Handler(e), work' # Idle PROVE G(d)
  <2>1. e = d /\ late' = late /\ work.domain = d
    <3>1. work' = [work EXCEPT !.step = work'.step] /\ work.domain = e /\ late' = late
      BY <1>1, <1>6, HandlerFacts
    <3> QED
      BY <1>1, <1>2, <3>1 DEF TypeOK
  <2>2. \A k \in ReleasedBefore(work.step) :
          api[d][k] = "absent" \/ late[d][k] = "landed"
    BY <1>1, <2>1 DEF ReleasedGone
  <2>3. CASE ReleaseObject(d, "workloadRCT", "releaseWorkloadRCT", "assertWorkloadRCT")
    BY <1>1, <1>6, <2>1, <2>3, ReleaseGone DEF ReleasedBefore, Owned
  <2>4. CASE ReleaseObject(d, "daemonRCT", "releaseDaemonRCT", "releaseDaemonSet")
    <3>1. /\ work.step = "releaseDaemonRCT" /\ work'.step = "releaseDaemonSet"
          /\ api'[d]["daemonRCT"] = "absent" \/ late[d]["daemonRCT"] = "landed"
          /\ api[d]["workloadRCT"] = "absent" => api'[d]["workloadRCT"] = "absent"
      BY <1>1, <1>6, <2>4, ReleaseGone DEF Owned
    <3> QED
      BY <2>1, <2>2, <3>1 DEF ReleasedBefore
  <2>5. CASE ReleaseObject(d, "daemonSet", "releaseDaemonSet", "assertDaemonRCT")
    <3>1. /\ work.step = "releaseDaemonSet" /\ work'.step = "assertDaemonRCT"
          /\ api'[d]["daemonSet"] = "absent" \/ late[d]["daemonSet"] = "landed"
          /\ \A j \in Owned : api[d][j] = "absent" => api'[d][j] = "absent"
      BY <1>1, <1>6, <2>5, ReleaseGone DEF Owned
    <3> QED
      BY <2>1, <2>2, <3>1 DEF ReleasedBefore, Owned
  <2>6. CASE \/ AssertRemoved(d, "workloadRCT", "assertWorkloadRCT", "releaseDaemonRCT")
             \/ AssertRemoved(d, "daemonRCT", "assertDaemonRCT", "assertDaemonSet")
             \/ AssertRemoved(d, "daemonSet", "assertDaemonSet", "removeFinalizer")
    <3>1. ReleasedBefore(work'.step) = ReleasedBefore(work.step) /\ api' = api
      BY <1>1, <1>6, <2>6
      DEF AssertRemoved, At, Goto, Return, ReleasedBefore, TypeOK
    <3> QED
      BY <2>1, <2>2, <3>1
  <2>7. CASE ~ReleaseOwned(d)
    <3>1. ReleasedBefore(work'.step) = {}
      <4>1. work'.step \in CreateSteps
                           \cup {"deleteDaemonRCT", "deleteDaemonSet", "removeLabels",
                                 "releaseWorkloadRCT"}
        BY <1>1, <1>6, <2>1, <2>7
        DEF Handler, AddFinalizer, CreateDaemonRCT, CreateDaemonSet,
            CreateWorkloadRCT, CreateObject, DeleteWorkloadRCT, DeleteDaemonRCT,
            DeleteDaemonSet, DeleteObject, RemoveLabels, RemoveFinalizer,
            Goto, Return, CreateSteps, TypeOK
      <4> QED
        BY <4>1 DEF ReleasedBefore, CreateSteps
    <3> QED
      BY <3>1
  <2> QED
    BY <2>3, <2>4, <2>5, <2>6, <2>7 DEF ReleaseOwned
<1> QED
  BY <1>1, <1>3, <1>4, <1>5, <1>6, WorkFacts

(* What the handler and the caches rely on, in every state. *)
THEOREM ControllerInvariant == Spec => []ControllerInv
<1>1. Init => ControllerInv
  BY CDControllerAssumption
  DEF Init, ControllerInv, TypeOK, CopiesBehind, SeenAfterDomain, ObjectsKnown,
      ReleasedGone, Idle, Phase, Live, Object, From
<1>2. ControllerInv /\ [Next]_vars => ControllerInv'
  <2>1. ASSUME ControllerInv, Next PROVE ControllerInv'
    BY <2>1, TypeStep, CopiesStep, SeenStep, KnownStep, ReleasedStep DEF ControllerInv
  <2>2. ASSUME ControllerInv, UNCHANGED vars PROVE ControllerInv'
    BY <2>2
    DEF vars, ControllerInv, TypeOK, CopiesBehind, SeenAfterDomain, ObjectsKnown,
        ReleasedGone, From, ReleasedBefore
  <2> QED
    BY <2>1, <2>2
<1> QED
  BY <1>1, <1>2, PTL DEF Spec

(* What a ComputeDomain owns is never deleted before the ComputeDomain is, *)
(* by the handler or a cleanup manager, for any domains, nodes and faults. *)
THEOREM OwnedKept == Spec => []LiveKept
<1>1. Init => LiveKept
  BY DEF Init, LiveKept
<1>2. ControllerInv /\ LiveKept /\ [Next]_vars => LiveKept'
  <2>1. ASSUME ControllerInv, LiveKept, Next,
               NEW d \in Domains, cd'[d] \in {"new", "present"}, NEW k \in Owned
        PROVE  api'[d][k] # "deleting"
    <3>1. TypeOK /\ CopiesBehind /\ SeenAfterDomain
      BY <2>1 DEF ControllerInv
    <3>2. /\ cd[d] \in Phase /\ cd'[d] \in Phase /\ cache.cd[d] \in Phase
          /\ cd'[d] \in From(cd[d]) /\ cd[d] \in From(cache.cd[d])
      BY <2>1, <3>1, DomainFacts DEF TypeOK, CopiesBehind
    <3>3. cd[d] \in {"none", "new", "present"}
      BY <2>1, <3>2, FromFacts
    <3>4. api[d][k] # "deleting"
      <4>1. CASE cd[d] = "none"
        BY <3>1, <3>2, <4>1, FromFacts DEF SeenAfterDomain
      <4> QED
        BY <2>1, <3>3, <4>1 DEF LiveKept
    <3>5. ObjectStep(d, k)
      BY <2>1, <3>1, ObjectFacts DEF ObjectSteps
    <3> QED
      BY <3>3, <3>4, <3>5 DEF ObjectStep
  <2>2. ASSUME LiveKept, UNCHANGED vars PROVE LiveKept'
    BY <2>2 DEF LiveKept, vars
  <2> QED
    BY <2>1, <2>2 DEF LiveKept
<1> QED
  BY <1>1, <1>2, ControllerInvariant, PTL DEF Spec

(* The finalizer of a ComputeDomain goes after what it owns, whatever the  *)
(* caches show and however often the leader changes.                       *)
THEOREM FinalizerIsLast == Spec => FinalizerLast
<1>1. ASSUME ControllerInv, [Next]_vars, NEW d \in Domains,
             cd[d] = "deleting", cd'[d] = "gone"
      PROVE  \A k \in Owned : api[d][k] = "absent" \/ late[d][k] # "no"
  <2>1. Next
    BY <1>1 DEF vars
  <2>2. RemoveFinalizer(d)
    BY <1>1, <2>1, DomainFacts DEF ControllerInv
  <2>3. work.domain = d /\ ReleasedBefore(work.step) = Owned
    BY <2>2 DEF RemoveFinalizer, At, ReleasedBefore
  <2> QED
    BY <1>1, <2>3 DEF ControllerInv, ReleasedGone
<1>2. ControllerInv /\ [Next]_vars =>
        [\A d \in Domains : cd[d] = "deleting" /\ cd'[d] = "gone" =>
            \A k \in Owned : api[d][k] = "absent" \/ late[d][k] # "no"]_vars
  BY <1>1
<1> QED
  BY <1>2, ControllerInvariant, PTL DEF Spec, FinalizerLast

=============================================================================
