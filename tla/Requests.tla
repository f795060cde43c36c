------------------------------ MODULE Requests ------------------------------
(***************************************************************************)
(* How the ComputeDomain kubelet plugin serves the kubelet's requests      *)
(* (cmd/compute-domain-kubelet-plugin/driver.go) with a work queue per     *)
(* request (pkg/workqueue) and a file lock (pkg/flock) that two attempts   *)
(* never hold, whether of one driver pod or, during an update, of two.     *)
(*                                                                         *)
(* A request has one item per claim, which its Run loop takes one at a     *)
(* time and in any order.  An attempt gets the lock or gives up, does its  *)
(* work and releases the lock; a retryable error queues the item again.    *)
(* The request's context is done when every item is, at its deadline, or   *)
(* when the kubelet cancels the call; the loop looks at it between two     *)
(* items.  The work itself, DeviceState.Prepare and Unprepare, is in       *)
(* CDPlugin; here a claim may need another one to be prepared first.       *)
(***************************************************************************)
EXTENDS Naturals, WorkQueue

CONSTANTS
    Pods, Claims,
    ClaimsOf,       \* the claims of each pod
    Ending,         \* bound: the pods that may be deleted
    Requires,       \* the claims that have to be prepared before a claim
    Slots,          \* requests that may be under way at the same time
    None,           \* no slot, no claim
    MaxFaults       \* bound: errors, crashes and calls the kubelet gives up

(* The kubelet prepares a claim for the first of the pods that share it    *)
(* and unprepares it for the last: such pods count as one.                 *)
ASSUME RequestsAssumption ==
    /\ Pods # {}
    /\ Ending \subseteq Pods
    /\ ClaimsOf \in [Pods -> SUBSET Claims]
    /\ \A p, q \in Pods : p # q => ClaimsOf[p] \cap ClaimsOf[q] = {}
    /\ Requires \in [Claims -> SUBSET Claims]
    /\ Slots \subseteq Nat
    /\ None \notin Slots /\ None \notin Claims
    /\ MaxFaults \in Nat

VARIABLES
    kubelet,    \* what the kubelet wants for each pod
    req,        \* the requests
    lock,       \* the slot that holds the file lock
    cp,         \* the checkpoint
    overtaken,  \* claims for which a cancelled request came last
    faults      \* for the bound

vars == <<kubelet, req, lock, cp, overtaken, faults>>

-----------------------------------------------------------------------------
Phase == {"idle", "preparing", "running", "unpreparing"}
Result == {"none", "ok", "error"}

(* at: where the worker is: waiting in queue.Get, acquiring the lock,      *)
(* holding it, or returning.                                               *)
Request ==
    [kind : {"none", "prepare", "unprepare"},
     pod : Pods,
     at : {"get", "acquire", "locked", "return"},
     item : Claims \cup {None},
     done : BOOLEAN,          \* the context is done
     cancelled : BOOLEAN,     \* the kubelet does not wait for the response
     tried : SUBSET Claims,   \* attempts have failed, before it was
     queue : [Claims -> Queue],
     results : [Claims -> Result]]

TypeOK ==
    /\ kubelet \in [Pods -> Phase]
    /\ req \in [Slots -> Request]
    /\ lock \in Slots \cup {None}
    /\ cp \in [Claims -> {"none", "PrepareStarted", "PrepareCompleted"}]
    /\ overtaken \in SUBSET Claims
    /\ faults \in 0 .. MaxFaults

NoRequest ==
    [kind |-> "none", pod |-> CHOOSE p \in Pods : TRUE, at |-> "get",
     item |-> None, done |-> FALSE, cancelled |-> FALSE,
     tried |-> {}, queue |-> [c \in Claims |-> NewQueue],
     results |-> [c \in Claims |-> "none"]]

Init ==
    /\ kubelet = [p \in Pods |-> "idle"]
    /\ req = [r \in Slots |-> NoRequest]
    /\ lock = None
    /\ cp = [c \in Claims |-> "none"]
    /\ overtaken = {}
    /\ faults = 0

-----------------------------------------------------------------------------
(* The kubelet. *)

(* The request whose response the kubelet waits for. *)
Awaited(p) ==
    {r \in Slots : req[r].kind # "none" /\ req[r].pod = p /\ ~req[r].cancelled}

(* The pods of a daemon come once a claim that needs them was tried. *)
PodStarts(p) ==
    /\ kubelet[p] = "idle"
    /\ \A c \in ClaimsOf[p], b \in Claims :
          c \in Requires[b] => cp[b] # "none"
    /\ kubelet' = [kubelet EXCEPT ![p] = "preparing"]
    /\ UNCHANGED <<req, lock, cp, overtaken, faults>>

Cancelled(rs) ==
    [r \in Slots |-> IF r \in rs
                     THEN [req[r] EXCEPT !.cancelled = TRUE, !.done = TRUE,
                                         !.tried = {}]
                     ELSE req[r]]

(* The deletion of a pod cancels the call made for it. *)
PodEnds(p) ==
    /\ kubelet[p] \in {"preparing", "running"}
    /\ p \in Ending
    /\ kubelet' = [kubelet EXCEPT ![p] = "unpreparing"]
    /\ req' = Cancelled(Awaited(p))
    /\ UNCHANGED <<lock, cp, overtaken, faults>>

(* The kubelet's own timeout; it calls again. *)
KubeletGivesUp(p) ==
    /\ Awaited(p) # {}
    /\ faults < MaxFaults
    /\ faults' = faults + 1
    /\ req' = Cancelled(Awaited(p))
    /\ UNCHANGED <<kubelet, lock, cp, overtaken>>

(* kubeletplugin.Serialize(false): a call is served at once.  Slots are    *)
(* alike, and the first free one is taken.                                 *)
Serves(r) ==
    /\ req[r].kind = "none"
    /\ \A s \in Slots : s < r => req[s].kind # "none"

(* PrepareResourceClaims, UnprepareResourceClaims: a new work queue. *)
Call(p, r) ==
    /\ kubelet[p] \in {"preparing", "unpreparing"}
    /\ Awaited(p) = {}
    /\ Serves(r)
    /\ req' = [req EXCEPT ![r] =
                 [NoRequest EXCEPT
                    !.kind = IF kubelet[p] = "preparing" THEN "prepare"
                             ELSE "unprepare",
                    !.pod = p,
                    !.queue = [c \in Claims |-> IF c \in ClaimsOf[p]
                                                THEN Enqueue(NewQueue)
                                                ELSE NewQueue]]]
    /\ UNCHANGED <<kubelet, lock, cp, overtaken, faults>>

-----------------------------------------------------------------------------
(* WorkQueue.Run *)

Active(r, at) == req[r].kind # "none" /\ req[r].at = at
Queued(r) == {c \in Claims : \E i \in Item : req[r].queue[c][i]}
Goto(r, at) == req' = [req EXCEPT ![r].at = at]

(* Mutant: a claim that the results leave out counts as done. *)
ReturnPartial(r) ==
    LET p == req[r].pod
        complete == \A c \in ClaimsOf[p] : req[r].results[c] # "error"
    IN  /\ req' = [req EXCEPT ![r] = NoRequest]
        /\ IF complete /\ ~req[r].cancelled
           THEN kubelet' = [kubelet EXCEPT
                              ![p] = IF req[r].kind = "prepare"
                                     THEN "running" ELSE "idle"]
           ELSE UNCHANGED kubelet

(* The request ends and the kubelet gets its results.  A claim that they   *)
(* leave out counts as failed.                                             *)
Return(r) ==
    LET p == req[r].pod
        complete == \A c \in ClaimsOf[p] : req[r].results[c] = "ok"
    IN  /\ req' = [req EXCEPT ![r] = NoRequest]
        /\ IF complete /\ ~req[r].cancelled
           THEN kubelet' = [kubelet EXCEPT
                              ![p] = IF req[r].kind = "prepare"
                                     THEN "running" ELSE "idle"]
           ELSE UNCHANGED kubelet

(* Run looks at the context after every item. *)
AfterItem(r) == IF req[r].done THEN "return" ELSE "get"

Returns(r) ==
    /\ Active(r, "return")
    /\ Return(r)
    /\ UNCHANGED <<lock, cp, overtaken, faults>>

(* processNextWorkItem: an item whose back-off is over.  It may win        *)
(* against the shutdown of the queue.                                      *)
Get(r, c) ==
    /\ Active(r, "get")
    /\ c \in Queued(r)
    /\ req' = [req EXCEPT ![r].at = "acquire", ![r].item = c]
    /\ UNCHANGED <<kubelet, lock, cp, overtaken, faults>>

(* Mutant: a worker that waits for an item is not woken up. *)
GetShutdownMissed(r) ==
    /\ Active(r, "get")
    /\ req[r].done
    /\ Queued(r) # {}
    /\ Return(r)
    /\ UNCHANGED <<lock, cp, overtaken, faults>>

(* The queue is shut down when the context is done. *)
GetShutdown(r) ==
    /\ Active(r, "get")
    /\ req[r].done
    /\ Return(r)
    /\ UNCHANGED <<lock, cp, overtaken, faults>>

(* What takes longer than it should counts as a fault. *)
InTime(usual) == IF usual THEN UNCHANGED faults
                ELSE faults < MaxFaults /\ faults' = faults + 1

(* ErrorRetryMaxTimeout, time enough to try every claim. *)
Deadline(r) ==
    /\ req[r].kind # "none"
    /\ ~req[r].done
    /\ InTime(\A c \in ClaimsOf[req[r].pod] :
                 req[r].results[c] # "none" \/ c \in req[r].tried)
    /\ req' = [req EXCEPT ![r].done = TRUE, ![r].tried = {}]
    /\ UNCHANGED <<kubelet, lock, cp, overtaken>>

(* wg.Wait and cancel, in a goroutine of their own. *)
AllDone(r) ==
    /\ req[r].kind # "none"
    /\ ~req[r].done
    /\ \A c \in ClaimsOf[req[r].pod] : req[r].results[c] # "none"
    /\ req' = [req EXCEPT ![r].done = TRUE, ![r].tried = {}]
    /\ UNCHANGED <<kubelet, lock, cp, overtaken, faults>>

-----------------------------------------------------------------------------
(* An attempt: nodePrepareResource, nodeUnprepareResource. *)

(* The item is done: its result is set and activeOps is cleaned up. *)
Done(r, result) ==
    LET c == req[r].item
    IN  req' = [req EXCEPT ![r].at = AfterItem(r), ![r].item = None,
                           ![r].results[c] = result,
                           ![r].queue[c] = Succeeded(@, "latest")]

(* The item has failed and is queued again. *)
Retry(r, tried) ==
    LET c == req[r].item
    IN  req' = [req EXCEPT ![r].at = AfterItem(r), ![r].item = None,
                           ![r].tried = IF req[r].done THEN {}
                                        ELSE @ \cup tried,
                           ![r].queue[c] = Failed(@, "latest")]

(* Flock.Acquire tries the lock before it looks at timeout and context. *)
Acquire(r) ==
    /\ Active(r, "acquire")
    /\ lock = None
    /\ lock' = r
    /\ Goto(r, "locked")
    /\ UNCHANGED <<kubelet, cp, overtaken, faults>>

(* The context is done while others have the lock, or they have had it for *)
(* 10 seconds, or the file cannot be opened or locked at all.              *)
AcquireFails(r) ==
    /\ Active(r, "acquire")
    /\ InTime(lock # None /\ req[r].done)
    /\ Retry(r, {})
    /\ UNCHANGED <<kubelet, lock, cp, overtaken>>

(* A cancelled request does its work when a later and opposite one has     *)
(* done its own.                                                           *)
Overtakes(r) ==
    LET p == req[r].pod
    IN  /\ req[r].cancelled
        /\ \/ kubelet[p] = IF req[r].kind = "prepare" THEN "idle" ELSE "running"
           \/ \E s \in Awaited(p) : /\ req[s].kind # req[r].kind
                                    /\ req[s].results[req[r].item] = "ok"

Track(r) ==
    overtaken' = IF Overtakes(r) THEN overtaken \cup {req[r].item}
                 ELSE IF req[r].cancelled THEN overtaken
                 ELSE overtaken \ {req[r].item}

Ready(c) == \A b \in Requires[c] : cp[b] = "PrepareCompleted"

(* DeviceState.Prepare: once begun, a claim is in the checkpoint. *)
Prepare(r) ==
    LET c == req[r].item
    IN  /\ Active(r, "locked")
        /\ req[r].kind = "prepare"
        /\ lock' = None
        /\ IF cp[c] = "PrepareCompleted" \/ Ready(c)
           THEN /\ cp' = [cp EXCEPT ![c] = "PrepareCompleted"]
                /\ Done(r, "ok")
           ELSE /\ cp' = [cp EXCEPT ![c] = "PrepareStarted"]
                /\ Retry(r, {c})
        /\ Track(r)
        /\ UNCHANGED <<kubelet, faults>>

Unprepare(r) ==
    /\ Active(r, "locked")
    /\ req[r].kind = "unprepare"
    /\ lock' = None
    /\ cp' = [cp EXCEPT ![req[r].item] = "none"]
    /\ Done(r, "ok")
    /\ Track(r)
    /\ UNCHANGED <<kubelet, faults>>

(* Mutant: the lock stays taken when an attempt fails. *)
AttemptFailsLocked(r) ==
    /\ Active(r, "locked")
    /\ faults < MaxFaults
    /\ faults' = faults + 1
    /\ Done(r, "error") \/ Retry(r, {req[r].item})
    /\ UNCHANGED <<kubelet, lock, cp, overtaken>>

(* Prepare or Unprepare fails: for good (permanentError), or to be tried   *)
(* again.                                                                  *)
AttemptFails(r) ==
    /\ Active(r, "locked")
    /\ faults < MaxFaults
    /\ faults' = faults + 1
    /\ lock' = None
    /\ Done(r, "error") \/ Retry(r, {req[r].item})
    /\ UNCHANGED <<kubelet, cp, overtaken>>

(* The plugin is killed: the kernel releases its lock. *)
Crash ==
    /\ faults < MaxFaults
    /\ faults' = faults + 1
    /\ req' = [r \in Slots |-> NoRequest]
    /\ lock' = None
    /\ UNCHANGED <<kubelet, cp, overtaken>>

-----------------------------------------------------------------------------
Serve(r) ==
    \/ Returns(r)
    \/ \E c \in Claims : Get(r, c)
    \/ GetShutdown(r)
    \/ Acquire(r)
    \/ AcquireFails(r)
    \/ Prepare(r)
    \/ Unprepare(r)

Next ==
    \/ \E p \in Pods :
         \/ PodStarts(p)
         \/ PodEnds(p)
         \/ KubeletGivesUp(p)
         \/ \E r \in Slots : Call(p, r)
    \/ \E r \in Slots :
         \/ Serve(r)
         \/ Deadline(r)
         \/ AllDone(r)
         \/ AttemptFails(r)
    \/ Crash

Spec == Init /\ [][Next]_vars

(* The kubelet starts the pods and calls until it succeeds, the goroutines *)
(* run and timers fire.  Who waits for the lock gets it in the end: it is  *)
(* free most of the time.                                                  *)
Fairness ==
    /\ \A p \in Pods :
         /\ WF_vars(PodStarts(p))
         /\ WF_vars(\E r \in Slots : Call(p, r))
    /\ \A r \in Slots :
         /\ WF_vars(Serve(r))
         /\ WF_vars(Deadline(r))
         /\ WF_vars(AllDone(r))
         /\ SF_vars(Acquire(r))

FairSpec == Spec /\ Fairness

-----------------------------------------------------------------------------
(* Properties *)

(* What the kubelet was told is true, whatever the order of requests,      *)
(* retries, crashes and cancelled calls: claims of a running pod are       *)
(* prepared, and those of a pod that is gone are not, unless a cancelled   *)
(* request was so late that it came after the next one had returned.       *)
ResponsesTrue ==
    \A p \in Pods : \A c \in ClaimsOf[p] \ overtaken :
        /\ kubelet[p] = "running" => cp[c] = "PrepareCompleted"
        /\ kubelet[p] = "idle" => cp[c] = "none"

(* The strengthening under which ResponsesTrue is inductive.  The lock is  *)
(* held by who is between Acquire and its release; an item is queued until *)
(* it has a result, and while it is worked on; the kubelet waits for one   *)
(* request per pod, of the kind its phase calls for; and a good result of  *)
(* that request still holds, unless a cancelled one came after it.         *)
LockInv == \A r \in Slots : lock = r <=> Active(r, "locked")

WellQueued(x) ==
    /\ \A c \in Claims :
         /\ ~x.queue[c]["older"]
         /\ x.queue[c]["latest"] =>
              c \in ClaimsOf[x.pod] /\ x.results[c] = "none"
    /\ x.at \in {"acquire", "locked"} =>
         x.item \in Claims /\ x.queue[x.item]["latest"]

QueueInv == \A r \in Slots : req[r].kind # "none" => WellQueued(req[r])

CallInv ==
    \A p \in Pods :
        /\ \A r, s \in Awaited(p) : r = s
        /\ \A r \in Awaited(p) :
             kubelet[p] = IF req[r].kind = "prepare" THEN "preparing"
                          ELSE "unpreparing"

ResultsKept ==
    \A p \in Pods : \A r \in Awaited(p), c \in ClaimsOf[p] \ overtaken :
        req[r].results[c] = "ok" =>
            cp[c] = IF req[r].kind = "prepare" THEN "PrepareCompleted"
                    ELSE "none"

RequestInv ==
    /\ TypeOK
    /\ LockInv
    /\ QueueInv
    /\ CallInv
    /\ ResultsKept
    /\ ResponsesTrue

(* Every request is answered, also one that waits for a pod which does not *)
(* come, or for a lock that others have.                                   *)
Responds ==
    \A r \in Slots : req[r].kind # "none" ~> req[r].kind = "none"

(* Requests that depend on each other do not wait for each other for ever: *)
(* pods that stay are all running in the end.                              *)
AllRun ==
    <>[](\A p \in Pods : kubelet[p] \in {"preparing", "running"}) =>
        <>[](\A p \in Pods : kubelet[p] = "running")

=============================================================================
