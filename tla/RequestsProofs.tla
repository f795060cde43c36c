--------------------------- MODULE RequestsProofs ---------------------------
(***************************************************************************)
(* Proofs about Requests for every set of pods and claims, every number of *)
(* concurrent requests and of faults: the file lock excludes, and what the *)
(* kubelet was told is true.                                               *)
(***************************************************************************)
EXTENDS Requests, TLAPS

-----------------------------------------------------------------------------
(* The queue of one claim *)

(* A record of flags is a function. *)
LEMMA BooleanFunction ==
    ASSUME NEW S, NEW f, DOMAIN f = S, f = [i \in DOMAIN f |-> f[i]],
           \A i \in S : f[i] \in BOOLEAN
    PROVE  f \in [S -> BOOLEAN]
<1>1. f = [i \in S |-> f[i]]
  OBVIOUS
<1> QED
  BY <1>1, Zenon

(* What the operators on queues do to the newest and to older items. *)
LEMMA QueueOps ==
    /\ NewQueue \in Queue
    /\ ~NewQueue["latest"] /\ ~NewQueue["older"]
    /\ Enqueue(NewQueue) \in Queue
    /\ Enqueue(NewQueue)["latest"] /\ ~Enqueue(NewQueue)["older"]
    /\ \A q \in Queue :
         /\ Succeeded(q, "latest") \in Queue
         /\ ~Succeeded(q, "latest")["latest"]
         /\ Succeeded(q, "latest")["older"] = q["older"]
         /\ Failed(q, "latest") \in Queue
         /\ Failed(q, "latest")["older"] = q["older"]
<1>1. /\ NewQueue \in Queue
      /\ ~NewQueue["latest"] /\ ~NewQueue["older"]
  <2>1. DOMAIN NewQueue = Item \cup {"active"}
    BY DEF NewQueue, Item
  <2>2. NewQueue = [i \in DOMAIN NewQueue |-> NewQueue[i]]
    BY DEF NewQueue
  <2>3. /\ NewQueue["latest"] = FALSE /\ NewQueue["older"] = FALSE
        /\ NewQueue["active"] = FALSE
    BY Zenon DEF NewQueue
  <2>4. \A i \in Item \cup {"active"} : NewQueue[i] \in BOOLEAN
    BY <2>3, Zenon DEF Item
  <2> QED
    BY <2>1, <2>2, <2>3, <2>4, BooleanFunction DEF Queue
<1>2. /\ Enqueue(NewQueue) \in Queue
      /\ Enqueue(NewQueue)["latest"] /\ ~Enqueue(NewQueue)["older"]
  <2> DEFINE q == Enqueue(NewQueue)
  <2>1. DOMAIN q = Item \cup {"active"}
    BY DEF Enqueue, Item
  <2>2. q = [i \in DOMAIN q |-> q[i]]
    BY DEF Enqueue
  <2>3. /\ q["latest"] = TRUE /\ q["older"] = (FALSE \/ FALSE)
        /\ q["active"] = TRUE
    BY Zenon DEF Enqueue, NewQueue
  <2>4. \A i \in Item \cup {"active"} : q[i] \in BOOLEAN
    BY <2>3, Zenon DEF Item
  <2> HIDE DEF q
  <2>5. q \in Queue
    BY <2>1, <2>2, <2>4, BooleanFunction DEF Queue
  <2> QED
    BY <2>3, <2>5 DEF q
<1>3. ASSUME NEW q \in Queue
      PROVE  /\ Succeeded(q, "latest") \in Queue
             /\ ~Succeeded(q, "latest")["latest"]
             /\ Succeeded(q, "latest")["older"] = q["older"]
  BY DEF Succeeded, Queue, Item
<1>4. ASSUME NEW q \in Queue
      PROVE  /\ Failed(q, "latest") \in Queue
             /\ Failed(q, "latest")["older"] = q["older"]
  BY DEF Failed, Queue, Item
<1> QED
  BY <1>1, <1>2, <1>3, <1>4

-----------------------------------------------------------------------------
(* What a step does to the request it is about *)

(* The same call of the kubelet, answered or cancelled alike. *)
SameCall(x, y) ==
    x.kind = y.kind /\ x.pod = y.pod /\ x.cancelled = y.cancelled

(* The types of a request's parts. *)
LEMMA RequestFields ==
    ASSUME TypeOK, NEW r \in Slots
    PROVE  /\ req[r] \in Request
           /\ req[r].queue \in [Claims -> Queue]
           /\ req[r].results \in [Claims -> Result]
           /\ req[r].tried \in SUBSET Claims
           /\ req[r].pod \in Pods
           /\ AfterItem(r) \in {"get", "return"}
BY DEF TypeOK, Request, AfterItem

(* A request that does not exist. *)
LEMMA NoRequestType == NoRequest \in Request /\ NoRequest.kind = "none"
<1>1. (CHOOSE p \in Pods : TRUE) \in Pods
  BY RequestsAssumption
<1>2. [c \in Claims |-> NewQueue] \in [Claims -> Queue]
  BY QueueOps
<1>3. [c \in Claims |-> "none"] \in [Claims -> Result]
  BY DEF Result
<1> QED
  BY <1>1, <1>2, <1>3 DEF NoRequest, Request

(* The item is done. *)
LEMMA DoneFacts ==
    ASSUME TypeOK, NEW r \in Slots, req[r].item \in Claims,
           NEW result \in Result, Done(r, result)
    PROVE  /\ req' \in [Slots -> Request]
           /\ \A s \in Slots \ {r} : req'[s] = req[s]
           /\ SameCall(req'[r], req[r])
           /\ req'[r].at \in {"get", "return"}
           /\ req'[r].results = [req[r].results EXCEPT ![req[r].item] = result]
           /\ req'[r].queue = [req[r].queue EXCEPT ![req[r].item] =
                                 Succeeded(@, "latest")]
<1> DEFINE c == req[r].item
           newQueue == [req[r].queue EXCEPT ![c] = Succeeded(@, "latest")]
           newResults == [req[r].results EXCEPT ![c] = result]
           x == [req[r] EXCEPT !.at = AfterItem(r), !.item = None,
                               !.results = newResults, !.queue = newQueue]
<1>a. req \in [Slots -> Request] /\ req[r] \in Request
  BY DEF TypeOK
<1>b. /\ req[r].queue \in [Claims -> Queue]
      /\ req[r].results \in [Claims -> Result]
      /\ AfterItem(r) \in {"get", "return"}
  BY RequestFields
<1>1. newQueue \in [Claims -> Queue] /\ newResults \in [Claims -> Result]
  BY <1>b, QueueOps
<1>2. req' = [req EXCEPT ![r].at = AfterItem(r), ![r].item = None,
                         ![r].results = newResults, ![r].queue = newQueue]
  BY <1>a DEF Done, Request
<1> HIDE DEF newQueue, newResults
<1>3. req' = [req EXCEPT ![r] = x]
  BY <1>a, <1>2
<1>4. x \in Request
  BY <1>a, <1>b, <1>1 DEF Request
<1>5. /\ SameCall(x, req[r]) /\ x.at = AfterItem(r)
      /\ x.results = newResults /\ x.queue = newQueue
  BY <1>a DEF Request, SameCall
<1> HIDE DEF x
<1>6. req'[r] = x /\ req' \in [Slots -> Request]
      /\ \A s \in Slots \ {r} : req'[s] = req[s]
  BY <1>a, <1>3, <1>4
<1> QED
  BY <1>b, <1>5, <1>6 DEF newQueue, newResults

(* The item is queued again. *)
LEMMA RetryFacts ==
    ASSUME TypeOK, NEW r \in Slots, req[r].item \in Claims,
           NEW tried \in SUBSET Claims, Retry(r, tried)
    PROVE  /\ req' \in [Slots -> Request]
           /\ \A s \in Slots \ {r} : req'[s] = req[s]
           /\ SameCall(req'[r], req[r])
           /\ req'[r].at \in {"get", "return"}
           /\ req'[r].results = req[r].results
           /\ req'[r].queue = [req[r].queue EXCEPT ![req[r].item] =
                                 Failed(@, "latest")]
<1> DEFINE c == req[r].item
           newQueue == [req[r].queue EXCEPT ![c] = Failed(@, "latest")]
           newTried == IF req[r].done THEN {} ELSE req[r].tried \cup tried
           x == [req[r] EXCEPT !.at = AfterItem(r), !.item = None,
                               !.tried = newTried, !.queue = newQueue]
<1>a. req \in [Slots -> Request] /\ req[r] \in Request
  BY DEF TypeOK
<1>b. /\ req[r].queue \in [Claims -> Queue]
      /\ req[r].tried \in SUBSET Claims
      /\ AfterItem(r) \in {"get", "return"}
  BY RequestFields
<1>1. newQueue \in [Claims -> Queue] /\ newTried \in SUBSET Claims
  BY <1>b, QueueOps
<1>2. req' = [req EXCEPT ![r].at = AfterItem(r), ![r].item = None,
                         ![r].tried = newTried, ![r].queue = newQueue]
  BY <1>a DEF Retry, Request
<1> HIDE DEF newQueue, newTried
<1>3. req' = [req EXCEPT ![r] = x]
  BY <1>a, <1>2
<1>4. x \in Request
  BY <1>a, <1>b, <1>1 DEF Request
<1>5. /\ SameCall(x, req[r]) /\ x.at = AfterItem(r)
      /\ x.results = req[r].results /\ x.queue = newQueue
  BY <1>a DEF Request, SameCall
<1> HIDE DEF x
<1>6. req'[r] = x /\ req' \in [Slots -> Request]
      /\ \A s \in Slots \ {r} : req'[s] = req[s]
  BY <1>a, <1>3, <1>4
<1> QED
  BY <1>b, <1>5, <1>6 DEF newQueue

(* The worker goes on, or the context ends: the call, its items and their  *)
(* results stay.                                                           *)
LEMMA FieldFacts ==
    ASSUME TypeOK, NEW r \in Slots,
           \/ \E at \in {"get", "acquire", "locked", "return"} : Goto(r, at)
           \/ \E c \in Claims :
                req' = [req EXCEPT ![r].at = "acquire", ![r].item = c]
           \/ req' = [req EXCEPT ![r].done = TRUE, ![r].tried = {}]
    PROVE  /\ req' \in [Slots -> Request]
           /\ \A s \in Slots \ {r} : req'[s] = req[s]
           /\ SameCall(req'[r], req[r])
           /\ req'[r].results = req[r].results
           /\ req'[r].queue = req[r].queue
<1>a. req \in [Slots -> Request] /\ req[r] \in Request
  BY DEF TypeOK
<1>1. \E x \in Request :
        /\ req' = [req EXCEPT ![r] = x]
        /\ SameCall(x, req[r])
        /\ x.results = req[r].results /\ x.queue = req[r].queue
  <2>1. ASSUME NEW at \in {"get", "acquire", "locked", "return"}, Goto(r, at)
        PROVE  <1>1!:
    <3> DEFINE x == [req[r] EXCEPT !.at = at]
    <3>1. x \in Request /\ SameCall(x, req[r])
          /\ x.results = req[r].results /\ x.queue = req[r].queue
      BY <1>a DEF Request, SameCall
    <3>2. req' = [req EXCEPT ![r] = x]
      BY <2>1 DEF Goto
    <3> QED
      BY <3>1, <3>2
  <2>2. ASSUME NEW c \in Claims,
               req' = [req EXCEPT ![r].at = "acquire", ![r].item = c]
        PROVE  <1>1!:
    <3> DEFINE x == [req[r] EXCEPT !.at = "acquire", !.item = c]
    <3>1. x \in Request /\ SameCall(x, req[r])
          /\ x.results = req[r].results /\ x.queue = req[r].queue
      BY <1>a DEF Request, SameCall
    <3>2. req' = [req EXCEPT ![r] = x]
      BY <1>a, <2>2
    <3> QED
      BY <3>1, <3>2
  <2>3. ASSUME req' = [req EXCEPT ![r].done = TRUE, ![r].tried = {}]
        PROVE  <1>1!:
    <3> DEFINE x == [req[r] EXCEPT !.done = TRUE, !.tried = {}]
    <3>1. x \in Request /\ SameCall(x, req[r])
          /\ x.results = req[r].results /\ x.queue = req[r].queue
      BY <1>a DEF Request, SameCall
    <3>2. req' = [req EXCEPT ![r] = x]
      BY <1>a, <2>3
    <3> QED
      BY <3>1, <3>2
  <2> QED
    BY <2>1, <2>2, <2>3
<1> QED
  BY <1>a, <1>1

(* Cancelled calls keep their items and their results. *)
LEMMA CancelFacts ==
    ASSUME TypeOK, NEW rs \in SUBSET Slots, req' = Cancelled(rs)
    PROVE  /\ req' \in [Slots -> Request]
           /\ \A r \in Slots :
                /\ req'[r].kind = req[r].kind /\ req'[r].pod = req[r].pod
                /\ req'[r].at = req[r].at /\ req'[r].item = req[r].item
                /\ req'[r].results = req[r].results
                /\ req'[r].queue = req[r].queue
                /\ r \in rs => req'[r].cancelled
                /\ r \notin rs => req'[r].cancelled = req[r].cancelled
<1>1. ASSUME NEW r \in Slots
      PROVE  /\ req'[r] \in Request
             /\ req'[r].kind = req[r].kind /\ req'[r].pod = req[r].pod
             /\ req'[r].at = req[r].at /\ req'[r].item = req[r].item
             /\ req'[r].results = req[r].results
             /\ req'[r].queue = req[r].queue
             /\ r \in rs => req'[r].cancelled
             /\ r \notin rs => req'[r].cancelled = req[r].cancelled
  <2>a. req[r] \in Request
    BY DEF TypeOK
  <2>1. CASE r \notin rs
    BY <2>a, <2>1 DEF Cancelled
  <2>2. CASE r \in rs
    <3>1. req'[r] = [req[r] EXCEPT !.cancelled = TRUE, !.done = TRUE,
                                   !.tried = {}]
      BY <2>2 DEF Cancelled
    <3> QED
      BY <2>a, <2>2, <3>1 DEF Request
  <2> QED
    BY <2>1, <2>2
<1>2. req' = [r \in Slots |-> req'[r]]
  BY DEF Cancelled
<1> QED
  BY <1>1, <1>2

-----------------------------------------------------------------------------
(* Items and results *)

(* An item that is done is no longer queued, and has its result. *)
LEMMA DoneQueue ==
    ASSUME RequestInv, NEW r \in Slots, req[r].kind # "none",
           req[r].at \in {"acquire", "locked"},
           NEW result \in Result, Done(r, result)
    PROVE  WellQueued(req'[r])
<1> DEFINE c == req[r].item
<1>a. TypeOK /\ WellQueued(req[r])
  BY DEF RequestInv, QueueInv
<1>b. c \in Claims
  BY <1>a DEF WellQueued
<1>c. req[r].queue \in [Claims -> Queue] /\ req[r].results \in [Claims -> Result]
  BY <1>a, RequestFields
<1>1. /\ SameCall(req'[r], req[r])
      /\ req'[r].at \in {"get", "return"}
      /\ req'[r].results = [req[r].results EXCEPT ![c] = result]
      /\ req'[r].queue = [req[r].queue EXCEPT ![c] = Succeeded(@, "latest")]
  BY <1>a, <1>b, DoneFacts
<1>2. \A d \in Claims \ {c} : /\ req'[r].queue[d] = req[r].queue[d]
                              /\ req'[r].results[d] = req[r].results[d]
  BY <1>1, <1>c
<1>3. ~req'[r].queue[c]["latest"] /\ ~req'[r].queue[c]["older"]
  <2>1. req[r].queue[c] \in Queue
    BY <1>b, <1>c
  <2>2. req'[r].queue[c] = Succeeded(req[r].queue[c], "latest")
    BY <1>1, <1>b, <1>c
  <2>3. ~req[r].queue[c]["older"]
    BY <1>a, <1>b DEF WellQueued
  <2> QED
    BY <2>1, <2>2, <2>3, QueueOps
<1> QED
  BY <1>a, <1>1, <1>2, <1>3 DEF WellQueued, SameCall

(* An item that is queued again has no result yet. *)
LEMMA RetryQueue ==
    ASSUME RequestInv, NEW r \in Slots, req[r].kind # "none",
           req[r].at \in {"acquire", "locked"},
           NEW tried \in SUBSET Claims, Retry(r, tried)
    PROVE  WellQueued(req'[r])
<1> DEFINE c == req[r].item
<1>a. TypeOK /\ WellQueued(req[r])
  BY DEF RequestInv, QueueInv
<1>b. c \in Claims
  BY <1>a DEF WellQueued
<1>c. req[r].queue \in [Claims -> Queue]
  BY <1>a, RequestFields
<1>1. /\ SameCall(req'[r], req[r])
      /\ req'[r].at \in {"get", "return"}
      /\ req'[r].results = req[r].results
      /\ req'[r].queue = [req[r].queue EXCEPT ![c] = Failed(@, "latest")]
  BY <1>a, <1>b, RetryFacts
<1>2. \A d \in Claims \ {c} : req'[r].queue[d] = req[r].queue[d]
  BY <1>1, <1>c
<1>3. ~req'[r].queue[c]["older"]
  <2>1. req[r].queue[c] \in Queue
    BY <1>b, <1>c
  <2>2. req'[r].queue[c] = Failed(req[r].queue[c], "latest")
    BY <1>1, <1>b, <1>c
  <2>3. ~req[r].queue[c]["older"]
    BY <1>a, <1>b DEF WellQueued
  <2> QED
    BY <2>1, <2>2, <2>3, QueueOps
<1>4. c \in ClaimsOf[req[r].pod] /\ req[r].results[c] = "none"
  BY <1>a, <1>b DEF WellQueued
<1> QED
  BY <1>a, <1>1, <1>2, <1>3, <1>4 DEF WellQueued, SameCall

(* The invariants about what the kubelet was told. *)
ToldInv == QueueInv /\ CallInv /\ ResultsKept /\ ResponsesTrue

(* A step that tells the kubelet nothing, changes no claim and adds no     *)
(* good result keeps them.                                                 *)
LEMMA QuietKeeps ==
    ASSUME RequestInv, NEW r \in Slots,
           req' \in [Slots -> Request],
           \A s \in Slots \ {r} : req'[s] = req[s],
           SameCall(req'[r], req[r]),
           req[r].kind # "none" => WellQueued(req'[r]),
           \A c \in Claims :
              req'[r].results[c] = "ok" => req[r].results[c] = "ok",
           UNCHANGED <<kubelet, cp, overtaken>>
    PROVE  ToldInv'
<1>a. QueueInv /\ CallInv /\ ResultsKept /\ ResponsesTrue
  BY DEF RequestInv
<1>1. \A s \in Slots : SameCall(req'[s], req[s])
  BY DEF SameCall
<1>2. \A p \in Pods : Awaited(p)' = Awaited(p)
  BY <1>1 DEF Awaited, SameCall
<1>3. QueueInv'
  <2> SUFFICES ASSUME NEW s \in Slots, req'[s].kind # "none"
               PROVE  WellQueued(req'[s])
    BY DEF QueueInv, WellQueued
  <2>1. req[s].kind # "none"
    BY <1>1 DEF SameCall
  <2>2. CASE s = r
    BY <2>1, <2>2
  <2>3. CASE s # r
    BY <1>a, <2>1, <2>3 DEF QueueInv
  <2> QED
    BY <2>2, <2>3
<1>4. CallInv'
  BY <1>a, <1>1, <1>2 DEF CallInv, SameCall, Awaited
<1>5. ResultsKept'
  <2> SUFFICES ASSUME NEW p \in Pods, NEW s \in Awaited(p)',
                      NEW c \in ClaimsOf[p] \ overtaken',
                      req'[s].results[c] = "ok"
               PROVE  cp'[c] = IF req'[s].kind = "prepare"
                               THEN "PrepareCompleted" ELSE "none"
    BY DEF ResultsKept
  <2>1. s \in Awaited(p) /\ s \in Slots /\ c \in Claims
    BY <1>2, RequestsAssumption DEF Awaited
  <2>2. req[s].results[c] = "ok" /\ req'[s].kind = req[s].kind
    BY <1>1, <2>1 DEF SameCall
  <2> QED
    BY <1>a, <2>1, <2>2 DEF ResultsKept
<1>6. ResponsesTrue'
  BY <1>a DEF ResponsesTrue
<1> QED
  BY <1>3, <1>4, <1>5, <1>6 DEF ToldInv

(* An attempt that has done its work, of a request the kubelet waits for   *)
(* or of one it has given up, keeps them.                                  *)
LEMMA WorkKeeps ==
    ASSUME RequestInv, NEW r \in Slots, Active(r, "locked"),
           \/ /\ Done(r, "ok")
              /\ cp' = [cp EXCEPT ![req[r].item] =
                          IF req[r].kind = "prepare" THEN "PrepareCompleted"
                          ELSE "none"]
           \/ /\ Retry(r, {req[r].item})
              /\ req[r].kind = "prepare"
              /\ cp[req[r].item] # "PrepareCompleted"
              /\ cp' = [cp EXCEPT ![req[r].item] = "PrepareStarted"],
           Track(r), UNCHANGED kubelet
    PROVE  ToldInv'
<1> DEFINE c == req[r].item
           p == req[r].pod
           good == IF req[r].kind = "prepare" THEN "PrepareCompleted"
                   ELSE "none"
<1>a. TypeOK /\ QueueInv /\ CallInv /\ ResultsKept /\ ResponsesTrue
  BY DEF RequestInv
<1>b. /\ WellQueued(req[r]) /\ req[r].kind \in {"prepare", "unprepare"}
      /\ p \in Pods
  BY <1>a DEF Active, QueueInv, TypeOK, Request
<1>c. c \in Claims /\ c \in ClaimsOf[p] /\ req[r].results[c] = "none"
  BY <1>b DEF WellQueued, Active
<1>d. cp \in [Claims -> {"none", "PrepareStarted", "PrepareCompleted"}]
      /\ req[r].results \in [Claims -> Result]
  BY <1>a, RequestFields DEF TypeOK
<1>e. {c} \in SUBSET Claims /\ "ok" \in Result
  BY <1>c DEF Result
<1>1. /\ req' \in [Slots -> Request]
      /\ \A s \in Slots \ {r} : req'[s] = req[s]
      /\ SameCall(req'[r], req[r])
      /\ WellQueued(req'[r])
      /\ \A d \in Claims \ {c} : req'[r].results[d] = req[r].results[d]
  <2>1. CASE Done(r, "ok")
    BY <1>a, <1>b, <1>c, <1>d, <1>e, <2>1, DoneFacts, DoneQueue DEF Active
  <2>2. CASE Retry(r, {c})
    BY <1>a, <1>b, <1>c, <1>e, <2>2, RetryFacts, RetryQueue DEF Active
  <2> QED
    BY <2>1, <2>2
<1>2. \/ cp'[c] = good
      \/ /\ req[r].kind = "prepare"
         /\ cp[c] # "PrepareCompleted"
         /\ req'[r].results[c] = "none"
  <2>1. CASE Done(r, "ok") /\ cp' = [cp EXCEPT ![c] = good]
    BY <1>c, <1>d, <2>1
  <2>2. CASE Retry(r, {c}) /\ req[r].kind = "prepare"
             /\ cp[c] # "PrepareCompleted"
    BY <1>a, <1>c, <1>e, <2>2, RetryFacts
  <2> QED
    BY <2>1, <2>2
<1>3. \A d \in Claims \ {c} : cp'[d] = cp[d]
  BY <1>c, <1>d
<1>4. \A s \in Slots : SameCall(req'[s], req[s])
  BY <1>1 DEF SameCall
<1>5. \A q \in Pods : Awaited(q)' = Awaited(q)
  BY <1>4 DEF Awaited, SameCall
<1>6. /\ \A d \in Claims \ {c} : d \in overtaken' <=> d \in overtaken
      /\ req[r].cancelled /\ c \notin overtaken' =>
           c \notin overtaken /\ ~Overtakes(r)
  BY DEF Track
<1>7. \A q \in Pods : c \in ClaimsOf[q] => q = p
  BY <1>b, <1>c, RequestsAssumption
<1>8. ~req[r].cancelled => r \in Awaited(p)
  BY <1>b DEF Awaited
<1>q. QueueInv'
  <2> SUFFICES ASSUME NEW s \in Slots, req'[s].kind # "none"
               PROVE  WellQueued(req'[s])
    BY DEF QueueInv, WellQueued
  <2> QED
    BY <1>a, <1>1 DEF QueueInv
<1>r. CallInv'
  BY <1>a, <1>4, <1>5 DEF CallInv, SameCall, Awaited
<1>s. ResultsKept'
  <2> SUFFICES ASSUME NEW q \in Pods, NEW s \in Awaited(q)',
                      NEW d \in ClaimsOf[q] \ overtaken',
                      req'[s].results[d] = "ok"
               PROVE  cp'[d] = IF req'[s].kind = "prepare"
                               THEN "PrepareCompleted" ELSE "none"
    BY DEF ResultsKept
  <2>1. /\ s \in Awaited(q) /\ s \in Slots /\ d \in Claims
        /\ req'[s].kind = req[s].kind
    BY <1>4, <1>5, RequestsAssumption DEF Awaited, SameCall
  <2>2. CASE d # c
    <3>1. req[s].results[d] = "ok" /\ d \notin overtaken /\ cp'[d] = cp[d]
      BY <1>1, <1>3, <1>6, <2>1, <2>2
    <3> QED
      BY <1>a, <2>1, <3>1 DEF ResultsKept
  <2>3. CASE d = c /\ s = r
    BY <1>2, <2>1, <2>3
  <2>4. CASE d = c /\ s # r
    <3>1. q = p /\ req[s].results[c] = "ok"
      BY <1>1, <1>7, <2>1, <2>4
    <3>2. req[r].cancelled
      BY <1>a, <1>8, <1>b, <2>1, <2>4, <3>1 DEF CallInv
    <3>3. c \notin overtaken /\ ~Overtakes(r)
      BY <1>6, <2>4, <3>2
    <3>4. req[s].kind = req[r].kind
      BY <2>1, <3>1, <3>2, <3>3 DEF Overtakes
    <3>5. cp[c] = good
      BY <1>a, <1>c, <2>1, <3>1, <3>3, <3>4 DEF ResultsKept
    <3> QED
      BY <1>2, <2>1, <2>4, <3>4, <3>5
  <2> QED
    BY <2>2, <2>3, <2>4
<1>t. ResponsesTrue'
  <2> SUFFICES ASSUME NEW q \in Pods, NEW d \in ClaimsOf[q] \ overtaken'
               PROVE  /\ kubelet[q] = "running" => cp'[d] = "PrepareCompleted"
                      /\ kubelet[q] = "idle" => cp'[d] = "none"
    BY DEF ResponsesTrue
  <2>1. d \in Claims
    BY RequestsAssumption
  <2>2. CASE d # c
    BY <1>a, <1>3, <1>6, <2>1, <2>2 DEF ResponsesTrue
  <2>3. CASE d = c /\ ~req[r].cancelled
    <3>1. q = p /\ r \in Awaited(p)
      BY <1>7, <1>8, <2>3
    <3>2. kubelet[q] \in {"preparing", "unpreparing"}
      BY <1>a, <1>b, <3>1 DEF CallInv
    <3> QED
      BY <3>2
  <2>4. CASE d = c /\ req[r].cancelled
    <3>1. q = p /\ c \notin overtaken /\ ~Overtakes(r)
      BY <1>6, <1>7, <2>4
    <3>2. kubelet[q] = "running" => req[r].kind = "prepare"
                                   /\ cp[c] = "PrepareCompleted"
      BY <1>a, <1>b, <1>c, <2>4, <3>1 DEF Overtakes, ResponsesTrue
    <3>3. kubelet[q] = "idle" => req[r].kind = "unprepare"
      BY <1>b, <2>4, <3>1 DEF Overtakes
    <3> QED
      BY <1>2, <2>4, <3>2, <3>3
  <2> QED
    BY <2>2, <2>3, <2>4
<1> QED
  BY <1>q, <1>r, <1>s, <1>t DEF ToldInv

(* Calls that the kubelet gives up keep them, also when it wants the       *)
(* opposite from now on.                                                   *)
LEMMA CancelKeeps ==
    ASSUME RequestInv, NEW p \in Pods, req' = Cancelled(Awaited(p)),
           UNCHANGED <<cp, overtaken>>,
           \/ UNCHANGED kubelet
           \/ kubelet' = [kubelet EXCEPT ![p] = "unpreparing"]
    PROVE  ToldInv'
<1>a. TypeOK /\ QueueInv /\ CallInv /\ ResultsKept /\ ResponsesTrue
  BY DEF RequestInv
<1>b. kubelet \in [Pods -> Phase] /\ Awaited(p) \in SUBSET Slots
  BY <1>a DEF TypeOK, Awaited
<1>1. \A r \in Slots :
        /\ req'[r].kind = req[r].kind /\ req'[r].pod = req[r].pod
        /\ req'[r].at = req[r].at /\ req'[r].item = req[r].item
        /\ req'[r].results = req[r].results /\ req'[r].queue = req[r].queue
        /\ r \in Awaited(p) => req'[r].cancelled
        /\ r \notin Awaited(p) => req'[r].cancelled = req[r].cancelled
  BY <1>a, <1>b, CancelFacts
<1>2. Awaited(p)' = {} /\ \A q \in Pods : Awaited(q)' \subseteq Awaited(q)
  BY <1>1 DEF Awaited
<1>3. \A q \in Pods \ {p} : kubelet'[q] = kubelet[q]
  BY <1>b
<1>4. QueueInv'
  BY <1>a, <1>1 DEF QueueInv, WellQueued
<1>5. CallInv'
  <2> SUFFICES ASSUME NEW q \in Pods
               PROVE  /\ \A r, s \in Awaited(q)' : r = s
                      /\ \A r \in Awaited(q)' :
                           kubelet'[q] = IF req'[r].kind = "prepare"
                                         THEN "preparing" ELSE "unpreparing"
    BY DEF CallInv
  <2>1. CASE q = p
    BY <1>2, <2>1
  <2>2. CASE q # p
    <3>1. kubelet'[q] = kubelet[q] /\ \A r \in Awaited(q) : r \in Slots
      BY <1>3, <2>2 DEF Awaited
    <3>2. \A r \in Awaited(q)' : r \in Awaited(q) /\ req'[r].kind = req[r].kind
      BY <1>1, <1>2, <3>1
    <3> QED
      BY <1>a, <3>1, <3>2 DEF CallInv
  <2> QED
    BY <2>1, <2>2
<1>6. ResultsKept'
  <2> SUFFICES ASSUME NEW q \in Pods, NEW s \in Awaited(q)',
                      NEW d \in ClaimsOf[q] \ overtaken',
                      req'[s].results[d] = "ok"
               PROVE  cp'[d] = IF req'[s].kind = "prepare"
                               THEN "PrepareCompleted" ELSE "none"
    BY DEF ResultsKept
  <2>1. s \in Awaited(q) /\ s \in Slots
    BY <1>2 DEF Awaited
  <2>2. req'[s].kind = req[s].kind /\ req[s].results[d] = "ok"
    BY <1>1, <2>1
  <2> QED
    BY <1>a, <2>1, <2>2 DEF ResultsKept
<1>7. ResponsesTrue'
  <2>1. \A q \in Pods : kubelet'[q] = kubelet[q] \/ kubelet'[q] = "unpreparing"
    BY <1>b
  <2> QED
    BY <1>a, <2>1 DEF ResponsesTrue
<1> QED
  BY <1>4, <1>5, <1>6, <1>7 DEF ToldInv

(* A call with fresh items, none of which has a result, keeps them. *)
LEMMA CallKeeps ==
    ASSUME RequestInv, NEW p \in Pods, NEW r \in Slots, Call(p, r)
    PROVE  ToldInv' /\ req' \in [Slots -> Request]
           /\ ~Active(r, "locked") /\ ~Active(r, "locked")'
           /\ \A s \in Slots \ {r} : req'[s] = req[s]
<1> DEFINE fresh == [c \in Claims |-> IF c \in ClaimsOf[p]
                                      THEN Enqueue(NewQueue) ELSE NewQueue]
           kind == IF kubelet[p] = "preparing" THEN "prepare" ELSE "unprepare"
           x == [NoRequest EXCEPT !.kind = kind, !.pod = p, !.queue = fresh]
<1>a. TypeOK /\ QueueInv /\ CallInv /\ ResultsKept /\ ResponsesTrue
  BY DEF RequestInv
<1>b. req \in [Slots -> Request]
  BY <1>a DEF TypeOK
<1>c. /\ kubelet[p] \in {"preparing", "unpreparing"} /\ Awaited(p) = {}
      /\ req[r].kind = "none"
      /\ UNCHANGED <<kubelet, lock, cp, overtaken, faults>>
  BY DEF Call, Serves
<1>1. fresh \in [Claims -> Queue]
  BY QueueOps
<1>2. \A c \in Claims : /\ ~fresh[c]["older"]
                        /\ fresh[c]["latest"] => c \in ClaimsOf[p]
  BY QueueOps
<1>3. req' = [req EXCEPT ![r] = x]
  BY DEF Call
<1> HIDE DEF fresh
<1>4. x \in Request
  BY <1>1, NoRequestType DEF Request
<1>5. /\ x.kind = kind /\ x.pod = p /\ x.queue = fresh /\ x.at = "get"
      /\ ~x.cancelled /\ x.results = [c \in Claims |-> "none"]
  BY DEF NoRequest
<1> HIDE DEF x
<1>6. req'[r] = x /\ req' \in [Slots -> Request]
      /\ \A s \in Slots \ {r} : req'[s] = req[s]
  BY <1>b, <1>3, <1>4
<1>7. Awaited(p)' = {r} /\ \A q \in Pods \ {p} : Awaited(q)' = Awaited(q)
  <2>1. \A s \in Slots : s \in Awaited(p)' <=> s = r
    BY <1>c, <1>5, <1>6 DEF Awaited
  <2>2. \A q \in Pods \ {p}, s \in Slots : s \in Awaited(q)' <=> s \in Awaited(q)
    BY <1>c, <1>5, <1>6 DEF Awaited
  <2>3. \A q \in Pods : Awaited(q) \subseteq Slots /\ Awaited(q)' \subseteq Slots
    BY DEF Awaited
  <2> QED
    BY <2>1, <2>2, <2>3
<1>8. QueueInv'
  <2>1. WellQueued(x)
    BY <1>2, <1>5 DEF WellQueued
  <2> SUFFICES ASSUME NEW s \in Slots, req'[s].kind # "none"
               PROVE  WellQueued(req'[s])
    BY DEF QueueInv, WellQueued
  <2> QED
    BY <1>a, <1>6, <2>1 DEF QueueInv
<1>9. CallInv'
  <2> SUFFICES ASSUME NEW q \in Pods
               PROVE  /\ \A s, t \in Awaited(q)' : s = t
                      /\ \A s \in Awaited(q)' :
                           kubelet'[q] = IF req'[s].kind = "prepare"
                                         THEN "preparing" ELSE "unpreparing"
    BY DEF CallInv
  <2>1. CASE q = p
    BY <1>c, <1>5, <1>6, <1>7, <2>1
  <2>2. CASE q # p
    <3>1. \A s \in Awaited(q) : s \in Slots \ {r}
      BY <1>c DEF Awaited
    <3> QED
      BY <1>a, <1>c, <1>6, <1>7, <2>2, <3>1 DEF CallInv
  <2> QED
    BY <2>1, <2>2
<1>10. ResultsKept'
  <2> SUFFICES ASSUME NEW q \in Pods, NEW s \in Awaited(q)',
                      NEW d \in ClaimsOf[q] \ overtaken',
                      req'[s].results[d] = "ok"
               PROVE  cp'[d] = IF req'[s].kind = "prepare"
                               THEN "PrepareCompleted" ELSE "none"
    BY DEF ResultsKept
  <2>1. d \in Claims
    BY RequestsAssumption
  <2>2. s # r
    BY <1>5, <1>6, <2>1
  <2>3. q # p /\ s \in Awaited(q) /\ s \in Slots
    BY <1>7, <2>2 DEF Awaited
  <2> QED
    BY <1>a, <1>c, <1>6, <2>2, <2>3 DEF ResultsKept
<1>11. ResponsesTrue'
  BY <1>a, <1>c DEF ResponsesTrue
<1> QED
  BY <1>c, <1>5, <1>6, <1>8, <1>9, <1>10, <1>11 DEF ToldInv, Active

(* The response of a request: when the kubelet hears that everything is    *)
(* done, it is.                                                            *)
LEMMA ReturnKeeps ==
    ASSUME RequestInv, NEW r \in Slots, req[r].kind # "none", Return(r),
           UNCHANGED <<cp, overtaken>>
    PROVE  ToldInv' /\ req' \in [Slots -> Request]
           /\ kubelet' \in [Pods -> Phase]
           /\ ~Active(r, "locked")'
           /\ \A s \in Slots \ {r} : req'[s] = req[s]
<1> DEFINE p == req[r].pod
           complete == \A c \in ClaimsOf[p] : req[r].results[c] = "ok"
           told == IF req[r].kind = "prepare" THEN "running" ELSE "idle"
<1>a. TypeOK /\ QueueInv /\ CallInv /\ ResultsKept /\ ResponsesTrue
  BY DEF RequestInv
<1>b. /\ req \in [Slots -> Request] /\ kubelet \in [Pods -> Phase]
      /\ p \in Pods /\ req[r].kind \in {"prepare", "unprepare"}
  BY <1>a DEF TypeOK, Request
<1>1. req' \in [Slots -> Request] /\ req'[r].kind = "none"
      /\ \A s \in Slots \ {r} : req'[s] = req[s]
  BY <1>b, NoRequestType DEF Return
<1>2. \/ /\ complete /\ ~req[r].cancelled
         /\ kubelet' = [kubelet EXCEPT ![p] = told]
      \/ UNCHANGED kubelet
  BY DEF Return
<1>3. \A q \in Pods, s \in Slots :
         s \in Awaited(q)' <=> s \in Awaited(q) /\ s # r
  BY <1>1 DEF Awaited
<1>4. QueueInv'
  <2> SUFFICES ASSUME NEW s \in Slots, req'[s].kind # "none"
               PROVE  WellQueued(req'[s])
    BY DEF QueueInv, WellQueued
  <2> QED
    BY <1>a, <1>1 DEF QueueInv
<1>5. CallInv'
  <2> SUFFICES ASSUME NEW q \in Pods, NEW s \in Awaited(q)'
               PROVE  /\ \A t \in Awaited(q)' : s = t
                      /\ kubelet'[q] = IF req'[s].kind = "prepare"
                                       THEN "preparing" ELSE "unpreparing"
    BY DEF CallInv
  <2>1. s \in Slots /\ s \in Awaited(q) /\ s # r
        /\ \A t \in Awaited(q)' : t \in Awaited(q)
    BY <1>3 DEF Awaited
  <2>2. kubelet'[q] = kubelet[q]
    <3>1. CASE ~req[r].cancelled
      <4>1. r \in Awaited(p)
        BY <1>b, <3>1 DEF Awaited
      <4>2. q # p
        BY <1>a, <1>b, <2>1, <4>1 DEF CallInv
      <4> QED
        BY <1>b, <1>2, <4>2
    <3>2. CASE req[r].cancelled
      BY <1>2, <3>2
    <3> QED
      BY <3>1, <3>2
  <2> QED
    BY <1>a, <1>1, <2>1, <2>2 DEF CallInv
<1>6. ResultsKept'
  <2> SUFFICES ASSUME NEW q \in Pods, NEW s \in Awaited(q)',
                      NEW d \in ClaimsOf[q] \ overtaken',
                      req'[s].results[d] = "ok"
               PROVE  cp'[d] = IF req'[s].kind = "prepare"
                               THEN "PrepareCompleted" ELSE "none"
    BY DEF ResultsKept
  <2>1. s \in Slots /\ s \in Awaited(q) /\ s # r
    BY <1>3 DEF Awaited
  <2> QED
    BY <1>a, <1>1, <2>1 DEF ResultsKept
<1>7. ResponsesTrue'
  <2>1. CASE UNCHANGED kubelet
    BY <1>a, <2>1 DEF ResponsesTrue
  <2>2. CASE /\ complete /\ ~req[r].cancelled
             /\ kubelet' = [kubelet EXCEPT ![p] = told]
    <3>1. r \in Awaited(p)
      BY <1>b, <2>2 DEF Awaited
    <3>2. \A d \in ClaimsOf[p] \ overtaken :
            cp[d] = IF req[r].kind = "prepare" THEN "PrepareCompleted"
                    ELSE "none"
      BY <1>a, <1>b, <2>2, <3>1 DEF ResultsKept
    <3>3. kubelet'[p] = told /\ \A q \in Pods \ {p} : kubelet'[q] = kubelet[q]
      BY <1>b, <2>2
    <3> SUFFICES ASSUME NEW q \in Pods, NEW d \in ClaimsOf[q] \ overtaken'
                 PROVE  /\ kubelet'[q] = "running" =>
                             cp'[d] = "PrepareCompleted"
                        /\ kubelet'[q] = "idle" => cp'[d] = "none"
      BY DEF ResponsesTrue
    <3>4. CASE q = p
      BY <1>b, <3>2, <3>3, <3>4
    <3>5. CASE q # p
      BY <1>a, <3>3, <3>5 DEF ResponsesTrue
    <3> QED
      BY <3>4, <3>5
  <2> QED
    BY <1>2, <2>1, <2>2
<1>8. kubelet' \in [Pods -> Phase]
  BY <1>b, <1>2 DEF Phase
<1> QED
  BY <1>1, <1>4, <1>5, <1>6, <1>7, <1>8 DEF ToldInv, Active

-----------------------------------------------------------------------------
(* The inductive invariant *)

(* The lock follows the worker of one request. *)
LEMMA LockFollows ==
    ASSUME RequestInv, NEW r \in Slots,
           \A s \in Slots \ {r} : req'[s] = req[s],
           \/ lock' = lock /\ (Active(r, "locked")' <=> Active(r, "locked"))
           \/ lock = r /\ lock' = None /\ ~Active(r, "locked")'
           \/ lock = None /\ lock' = r /\ Active(r, "locked")'
    PROVE  LockInv' /\ lock' \in Slots \cup {None}
<1>1. LockInv /\ lock \in Slots \cup {None} /\ None \notin Slots
  BY RequestsAssumption DEF RequestInv, TypeOK
<1>2. \A s \in Slots \ {r} : Active(s, "locked")' <=> Active(s, "locked")
  BY DEF Active
<1> QED
  BY <1>1, <1>2 DEF LockInv

(* Faults are counted up to their bound. *)
LEMMA FaultCount ==
    ASSUME faults \in 0 .. MaxFaults
    PROVE  /\ faults < MaxFaults /\ faults' = faults + 1 =>
                faults' \in 0 .. MaxFaults
           /\ \A usual \in BOOLEAN : InTime(usual) => faults' \in 0 .. MaxFaults
BY RequestsAssumption DEF InTime

(* No calls, no claims: the invariant holds initially. *)
LEMMA InitInv == Init => RequestInv
<1> SUFFICES ASSUME Init PROVE RequestInv
  OBVIOUS
<1>1. \A r \in Slots : req[r] = NoRequest /\ req[r].kind = "none"
  BY NoRequestType DEF Init
<1>2. TypeOK
  BY NoRequestType, RequestsAssumption DEF Init, TypeOK, Phase
<1>3. \A p \in Pods : Awaited(p) = {}
  BY <1>1 DEF Awaited
<1>4. LockInv
  BY <1>1, RequestsAssumption DEF LockInv, Active, Init
<1>5. QueueInv /\ CallInv /\ ResultsKept
  BY <1>1, <1>3 DEF QueueInv, CallInv, ResultsKept
<1>6. ResponsesTrue
  BY RequestsAssumption DEF Init, ResponsesTrue
<1> QED
  BY <1>2, <1>4, <1>5, <1>6 DEF RequestInv

(* Every step preserves it. *)
LEMMA NextInv == RequestInv /\ [Next]_vars => RequestInv'
<1> SUFFICES ASSUME RequestInv, [Next]_vars PROVE RequestInv'
  OBVIOUS
<1>a. TypeOK /\ LockInv /\ QueueInv /\ CallInv /\ ResultsKept /\ ResponsesTrue
  BY DEF RequestInv
<1>b. /\ kubelet \in [Pods -> Phase] /\ req \in [Slots -> Request]
      /\ lock \in Slots \cup {None}
      /\ cp \in [Claims -> {"none", "PrepareStarted", "PrepareCompleted"}]
      /\ overtaken \in SUBSET Claims /\ faults \in 0 .. MaxFaults
  BY <1>a DEF TypeOK
<1> DEFINE Others(r) == \A s \in Slots \ {r} : req'[s] = req[s]
           Attempted(r) ==
             /\ req' \in [Slots -> Request] /\ Others(r)
             /\ SameCall(req'[r], req[r]) /\ WellQueued(req'[r])
             /\ ~Active(r, "locked")'
<1>c. ASSUME TypeOK', LockInv', ToldInv' PROVE RequestInv'
  BY <1>c DEF RequestInv, ToldInv
\* The kubelet.
<1>1. ASSUME NEW p \in Pods, PodStarts(p) PROVE RequestInv'
  <2>1. /\ kubelet[p] = "idle" /\ kubelet' = [kubelet EXCEPT ![p] = "preparing"]
        /\ UNCHANGED <<req, lock, cp, overtaken, faults>>
    BY <1>1 DEF PodStarts
  <2>2. kubelet' \in [Pods -> Phase]
    BY <1>b, <2>1 DEF Phase
  <2>3. \A q \in Pods : Awaited(q)' = Awaited(q)
    BY <2>1 DEF Awaited
  <2>4. Awaited(p) = {}
    <3>1. \A r \in Awaited(p) : FALSE
      BY <1>a, <2>1 DEF CallInv
    <3> QED
      BY <3>1
  <2>5. kubelet'[p] = "preparing" /\ \A q \in Pods \ {p} : kubelet'[q] = kubelet[q]
    BY <1>b, <2>1
  <2>6. QueueInv' /\ LockInv'
    BY <1>a, <2>1 DEF QueueInv, WellQueued, LockInv, Active
  <2>7. CallInv'
    BY <1>a, <2>1, <2>3, <2>4, <2>5 DEF CallInv
  <2>8. ResultsKept' /\ ResponsesTrue'
    BY <1>a, <2>1, <2>3, <2>5 DEF ResultsKept, ResponsesTrue
  <2> QED
    BY <1>b, <1>c, <2>1, <2>2, <2>6, <2>7, <2>8 DEF TypeOK, ToldInv
<1>2. ASSUME NEW p \in Pods, PodEnds(p) \/ KubeletGivesUp(p) PROVE RequestInv'
  <2>1. /\ req' = Cancelled(Awaited(p)) /\ UNCHANGED <<lock, cp, overtaken>>
        /\ \/ UNCHANGED kubelet
           \/ kubelet' = [kubelet EXCEPT ![p] = "unpreparing"]
    BY <1>2 DEF PodEnds, KubeletGivesUp
  <2>2. ToldInv'
    BY <2>1, CancelKeeps
  <2>3. /\ req' \in [Slots -> Request]
        /\ \A r \in Slots : req'[r].kind = req[r].kind /\ req'[r].at = req[r].at
    <3>1. Awaited(p) \in SUBSET Slots
      BY DEF Awaited
    <3> QED
      BY <1>a, <2>1, <3>1, CancelFacts
  <2>4. LockInv'
    BY <1>a, <2>1, <2>3 DEF LockInv, Active
  <2>5. kubelet' \in [Pods -> Phase]
    BY <1>b, <2>1 DEF Phase
  <2>6. faults' \in 0 .. MaxFaults
    BY <1>b, <1>2, FaultCount DEF PodEnds, KubeletGivesUp
  <2> QED
    BY <1>b, <1>c, <2>1, <2>2, <2>3, <2>4, <2>5, <2>6 DEF TypeOK
<1>3. ASSUME NEW p \in Pods, NEW r \in Slots, Call(p, r) PROVE RequestInv'
  <2>1. UNCHANGED <<kubelet, lock, cp, overtaken, faults>>
    BY <1>3 DEF Call
  <2>2. /\ ToldInv' /\ req' \in [Slots -> Request] /\ Others(r)
        /\ ~Active(r, "locked") /\ ~Active(r, "locked")'
    BY <1>3, CallKeeps
  <2>3. LockInv'
    BY <2>1, <2>2, LockFollows
  <2> QED
    BY <1>b, <1>c, <2>1, <2>2, <2>3 DEF TypeOK
\* The request's loop.
<1>4. ASSUME NEW r \in Slots, Returns(r) \/ GetShutdown(r) PROVE RequestInv'
  <2>1. /\ req[r].kind # "none" /\ ~Active(r, "locked") /\ Return(r)
        /\ UNCHANGED <<lock, cp, overtaken, faults>>
    BY <1>4 DEF Returns, GetShutdown, Active
  <2>2. /\ ToldInv' /\ req' \in [Slots -> Request] /\ Others(r)
        /\ kubelet' \in [Pods -> Phase] /\ ~Active(r, "locked")'
    BY <2>1, ReturnKeeps
  <2>3. LockInv'
    BY <2>1, <2>2, LockFollows
  <2> QED
    BY <1>b, <1>c, <2>1, <2>2, <2>3 DEF TypeOK
<1>5. ASSUME NEW r \in Slots, NEW c \in Claims, Get(r, c) PROVE RequestInv'
  <2>1. /\ req[r].kind # "none" /\ req[r].at = "get" /\ c \in Queued(r)
        /\ req' = [req EXCEPT ![r].at = "acquire", ![r].item = c]
        /\ UNCHANGED <<kubelet, lock, cp, overtaken, faults>>
    BY <1>5 DEF Get, Active
  <2>2. /\ req' \in [Slots -> Request] /\ Others(r) /\ SameCall(req'[r], req[r])
        /\ req'[r].results = req[r].results /\ req'[r].queue = req[r].queue
    BY <1>a, <2>1, FieldFacts
  <2>3. req'[r].at = "acquire" /\ req'[r].item = c
    BY <1>b, <2>1 DEF Request
  <2>4. req[r].queue[c]["latest"]
    BY <1>a, <2>1 DEF Queued, Item, QueueInv, WellQueued
  <2>5. WellQueued(req'[r])
    BY <1>a, <2>1, <2>2, <2>3, <2>4 DEF QueueInv, WellQueued, SameCall
  <2>6. ToldInv'
    BY <2>1, <2>2, <2>5, QuietKeeps
  <2>7. LockInv'
    BY <2>1, <2>2, <2>3, LockFollows DEF Active
  <2> QED
    BY <1>b, <1>c, <2>1, <2>2, <2>6, <2>7 DEF TypeOK
<1>6. ASSUME NEW r \in Slots, Deadline(r) \/ AllDone(r) PROVE RequestInv'
  <2>1. /\ req[r].kind # "none"
        /\ req' = [req EXCEPT ![r].done = TRUE, ![r].tried = {}]
        /\ UNCHANGED <<kubelet, lock, cp, overtaken>>
    BY <1>6 DEF Deadline, AllDone
  <2>2. /\ req' \in [Slots -> Request] /\ Others(r) /\ SameCall(req'[r], req[r])
        /\ req'[r].results = req[r].results /\ req'[r].queue = req[r].queue
    BY <1>a, <2>1, FieldFacts
  <2>3. req'[r].at = req[r].at /\ req'[r].item = req[r].item
    BY <1>b, <2>1 DEF Request
  <2>4. WellQueued(req'[r])
    BY <1>a, <2>1, <2>2, <2>3 DEF QueueInv, WellQueued, SameCall
  <2>5. ToldInv'
    BY <2>1, <2>2, <2>4, QuietKeeps
  <2>6. LockInv'
    BY <2>1, <2>2, <2>3, LockFollows DEF Active, SameCall
  <2>7. faults' \in 0 .. MaxFaults
    BY <1>b, <1>6, FaultCount DEF Deadline, AllDone
  <2> QED
    BY <1>b, <1>c, <2>1, <2>2, <2>5, <2>6, <2>7 DEF TypeOK
\* An attempt.
<1>7. ASSUME NEW r \in Slots, Acquire(r) PROVE RequestInv'
  <2>1. /\ req[r].kind # "none" /\ req[r].at = "acquire"
        /\ lock = None /\ lock' = r /\ Goto(r, "locked")
        /\ UNCHANGED <<kubelet, cp, overtaken, faults>>
    BY <1>7 DEF Acquire, Active
  <2>2. /\ req' \in [Slots -> Request] /\ Others(r) /\ SameCall(req'[r], req[r])
        /\ req'[r].results = req[r].results /\ req'[r].queue = req[r].queue
    BY <1>a, <2>1, FieldFacts
  <2>3. req'[r].at = "locked" /\ req'[r].item = req[r].item
    BY <1>b, <2>1 DEF Request, Goto
  <2>4. WellQueued(req'[r])
    BY <1>a, <2>1, <2>2, <2>3 DEF QueueInv, WellQueued, SameCall
  <2>5. ToldInv'
    BY <2>1, <2>2, <2>4, QuietKeeps
  <2>6. LockInv'
    BY <2>1, <2>2, <2>3, LockFollows DEF Active, SameCall
  <2> QED
    BY <1>b, <1>c, <2>1, <2>2, <2>5, <2>6 DEF TypeOK
<1>d. ASSUME NEW r \in Slots, req[r].kind # "none",
             req[r].at \in {"acquire", "locked"},
             \/ \E result \in Result : Done(r, result)
             \/ \E tried \in SUBSET Claims : Retry(r, tried)
      PROVE  Attempted(r)
  <2>1. req[r].item \in Claims
    BY <1>a, <1>d DEF QueueInv, WellQueued
  <2>2. ASSUME NEW result \in Result, Done(r, result) PROVE Attempted(r)
    BY <1>a, <1>d, <2>1, <2>2, DoneFacts, DoneQueue DEF Active
  <2>3. ASSUME NEW tried \in SUBSET Claims, Retry(r, tried) PROVE Attempted(r)
    BY <1>a, <1>d, <2>1, <2>3, RetryFacts, RetryQueue DEF Active
  <2> QED
    BY <1>d, <2>2, <2>3
<1>8. ASSUME NEW r \in Slots, AcquireFails(r) PROVE RequestInv'
  <2>1. /\ req[r].kind # "none" /\ req[r].at = "acquire" /\ Retry(r, {})
        /\ UNCHANGED <<kubelet, lock, cp, overtaken>>
    BY <1>8 DEF AcquireFails, Active
  <2>2. /\ req' \in [Slots -> Request] /\ Others(r) /\ SameCall(req'[r], req[r])
        /\ WellQueued(req'[r]) /\ ~Active(r, "locked")'
    BY <1>d, <2>1
  <2>3. req'[r].results = req[r].results
    <3>1. req[r].item \in Claims
      BY <1>a, <2>1 DEF QueueInv, WellQueued
    <3> QED
      BY <1>a, <2>1, <3>1, RetryFacts
  <2>4. ToldInv'
    BY <2>1, <2>2, <2>3, QuietKeeps
  <2>5. LockInv'
    BY <2>1, <2>2, LockFollows DEF Active
  <2>6. faults' \in 0 .. MaxFaults
    BY <1>b, <1>8, FaultCount DEF AcquireFails, InTime
  <2> QED
    BY <1>b, <1>c, <2>1, <2>2, <2>4, <2>5, <2>6 DEF TypeOK
<1>9. ASSUME NEW r \in Slots, Prepare(r) \/ Unprepare(r) PROVE RequestInv'
  <2> DEFINE c == req[r].item
  <2>1. /\ Active(r, "locked") /\ lock' = None /\ Track(r)
        /\ UNCHANGED <<kubelet, faults>>
    BY <1>9 DEF Prepare, Unprepare
  <2>2. c \in Claims /\ {c} \in SUBSET Claims /\ "ok" \in Result
    BY <1>a, <2>1 DEF Active, QueueInv, WellQueued, Result
  <2>3. \/ /\ Done(r, "ok")
           /\ cp' = [cp EXCEPT ![c] = IF req[r].kind = "prepare"
                                     THEN "PrepareCompleted" ELSE "none"]
        \/ /\ Retry(r, {c})
           /\ req[r].kind = "prepare"
           /\ cp[c] # "PrepareCompleted"
           /\ cp' = [cp EXCEPT ![c] = "PrepareStarted"]
    BY <1>9 DEF Prepare, Unprepare
  <2>4. ToldInv'
    BY <2>1, <2>3, WorkKeeps
  <2>5. req' \in [Slots -> Request] /\ Others(r) /\ ~Active(r, "locked")'
    BY <1>d, <2>1, <2>2, <2>3 DEF Active
  <2>6. LockInv'
    BY <1>a, <2>1, <2>5, LockFollows DEF LockInv
  <2>7. cp' \in [Claims -> {"none", "PrepareStarted", "PrepareCompleted"}]
    BY <1>b, <2>3
  <2>8. overtaken' \in SUBSET Claims
    BY <1>b, <2>1, <2>2 DEF Track
  <2> QED
    BY <1>b, <1>c, <2>1, <2>4, <2>5, <2>6, <2>7, <2>8 DEF TypeOK
<1>10. ASSUME NEW r \in Slots, AttemptFails(r) PROVE RequestInv'
  <2> DEFINE c == req[r].item
  <2>1. /\ Active(r, "locked") /\ lock' = None
        /\ faults < MaxFaults /\ faults' = faults + 1
        /\ Done(r, "error") \/ Retry(r, {c})
        /\ UNCHANGED <<kubelet, cp, overtaken>>
    BY <1>10 DEF AttemptFails
  <2>2. /\ c \in Claims /\ {c} \in SUBSET Claims /\ "error" \in Result
        /\ req[r].results \in [Claims -> Result]
    BY <1>a, <2>1, RequestFields DEF Active, QueueInv, WellQueued, Result
  <2>3. /\ req' \in [Slots -> Request] /\ Others(r) /\ SameCall(req'[r], req[r])
        /\ WellQueued(req'[r]) /\ ~Active(r, "locked")'
    BY <1>d, <2>1, <2>2 DEF Active
  <2>4. \A d \in Claims :
           req'[r].results[d] = "ok" => req[r].results[d] = "ok"
    <3>1. \/ req'[r].results = [req[r].results EXCEPT ![c] = "error"]
          \/ req'[r].results = req[r].results
      BY <1>a, <2>1, <2>2, DoneFacts, RetryFacts
    <3> QED
      BY <2>2, <3>1
  <2>5. ToldInv'
    BY <2>1, <2>3, <2>4, QuietKeeps
  <2>6. LockInv'
    BY <1>a, <2>1, <2>3, LockFollows DEF LockInv
  <2>7. faults' \in 0 .. MaxFaults
    BY <1>b, <2>1, FaultCount
  <2> QED
    BY <1>b, <1>c, <2>1, <2>3, <2>5, <2>6, <2>7, RequestsAssumption DEF TypeOK
<1>11. ASSUME Crash PROVE RequestInv'
  <2>1. /\ req' = [r \in Slots |-> NoRequest] /\ lock' = None
        /\ faults < MaxFaults /\ faults' = faults + 1
        /\ UNCHANGED <<kubelet, cp, overtaken>>
    BY <1>11 DEF Crash
  <2>2. \A r \in Slots : req'[r].kind = "none"
    BY <2>1, NoRequestType
  <2>3. \A p \in Pods : Awaited(p)' = {}
    BY <2>2 DEF Awaited
  <2>4. QueueInv' /\ CallInv' /\ ResultsKept' /\ ResponsesTrue'
    BY <1>a, <2>1, <2>2, <2>3
    DEF QueueInv, CallInv, ResultsKept, ResponsesTrue
  <2>5. LockInv'
    BY <2>1, <2>2, RequestsAssumption DEF LockInv, Active
  <2>6. req' \in [Slots -> Request] /\ faults' \in 0 .. MaxFaults
    BY <1>b, <2>1, NoRequestType, FaultCount
  <2> QED
    BY <1>b, <1>c, <2>1, <2>4, <2>5, <2>6 DEF TypeOK, ToldInv
<1>12. CASE UNCHANGED vars
  <2>1. \A p \in Pods : Awaited(p)' = Awaited(p)
    BY <1>12 DEF vars, Awaited
  <2> QED
    BY <1>12, <1>a, <2>1 DEF vars, RequestInv, TypeOK, LockInv, Active,
       QueueInv, WellQueued, CallInv, ResultsKept, ResponsesTrue
<1> QED
  BY <1>1, <1>2, <1>3, <1>4, <1>5, <1>6, <1>7, <1>8, <1>9, <1>10, <1>11,
     <1>12 DEF Next, Serve

(* Every reachable state satisfies the inductive invariant. *)
LEMMA Invariance == Spec => []RequestInv
BY InitInv, NextInv, PTL DEF Spec

(* What the kubelet was told is true, for every number of pods, claims,    *)
(* concurrent requests and faults.                                         *)
THEOREM ResponsesAreTrue == Spec => []ResponsesTrue
<1>1. RequestInv => ResponsesTrue
  BY DEF RequestInv
<1> QED
  BY <1>1, Invariance, PTL

(* The file lock excludes: two requests never work on the checkpoint at    *)
(* the same time, also when one of them was cancelled long ago.            *)
THEOREM LockExcludes ==
    Spec => [](\A r, s \in Slots :
                 Active(r, "locked") /\ Active(s, "locked") => r = s)
<1>1. RequestInv => \A r, s \in Slots :
                      Active(r, "locked") /\ Active(s, "locked") => r = s
  BY DEF RequestInv, LockInv
<1> QED
  BY <1>1, Invariance, PTL

=============================================================================
