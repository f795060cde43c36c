----------------------------- MODULE WorkQueue -----------------------------
(***************************************************************************)
(* The items of one key of a work queue (pkg/workqueue).  The newest item  *)
(* of a key is the only one activeOps can point to, and callbacks read     *)
(* their object from a cache rather than from the item, so that older      *)
(* items are alike: a queue remembers whether its newest item is queued    *)
(* (ready or backing off), whether an older one is, and whether activeOps  *)
(* still points to the newest one.                                         *)
(***************************************************************************)

Item == {"latest", "older"}
Queue == [Item \cup {"active"} -> BOOLEAN]

NewQueue == [latest |-> FALSE, older |-> FALSE, active |-> FALSE]

(* EnqueueWithKey, EnqueueRawWithKey: what was the newest item stays in    *)
(* the queue.                                                              *)
Enqueue(q) ==
    [latest |-> TRUE, older |-> q.latest \/ q.older, active |-> TRUE]

(* processNextWorkItem when the callback returns nil. *)
Succeeded(q, item) ==
    IF item = "latest"
    THEN [q EXCEPT !.latest = FALSE, !.active = FALSE]
    ELSE [q EXCEPT !.older = FALSE]

(* processNextWorkItem when the callback fails: the item is queued again   *)
(* with back-off, unless activeOps has a newer one for its key.            *)
Failed(q, item) ==
    [q EXCEPT ![item] = ~(item = "older" /\ q.active)]

=============================================================================
