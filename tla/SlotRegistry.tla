---------------------------- MODULE SlotRegistry ----------------------------
(***************************************************************************)
(* What the daemons of a clique rely on: a registry that hands every node  *)
(* one slot (the Index that determines its DNS name), always the lowest    *)
(* free one, and takes slots back.  No caches, no conflicts, no retries.   *)
(* CDClique implements it.                                                 *)
(***************************************************************************)
EXTENDS Integers

CONSTANTS Nodes, MaxNodesPerIMEXDomain

VARIABLE slots      \* set of [node, index]

Indices == 0 .. (MaxNodesPerIMEXDomain - 1)

Free == {i \in Indices : \A s \in slots : s.index # i}

Register(n) ==
    /\ \A s \in slots : s.node # n
    /\ \E i \in Free :
         /\ \A j \in Free : i <= j
         /\ slots' = slots \cup {[node |-> n, index |-> i]}

Release(S) ==
    /\ S # {}
    /\ slots' = slots \ S

Init == slots = {}
Next == \/ \E n \in Nodes : Register(n)
        \/ \E S \in SUBSET slots : Release(S)

Spec == Init /\ [][Next]_slots

=============================================================================
