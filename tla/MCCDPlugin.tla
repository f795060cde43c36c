----------------------------- MODULE MCCDPlugin -----------------------------
(* TLC instance of CDPlugin: which claim is for which domain, and a budget *)
(* for what the environment does to the plugin (MaxFaults: errors and      *)
(* crashes) and to the claims (MaxChanges: pods that start for channels,   *)
(* pods that end, claims and domains that are deleted).  Misconfigured     *)
(* claims come and go without a charge.                                    *)
EXTENDS CDPlugin

CONSTANTS c1, c2, c3, e1, e2, d1, d2, MaxFaults, MaxChanges

OneDomain == [c \in Claims |-> d1]
TwoDomains == [c \in Claims |-> IF c \in {c2, e2} THEN d2 ELSE d1]

VARIABLES faults, changes

mcvars == <<api, domains, kubelet, label, ready, cp, boot, specs, dirs,
            serving, known, op, candidate, startup, reboots, faults, changes>>

MCInit == Init /\ faults = 0 /\ changes = 0

MCNext ==
    \/ /\ changes < MaxChanges
       /\ changes' = changes + 1
       /\ \/ \E c \in Channels \ Misconfigured : PodStarts(c)
          \/ \E c \in Claims : PodEnds(c)
          \/ \E c \in Claims \ Misconfigured : ClaimDeleted(c)
          \/ \E d \in Domains : DomainDeleted(d)
       /\ UNCHANGED faults
    \/ /\ faults < MaxFaults
       /\ faults' = faults + 1
       /\ OperationFails \/ Crash \/ Reboot
       /\ UNCHANGED changes
    \/ /\ \/ \E c \in Daemons \cup Misconfigured : PodStarts(c)
          \/ \E c \in Misconfigured : ClaimDeleted(c)
          \/ \E c \in Claims : Attempt(c) \/ FindStale(c)
          \/ \E d \in Domains : ReadinessReported(d) \/ InformerEvent(d)
          \/ LabelCleanup
          \/ CandidateGone
          \/ PeriodicCleanup
          \/ StartupRead
          \/ StartupWrite
       /\ UNCHANGED <<faults, changes>>

MCSpec == MCInit /\ [][MCNext]_mcvars
MCFairSpec == MCSpec /\ Fairness

=============================================================================
