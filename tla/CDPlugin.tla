------------------------------ MODULE CDPlugin ------------------------------
(***************************************************************************)
(* The ComputeDomain kubelet plugin of one node: Prepare and Unprepare of  *)
(* the claims for IMEX channels (workload pods) and for daemons (daemon    *)
(* pods), the checkpoint file, the cleanup of stale checkpoint entries,    *)
(* the directories of the domains, and the node label that makes the       *)
(* DaemonSet controller run a domain's daemon on this node.                *)
(*                                                                         *)
(* One operation at a time holds the prepare/unprepare file lock (pulock); *)
(* `op` says how far it has come, so that a crash, an error, the cleanup   *)
(* managers or a second driver pod can get in between any two of its       *)
(* effects.  Between two attempts of a request the lock is free.  A claim  *)
(* of another namespace than its domain fails like one of an unknown       *)
(* domain.                                                                 *)
(***************************************************************************)
EXTENDS Integers

CONSTANTS
    Claims,         \* UIDs of ResourceClaims
    Daemons,        \* those of daemon pods; the others are for channel 0
    Admin,          \* those with admin access
    Domains,        \* UIDs of ComputeDomains
    DomainOf,       \* DomainID in the claim's config
    Misconfigured,  \* claims from whose configs getConfigResultsMap fails
    Legacy,         \* the checkpoint file found first has no boot ID
    MaxReboots      \* bound: reboots of the node

ASSUME CDPluginAssumption ==
    /\ Daemons \subseteq Claims
    /\ Admin \subseteq Claims
    /\ DomainOf \in [Claims -> Domains]
    /\ Misconfigured \subseteq Claims
    /\ Legacy \in BOOLEAN
    /\ MaxReboots \in Nat

VARIABLES
    \* API server and kubelet
    api,        \* claims that exist
    domains,    \* ComputeDomains that exist
    kubelet,    \* per claim: what the kubelet is doing about it
    label,      \* the node's ComputeDomain label: at most one domain
    ready,      \* domains in which this node is reported Ready
    \* files
    cp,         \* checkpoint: CheckpointState of every claim
    boot,       \* checkpoint: its boot ID
    specs,      \* claims with a CDI spec file
    dirs,       \* domains with a directory of config files
    \* the plugin's processes
    serving,    \* a plugin is up
    known,      \* domains in its informer's cache
    op,         \* the operation that holds pulock
    candidate,  \* the claim that the checkpoint cleanup found stale
    startup,    \* what a starting plugin has read from the checkpoint
    reboots

vars == <<api, domains, kubelet, label, ready, cp, boot, specs, dirs, serving,
          known, op, candidate, startup, reboots>>

cluster == <<api, domains, kubelet, label, ready>>
files == <<cp, boot, specs, dirs>>

-----------------------------------------------------------------------------
Channels == Claims \ Daemons

CheckpointState == {"none", "PrepareStarted", "PrepareCompleted"}
Checkpoint == [Claims -> CheckpointState]
BootID == {"legacy", "current", "old"}

(* An operation: its kind, its claims (one, or none for no operation), and *)
(* the next effect to be had.                                              *)
Op == [kind : {"none", "prepare", "unprepare"}, claims : SUBSET Claims,
       step : {"none", "apply", "ready", "spec", "checkpoint"}]
NoOp == [kind |-> "none", claims |-> {}, step |-> "none"]

Startup == [read : BOOLEAN, cp : Checkpoint, boot : BootID]
NoClaims == [c \in Claims |-> "none"]
NoStartup == [read |-> FALSE, cp |-> NoClaims, boot |-> "current"]

TypeOK ==
    /\ api \in SUBSET Claims
    /\ domains \in SUBSET Domains
    /\ kubelet \in [Claims -> {"idle", "preparing", "prepared", "unpreparing"}]
    /\ label \in SUBSET Domains
    /\ ready \in SUBSET Domains
    /\ cp \in Checkpoint
    /\ boot \in BootID
    /\ specs \in SUBSET Claims
    /\ dirs \in SUBSET Domains
    /\ serving \in BOOLEAN
    /\ known \in SUBSET Domains
    /\ op \in Op
    /\ candidate \in SUBSET Claims
    /\ startup \in Startup
    /\ reboots \in 0 .. MaxReboots

Init ==
    /\ api = Claims
    /\ domains = Domains
    /\ kubelet = [c \in Claims |-> "idle"]
    /\ label = {} /\ ready = {}
    /\ cp = NoClaims
    /\ boot = IF Legacy THEN "legacy" ELSE "current"
    /\ specs = {} /\ dirs = {}
    /\ serving = TRUE
    /\ known = {}
    /\ op = NoOp /\ candidate = {} /\ startup = NoStartup
    /\ reboots = 0

-----------------------------------------------------------------------------
(* Kubelet and API server *)

(* A pod with the claim is bound to this node.  A daemon pod comes and     *)
(* goes with the node label (the DaemonSet's node selector).               *)
PodStarts(c) ==
    /\ kubelet[c] = "idle"
    /\ c \in api
    /\ c \in Daemons => DomainOf[c] \in label
    /\ kubelet' = [kubelet EXCEPT ![c] = "preparing"]
    /\ UNCHANGED <<api, domains, label, ready, files, serving, known, op,
                   candidate, startup, reboots>>

PodEnds(c) ==
    /\ kubelet[c] \in {"preparing", "prepared"}
    /\ kubelet' = [kubelet EXCEPT ![c] = "unpreparing"]
    /\ UNCHANGED <<api, domains, label, ready, files, serving, known, op,
                   candidate, startup, reboots>>

(* "when pods are force-deleted while the kubelet still considers the      *)
(* devices allocated" (Prepare): the claim goes before the kubelet notices *)
(* and, if it was still being prepared, may never be unprepared.           *)
ClaimDeleted(c) ==
    /\ c \in api
    /\ api' = api \ {c}
    /\ \/ UNCHANGED kubelet
       \/ /\ kubelet[c] = "preparing"
          /\ kubelet' = [kubelet EXCEPT ![c] = "idle"]
    /\ UNCHANGED <<domains, label, ready, files, serving, known, op,
                   candidate, startup, reboots>>

(* The domain's daemon pod runs (or not): the node's status follows. *)
DaemonRuns(d) ==
    \E e \in Daemons : DomainOf[e] = d /\ kubelet[e] = "prepared"

ReadinessReported(d) ==
    /\ ready' = IF DaemonRuns(d) THEN ready \cup {d} ELSE ready \ {d}
    /\ UNCHANGED <<api, domains, kubelet, label, files, serving, known, op,
                   candidate, startup, reboots>>

(* The controller removes the label before the domain goes away.  (A label *)
(* set afterwards is removed by its periodic cleanup: LabelCleanup.)       *)
DomainDeleted(d) ==
    /\ d \in domains
    /\ domains' = domains \ {d}
    /\ label' = label \ {d}
    /\ UNCHANGED <<api, kubelet, ready, files, serving, known, op, candidate,
                   startup, reboots>>

LabelCleanup ==
    /\ label' = label \cap domains
    /\ UNCHANGED <<api, domains, kubelet, ready, files, serving, known, op,
                   candidate, startup, reboots>>

-----------------------------------------------------------------------------
(* Prepare *)

Process == <<serving, known, candidate, startup, reboots>>

(* validateNoOverlappingPreparedDevices: the one channel, the one daemon   *)
(* device, prepared for another claim, neither of them with admin access.  *)
Overlaps(c) ==
    \E e \in Claims \ ({c} \cup Admin) :
        /\ c \notin Admin
        /\ cp[e] = "PrepareCompleted"
        /\ e \in Daemons <=> c \in Daemons

(* Mutant: claims that are about to be prepared count, prepared ones do not. *)
ChannelAllocatedStarted ==
    \E e \in Channels : cp[e] = "PrepareStarted" /\ e \notin op.claims

(* assertImexChannelNotAllocated fails. *)
ChannelAllocated == \E e \in Channels : cp[e] = "PrepareCompleted"

(* Prepare for a claim that is completely prepared already. *)
PrepareAgain(c) ==
    /\ serving
    /\ op = NoOp
    /\ kubelet[c] = "preparing"
    /\ cp[c] = "PrepareCompleted"
    /\ kubelet' = [kubelet EXCEPT ![c] = "prepared"]
    /\ UNCHANGED <<api, domains, label, ready, files, op, Process>>

(* nodePrepareResource gets the lock, and Prepare annotates the claim as   *)
(* potentially partially prepared.                                         *)
PrepareStart(c) ==
    /\ serving
    /\ op = NoOp
    /\ kubelet[c] = "preparing"
    /\ cp[c] # "PrepareCompleted"
    /\ ~Overlaps(c)
    /\ cp' = [cp EXCEPT ![c] = "PrepareStarted"]
    /\ op' = [kind |-> "prepare", claims |-> {c}, step |-> "apply"]
    /\ UNCHANGED <<cluster, boot, specs, dirs, Process>>

At(kind, c, step) == op = [kind |-> kind, claims |-> {c}, step |-> step]
Goto(step) == op' = [op EXCEPT !.step = step]

(* It fails when the node has the label of another domain. *)
AddNodeLabel(d) ==
    /\ label \subseteq {d}
    /\ label' = {d}

(* applyComputeDomainChannelConfig up to AddNodeLabel. *)
ApplyChannel(c) ==
    /\ At("prepare", c, "apply")
    /\ c \in Channels \ Misconfigured
    /\ ~ChannelAllocated
    /\ DomainOf[c] \in known
    /\ AddNodeLabel(DomainOf[c])
    /\ Goto("ready")
    /\ UNCHANGED <<api, domains, kubelet, ready, files, Process>>

(* AssertComputeDomainReady *)
AssertReady(c) ==
    /\ At("prepare", c, "ready")
    /\ DomainOf[c] \in known \cap ready
    /\ Goto("spec")
    /\ UNCHANGED <<cluster, files, Process>>

(* applyComputeDomainDaemonConfig: the directory is made first; then the   *)
(* container edits need the domain.                                        *)
ApplyDaemon(c) ==
    /\ At("prepare", c, "apply")
    /\ c \in Daemons \ Misconfigured
    /\ dirs' = dirs \cup {DomainOf[c]}
    /\ op' = IF DomainOf[c] \in known THEN [op EXCEPT !.step = "spec"]
             ELSE NoOp
    /\ UNCHANGED <<cluster, cp, boot, specs, Process>>

CreateClaimSpecFile(c) ==
    /\ At("prepare", c, "spec")
    /\ specs' = specs \cup {c}
    /\ Goto("checkpoint")
    /\ UNCHANGED <<cluster, cp, boot, dirs, Process>>

(* The lock is released; the kubelet gets the answer if it still waits. *)
PrepareCompletes(c) ==
    /\ At("prepare", c, "checkpoint")
    /\ cp' = [cp EXCEPT ![c] = "PrepareCompleted"]
    /\ op' = NoOp
    /\ kubelet' = [kubelet EXCEPT ![c] =
                     IF @ = "preparing" THEN "prepared" ELSE @]
    /\ UNCHANGED <<api, domains, label, ready, boot, specs, dirs, Process>>

(* Mutant: the operation waits for the domain with the lock held. *)
PrepareFailsHoldingLock(c) ==
    /\ At("prepare", c, "apply")
    /\ \/ c \in Misconfigured
       \/ c \in Channels /\ (ChannelAllocated \/ DomainOf[c] \notin known)
    /\ op' = NoOp
    /\ UNCHANGED <<cluster, files, Process>>

(* One of the checks fails, or the configs are no good, which is noticed   *)
(* only now that the checkpoint has an entry: the lock is released, and    *)
(* the work queue or the kubelet tries again.                              *)
PrepareFails(c) ==
    /\ \/ At("prepare", c, "apply") /\ c \in Misconfigured
       \/ /\ At("prepare", c, "apply")
          /\ c \in Channels
          /\ \/ ChannelAllocated
             \/ DomainOf[c] \notin known
             \/ ~(label \subseteq {DomainOf[c]})
       \/ /\ At("prepare", c, "ready")
          /\ DomainOf[c] \notin known \cap ready
    /\ op' = NoOp
    /\ UNCHANGED <<cluster, files, Process>>

-----------------------------------------------------------------------------
(* Unprepare, for the kubelet or for the checkpoint cleanup *)

Answer(c) ==
    kubelet' = [kubelet EXCEPT ![c] = IF @ = "unpreparing" THEN "idle" ELSE @]

(* The claim is not in the checkpoint. *)
UnprepareNoop(c) ==
    /\ serving
    /\ op = NoOp
    /\ kubelet[c] = "unpreparing"
    /\ cp[c] = "none"
    /\ Answer(c)
    /\ UNCHANGED <<api, domains, label, ready, files, op, Process>>

(* Mutant: partially prepared claims are not handled. *)
UnprepareStartCompleted(c) ==
    /\ serving
    /\ op = NoOp
    /\ kubelet[c] = "unpreparing" \/ c \in candidate
    /\ cp[c] = "PrepareCompleted"
    /\ op' = [kind |-> "unprepare", claims |-> {c}, step |-> "apply"]
    /\ candidate' = candidate \ {c}
    /\ UNCHANGED <<cluster, files, serving, known, startup, reboots>>

UnprepareStart(c) ==
    /\ serving
    /\ op = NoOp
    /\ kubelet[c] = "unpreparing" \/ c \in candidate
    /\ cp[c] # "none"
    /\ op' = [kind |-> "unprepare", claims |-> {c}, step |-> "apply"]
    /\ candidate' = candidate \ {c}
    /\ UNCHANGED <<cluster, files, serving, known, startup, reboots>>

(* Mutant: the label is removed for completely prepared claims only. *)
UnprepareDevicesCompleted(c) ==
    /\ At("unprepare", c, "apply")
    /\ c \notin Misconfigured
    /\ label' = IF c \in Channels /\ cp[c] = "PrepareCompleted"
                THEN label \ {DomainOf[c]} ELSE label
    /\ Goto("spec")
    /\ UNCHANGED <<api, domains, kubelet, ready, files, Process>>

(* It leaves the label of another domain alone. *)
RemoveNodeLabel(d) == label' = label \ {d}

(* unprepareDevices: RemoveNodeLabel for a channel, nothing for a daemon. *)
UnprepareDevices(c) ==
    /\ At("unprepare", c, "apply")
    /\ c \notin Misconfigured
    /\ IF c \in Channels THEN RemoveNodeLabel(DomainOf[c])
       ELSE UNCHANGED label
    /\ Goto("spec")
    /\ UNCHANGED <<api, domains, kubelet, ready, files, Process>>

(* unprepareDevices needs the configs too: the entry stays, and so does    *)
(* the kubelet's request.                                                  *)
UnprepareFails(c) ==
    /\ At("unprepare", c, "apply")
    /\ c \in Misconfigured
    /\ op' = NoOp
    /\ UNCHANGED <<cluster, files, Process>>

DeleteClaimSpecFile(c) ==
    /\ At("unprepare", c, "spec")
    /\ specs' = specs \ {c}
    /\ Goto("checkpoint")
    /\ UNCHANGED <<cluster, cp, boot, dirs, Process>>

DeleteClaimFromCheckpoint(c) ==
    /\ At("unprepare", c, "checkpoint")
    /\ cp' = [cp EXCEPT ![c] = "none"]
    /\ op' = NoOp
    /\ Answer(c)
    /\ UNCHANGED <<api, domains, label, ready, boot, specs, dirs, Process>>

(* A call to the API server or to the file system fails: every step of     *)
(* either operation may end like this.                                     *)
OperationFails ==
    /\ op # NoOp
    /\ op' = NoOp
    /\ UNCHANGED <<cluster, files, Process>>

-----------------------------------------------------------------------------
(* The cleanup managers and the informer *)

(* Mutant: every claim in PrepareStarted is taken for stale. *)
FindStaleUnchecked(c) ==
    /\ serving
    /\ cp[c] = "PrepareStarted"
    /\ candidate = {}
    /\ candidate' = {c}
    /\ UNCHANGED <<cluster, files, serving, known, op, startup, reboots>>

(* cleanup and unprepareIfStale: the checkpoint is read without a lock,    *)
(* and the claim is not found in the API server.  (Every entry has a name: *)
(* the drivers that wrote none wrote no PrepareStarted either.)            *)
FindStale(c) ==
    /\ serving
    /\ cp[c] = "PrepareStarted"
    /\ c \notin api
    /\ candidate = {}
    /\ candidate' = {c}
    /\ UNCHANGED <<cluster, files, serving, known, op, startup, reboots>>

(* The unprepare of a candidate that has left the checkpoint is a noop. *)
CandidateGone ==
    /\ \E c \in candidate : cp[c] = "none"
    /\ candidate' = {}
    /\ UNCHANGED <<cluster, files, serving, known, op, startup, reboots>>

(* periodicCleanup, which does not wait for the informer's first sync. *)
PeriodicCleanup ==
    /\ serving
    /\ dirs' = dirs \cap known
    /\ UNCHANGED <<cluster, cp, boot, specs, op, Process>>

InformerEvent(d) ==
    /\ serving
    /\ known' = IF d \in domains THEN known \cup {d} ELSE known \ {d}
    /\ UNCHANGED <<cluster, files, serving, op, candidate, startup, reboots>>

-----------------------------------------------------------------------------
(* Crashes and starts of the plugin *)

(* The lock goes with its holder; a CreateCheckpoint is atomic. *)
Crash ==
    /\ serving
    /\ serving' = FALSE
    /\ op' = NoOp
    /\ candidate' = {}
    /\ known' = {}
    /\ UNCHANGED <<cluster, files, startup, reboots>>

(* The CDI specs (in /var/run) and the prepared devices are gone; the      *)
(* kubelet prepares the claims of its pods again.                          *)
Reboot ==
    /\ reboots < MaxReboots
    /\ reboots' = reboots + 1
    /\ boot' = IF boot = "current" THEN "old" ELSE boot
    /\ specs' = {}
    /\ kubelet' = [c \in Claims |-> IF kubelet[c] = "prepared"
                                    THEN "preparing" ELSE kubelet[c]]
    /\ serving' = FALSE
    /\ op' = NoOp
    /\ candidate' = {}
    /\ known' = {}
    /\ startup' = NoStartup
    /\ UNCHANGED <<api, domains, label, ready, cp, dirs>>

(* NewDeviceState reads the checkpoint; "more than one driver pod may be   *)
(* running on a node" (flock), so another plugin may be serving.  Only     *)
(* what it writes back of what it has read is kept.                        *)
StartupRead ==
    /\ ~startup.read
    /\ startup' = [read |-> TRUE, boot |-> boot,
                   cp |-> IF boot = "legacy" THEN cp ELSE NoClaims]
    /\ UNCHANGED <<cluster, files, serving, known, op, candidate, reboots>>

(* It injects the boot ID into a legacy checkpoint, replaces one of an     *)
(* earlier boot by an empty one, and keeps a current one.  The lock is not *)
(* taken.                                                                  *)
StartupWrite ==
    /\ startup.read
    /\ cp' = CASE startup.boot = "legacy" -> startup.cp
               [] startup.boot = "old" -> NoClaims
               [] startup.boot = "current" -> cp
    /\ boot' = "current"
    /\ serving' = TRUE
    /\ startup' = NoStartup
    /\ UNCHANGED <<cluster, specs, dirs, known, op, candidate, reboots>>

-----------------------------------------------------------------------------
Attempt(c) ==
    \/ PrepareAgain(c)
    \/ PrepareStart(c)
    \/ ApplyChannel(c)
    \/ AssertReady(c)
    \/ ApplyDaemon(c)
    \/ CreateClaimSpecFile(c)
    \/ PrepareCompletes(c)
    \/ PrepareFails(c)
    \/ UnprepareNoop(c)
    \/ UnprepareStart(c)
    \/ UnprepareDevices(c)
    \/ UnprepareFails(c)
    \/ DeleteClaimSpecFile(c)
    \/ DeleteClaimFromCheckpoint(c)

Next ==
    \/ \E c \in Claims :
         \/ PodStarts(c)
         \/ PodEnds(c)
         \/ ClaimDeleted(c)
         \/ Attempt(c)
         \/ FindStale(c)
    \/ \E d \in Domains :
         ReadinessReported(d) \/ DomainDeleted(d) \/ InformerEvent(d)
    \/ LabelCleanup
    \/ CandidateGone
    \/ PeriodicCleanup
    \/ OperationFails
    \/ Crash
    \/ Reboot
    \/ StartupRead
    \/ StartupWrite

Spec == Init /\ [][Next]_vars

(* The kubelet and the work queues retry a request until it is answered,   *)
(* and so does the cleanup with what it finds stale.                       *)
Request(c) ==
    \/ PrepareAgain(c)
    \/ PrepareStart(c)
    \/ UnprepareNoop(c)
    \/ kubelet[c] = "unpreparing" /\ UnprepareStart(c)

CleanupRequest == CandidateGone \/ \E c \in candidate : UnprepareStart(c)

(* The lock is polled, so nobody is kept from it for ever; its holder goes *)
(* on.  A plugin is started again, its informer syncs and its tickers      *)
(* fire; a cleanup looks at every entry, whatever becomes of the others.   *)
(* The DaemonSet controller starts daemon pods on a labelled node, and     *)
(* statuses are reported.                                                  *)
Fairness ==
    /\ \A c \in Claims : SF_vars(Request(c)) /\ SF_vars(FindStale(c))
    /\ SF_vars(CleanupRequest)
    /\ WF_vars(op # NoOp /\ \E c \in Claims : Attempt(c))
    /\ \A c \in Daemons : WF_vars(PodStarts(c))
    /\ \A d \in Domains :
         WF_vars(ReadinessReported(d)) /\ WF_vars(InformerEvent(d))
    /\ WF_vars(~serving /\ StartupRead) /\ WF_vars(StartupWrite)

-----------------------------------------------------------------------------
(* Properties *)

(* The claims that the kubelet has prepared and that still exist. *)
InUse == {c \in api : kubelet[c] = "prepared"}

(* The channel is in use by one claim, although an attempt may stop        *)
(* anywhere and be overtaken by that of another claim                      *)
(* (assertImexChannelNotAllocated).                                        *)
ExclusiveChannel ==
    \A c, e \in Channels \cap InUse : c = e

(* What the kubelet holds prepared is in the checkpoint and has its CDI    *)
(* spec, whatever crashes, cleanups and reboots happen and whatever other  *)
(* claims do, while one plugin at a time starts.                           *)
PreparedIntact ==
    \A c \in InUse : cp[c] = "PrepareCompleted" /\ c \in specs

(* The label is never left behind: while it is there, some claim in the    *)
(* checkpoint accounts for it, whose Unprepare will remove it: not one     *)
(* whose Unprepare fails for ever.  A reboot loses this: it drops the      *)
(* checkpoint and not the label.                                           *)
LabelAccounted ==
    \A d \in label :
        \/ \E c \in Channels \ Misconfigured :
             DomainOf[c] = d /\ cp[c] # "none"
        \/ reboots > 0

(* What the operation in progress has achieved so far, and that nothing    *)
(* undoes it: the lock is held.                                            *)
OpInv ==
    /\ op # NoOp => serving
    /\ \A c \in op.claims :
         /\ op.kind = "prepare" => cp[c] = "PrepareStarted"
         /\ op.kind = "prepare" /\ op.step # "apply" /\ c \in Channels
              => ~ChannelAllocated
         /\ op.kind = "prepare" /\ op.step = "checkpoint" => c \in specs
         /\ op.kind = "unprepare" => kubelet[c] = "unpreparing" \/ c \notin api
         /\ op.kind = "unprepare" /\ op.step # "apply" /\ c \in Channels
              => DomainOf[c] \notin label

(* Checkpoints without a boot ID apart: nobody works with a checkpoint of  *)
(* an earlier boot.                                                        *)
BootInv ==
    /\ boot # "legacy"
    /\ startup.read => startup.boot = boot
    /\ boot = "old" => ~serving /\ \A c \in Claims : kubelet[c] # "prepared"
    /\ reboots = 0 => boot = "current"

(* A claim that is being cleaned up as stale does not exist (any more). *)
StaleInv == candidate \cap api = {}

(* The checkpoint has one completely prepared channel claim, admin access  *)
(* or not.                                                                 *)
OneChannel ==
    \A c, e \in Channels :
        cp[c] = "PrepareCompleted" /\ cp[e] = "PrepareCompleted" => c = e

(* A later Prepare of a completely prepared claim is answered at once: its *)
(* CDI spec is there.                                                      *)
SpecInv ==
    boot = "current" =>
        \A c \in api :
            cp[c] = "PrepareCompleted" /\ kubelet[c] # "unpreparing"
                => c \in specs

(* The strengthening under which the three invariants above are inductive. *)
PluginInv ==
    /\ TypeOK
    /\ OpInv
    /\ BootInv
    /\ StaleInv
    /\ OneChannel
    /\ SpecInv
    /\ PreparedIntact
    /\ LabelAccounted

(* An entry of a claim that was deleted does not stay in PrepareStarted    *)
(* (CheckpointCleanupManager), although nobody will unprepare the claim,   *)
(* and although the entry of a misconfigured claim does stay: the cleanup  *)
(* tries that one again and again (the TODO in unprepare), and it must not *)
(* keep the others waiting.                                                *)
StaleCleaned ==
    \A c \in Claims \ Misconfigured :
        []<>(c \in api \/ cp[c] # "PrepareStarted")

(* Channel claims and daemon claims are "codependent" (NewDriver): the     *)
(* first attempt for a channel labels the node, which brings the daemon    *)
(* pod, whose claim must get the lock before the channel's can be          *)
(* prepared.  It is, if no other claim has the channel or the node's label *)
(* and the configs are good, even if misconfigured claims try for ever.    *)
CodependentPrepare ==
    \A c \in Channels \ Misconfigured :
        <>[]/\ kubelet[c] \in {"preparing", "prepared"}
            /\ c \in api
            /\ DomainOf[c] \in domains
            /\ \A e \in Channels \ ({c} \cup Misconfigured) : cp[e] = "none"
            /\ label \subseteq {DomainOf[c]}
            /\ \E e \in (Daemons \cap api) \ Misconfigured :
                 DomainOf[e] = DomainOf[c]
        => <>[](kubelet[c] = "prepared")

=============================================================================
