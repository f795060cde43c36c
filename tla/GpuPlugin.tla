----------------------------- MODULE GpuPlugin -----------------------------
(***************************************************************************)
(* The GPU kubelet plugin of a node with one GPU: Prepare and Unprepare of *)
(* claims for the full GPU, for dynamically created MIG devices and for    *)
(* the GPU on the vfio-pci driver, with time-slicing or an MPS control     *)
(* daemon; the checkpoint; the rollback of partially prepared claims; the  *)
(* cleanup of stale ones; and a start after a crash or a reboot.           *)
(*                                                                         *)
(* One operation at a time holds the prepare/unprepare lock.  `op` is its  *)
(* next effect; every effect may fail instead (the operation returns an    *)
(* error and the kubelet tries again) and the plugin may crash before it.  *)
(* Where MIG devices are dynamic, a second plugin process may start while  *)
(* the first still serves.  Which devices and settings exist depends on    *)
(* the feature gates.                                                      *)
(***************************************************************************)
EXTENDS Integers, FiniteSets

CONSTANTS
    Claims,         \* UIDs of ResourceClaims
    Migs,           \* canonical names of the MIG devices of the GPU
    SlicesOf,       \* memory slices a MIG device occupies
    Ids, NoID,      \* what NVML numbers GPU instances with
    DevicesOf,      \* device names in a claim's allocation results
    Admin,          \* claims with admin access
    SharingOf,      \* sharing config of a claim: a time slice, or "Mps"
    Profiles        \* nodes: feature gates, GPU, the claims there will be, and the
                    \* bound on reboots, crashes and replacements of the plugin

Devices == Migs \cup {"gpu", "vfio"}
Gates == {"DynamicMIG", "PassthroughSupport", "MPSSupport", "TimeSlicingSettings"}

(* ValidateFeatureGates, for the gates that this module looks at *)
ValidGates(g) ==
    "DynamicMIG" \in g => g \cap {"PassthroughSupport", "MPSSupport"} = {}

(* One config applies to all devices of a claim, and VfioDeviceConfig has  *)
(* no sharing.                                                             *)
ASSUME GpuPluginAssumption ==
    /\ Migs \cap {"gpu", "vfio"} = {}
    /\ DevicesOf \in [Claims -> SUBSET Devices]
    /\ Admin \subseteq Claims
    /\ SharingOf \in [Claims -> {"Default", "Long", "Mps"}]
    /\ \A c \in Claims : "vfio" \in DevicesOf[c] =>
          DevicesOf[c] = {"vfio"} /\ SharingOf[c] = "Default"
    /\ Profiles \subseteq [gates : SUBSET Gates, toggle : BOOLEAN, faults : Nat,
                           claims : SUBSET Claims]
    /\ \A p \in Profiles : ValidGates(p.gates)
    /\ \A d \in Migs : SlicesOf[d] # {}
    /\ NoID \notin Ids

VARIABLES
    \* the node
    gates,        \* enabled feature gates
    toggle,       \* MIG mode can be switched without a reset (Hopper and later)
    gi, ci,       \* MIG devices whose GPU instance / compute instance exists
    giID,         \* ids of the GPU instances
    migMode,      \* MIG mode of the GPU
    bound,        \* the driver the GPU is bound to
    sharing,      \* compute mode and time slice of the GPU
    mpsDeployed,  \* claims whose MPS control daemon's Deployment exists
    mpsRoot,      \* claims whose MPS directories exist
    \* API server and kubelet
    api,          \* claims that exist
    kubelet,      \* per claim: what the kubelet is doing about it
    published,    \* devices in the ResourceSlices
    \* files
    cp,           \* checkpoint: CheckpointState of every claim
    boot,         \* checkpoint: its boot ID
    preparedGI,   \* checkpoint: GIID of the PreparedDevices of a claim
    specs,        \* claims with a CDI spec file
    \* the plugin process
    phase,        \* "down", "starting", "started" or "serving"
    allocatable,  \* perGPUAllocatable
    migSeen,      \* MIG mode when the GPU was enumerated (gpuInfosByUUID)
    op,           \* the operation that holds the lock
    candidate,    \* the claim that the checkpoint cleanup found stale
    other,        \* a second plugin process that starts meanwhile
    \* history
    disturbed,    \* claims whose devices others may have been at since Prepare
    faults        \* reboots, crashes and replacements there may still be

hardware == <<gi, ci, giID, migMode, bound, sharing, mpsDeployed, mpsRoot>>
cluster == <<api, kubelet, published>>
files == <<cp, boot, preparedGI, specs>>
process == <<phase, allocatable, migSeen, op, candidate, other>>
fixed == <<gates, toggle>>
history == <<disturbed, faults>>
vars == <<fixed, hardware, cluster, files, process, history>>

-----------------------------------------------------------------------------
Op == [kind : {"none", "prepare", "unprepare"}, claims : SUBSET Claims,
       step : {"none", "rollback", "apply", "mode", "deploy", "ready", "unbind",
               "bind", "create", "ci", "spec", "completed", "publish",
               "vfio", "delete", "mps", "umount", "reset", "siblings", "entry"},
       todo : SUBSET Devices,  \* devices still to be dealt with in this step
       dev : SUBSET Migs,      \* the one that has a GPU instance so far
       ids : [Migs -> Ids \cup {NoID}]]    \* PreparedDevices so far
NoIDs == [d \in Migs |-> NoID]
NoOp == [kind |-> "none", claims |-> {}, step |-> "none", todo |-> {}, dev |-> {},
         ids |-> NoIDs]
Begin(kind, c, step, todo) ==
    [kind |-> kind, claims |-> {c}, step |-> step, todo |-> todo, dev |-> {},
     ids |-> NoIDs]
Sharing == [compute : {"DEFAULT", "EXCLUSIVE_PROCESS"}, slice : {"Default", "Long"}]
DefaultSharing == [compute |-> "DEFAULT", slice |-> "Default"]
CheckpointState == {"none", "PrepareStarted", "PrepareCompleted"}
NoClaims == [c \in Claims |-> "none"]

(* Of the other process: what DestroyUnknownMIGDevices has read from the   *)
(* checkpoint, and the MIG mode it has seen.                               *)
Other == [step : {"none", "destroy", "done"}, expected : SUBSET Migs, seen : BOOLEAN]
NoOther == [step |-> "none", expected |-> {}, seen |-> FALSE]

(* The part of the type invariant that the lock holder relies on *)
LockTyped ==
    /\ op \in Op
    /\ cp \in [Claims -> CheckpointState]
    /\ ci \in SUBSET Migs
IdsTyped ==
    /\ gi \in SUBSET Migs
    /\ giID \in [Migs -> Ids \cup {NoID}]
    /\ preparedGI \in [Claims -> [Migs -> Ids \cup {NoID}]]

TypeOK ==
    /\ LockTyped
    /\ IdsTyped
    /\ gates \in SUBSET Gates /\ toggle \in BOOLEAN
    /\ other \in Other /\ disturbed \in SUBSET Claims
    /\ migMode \in BOOLEAN /\ migSeen \in BOOLEAN
    /\ bound \in {"nvidia", "vfio-pci", "none"}
    /\ sharing \in Sharing
    /\ mpsDeployed \in SUBSET Claims /\ mpsRoot \in SUBSET Claims
    /\ api \in SUBSET Claims
    /\ kubelet \in [Claims -> {"idle", "preparing", "prepared", "unpreparing"}]
    /\ published \in SUBSET Devices /\ allocatable \in SUBSET Devices
    /\ boot \in {"legacy", "current", "old"}
    /\ specs \in SUBSET Claims
    /\ phase \in {"down", "starting", "started", "serving"}
    /\ candidate \in SUBSET Claims
    /\ faults \in Nat

Dynamic == "DynamicMIG" \in gates
Passthrough == "PassthroughSupport" \in gates
MpsOn == "MPSSupport" \in gates
TimeSlicing == "TimeSlicingSettings" \in gates

(* A GPU that cannot leave MIG mode (Ampere) is in MIG mode for good. *)
Init ==
    /\ \E p \in Profiles : /\ gates = p.gates /\ toggle = p.toggle
                           /\ api = p.claims /\ faults = p.faults
    /\ gi = {} /\ ci = {} /\ giID = NoIDs /\ migMode = ~toggle
    /\ bound = "nvidia" /\ sharing = DefaultSharing
    /\ mpsDeployed = {} /\ mpsRoot = {}
    /\ kubelet = [c \in Claims |-> "idle"] /\ published = {}
    /\ cp = NoClaims /\ boot \in {"legacy", "current"} /\ specs = {}
    /\ preparedGI = [c \in Claims |-> NoIDs]
    /\ phase = "down" /\ allocatable = {} /\ migSeen = FALSE
    /\ op = NoOp /\ candidate = {} /\ other = NoOther
    /\ disturbed = {}

-----------------------------------------------------------------------------
(* Scheduler, kubelet and API server *)

(* Counters of a partitionable device: the full GPU uses all slices. *)
Overlap(d, e) ==
    \/ d = e
    \/ Dynamic /\ d \in Migs /\ e \in Migs /\ SlicesOf[d] \cap SlicesOf[e] # {}
    \/ Dynamic /\ "gpu" \in {d, e}

(* The scheduler gives the claim its devices: they are published, and the  *)
(* claims that exist leave them free.  A claim that was deleted while the  *)
(* kubelet still has its devices does not count any more.                  *)
PodStarts(c) ==
    /\ kubelet[c] = "idle" /\ c \in api
    /\ DevicesOf[c] \subseteq published
    /\ SharingOf[c] = "Mps" => MpsOn
    /\ \/ c \in Admin
       \/ \A o \in api \ (Admin \cup {c}) : kubelet[o] # "idle" =>
            \A d \in DevicesOf[c], e \in DevicesOf[o] : ~Overlap(d, e)
    /\ kubelet' = [kubelet EXCEPT ![c] = "preparing"]
    /\ UNCHANGED <<fixed, hardware, api, published, files, process, history>>

PodEnds(c) ==
    /\ kubelet[c] \in {"preparing", "prepared"}
    /\ kubelet' = [kubelet EXCEPT ![c] = "unpreparing"]
    /\ UNCHANGED <<fixed, hardware, api, published, files, process, history>>

(* Forced deletion: the kubelet notices later, or never if it was preparing. *)
ClaimDeleted(c) ==
    /\ c \in api /\ kubelet[c] # "idle"
    /\ api' = api \ {c}
    /\ \/ UNCHANGED kubelet
       \/ /\ kubelet[c] = "preparing"
          /\ kubelet' = [kubelet EXCEPT ![c] = "idle"]
    /\ UNCHANGED <<fixed, hardware, published, files, process, history>>

-----------------------------------------------------------------------------
(* NVML *)

(* MIG device handles exist for compute instances: walkMigDevices and      *)
(* FindMigDevBySpec do not see a GPU instance without one.                 *)
LiveMigDevices == ci

(* getMigDevices: none when the GPU was enumerated out of MIG mode. *)
MigDevices(seen, cis) == IF seen THEN cis ELSE {}

(* What nvidia-smi can set: it does not know a GPU on another driver. *)
NvidiaSmi == bound = "nvidia"

(* maybeDisableMigMode, of a process that has seen MIG mode on or off.     *)
(* The driver does not leave MIG mode while GPU instances exist, and may   *)
(* stay in it ("in use by another client"), whether SetMigMode says so or  *)
(* not.                                                                    *)
MaybeDisableMigMode(seen, gis, cis, on) ==
    IF MigDevices(seen, cis) # {} \/ ~toggle THEN {[on |-> on, ok |-> TRUE]}
    ELSE {[on |-> on, ok |-> FALSE], [on |-> on, ok |-> TRUE],
          [on |-> on /\ gis # {}, ok |-> TRUE]}

(* deleteMigDevice: the compute instance, then the GPU instance, then      *)
(* perhaps MIG mode; it stops at the first error, such as "in use".  The   *)
(* set has the GPU instance that was found, if any.                        *)
DeleteMigDevice(seen, found) ==
    {[gi |-> gi, ci |-> ci, on |-> migMode, ok |-> FALSE]}
    \cup {[gi |-> gi, ci |-> ci \ found, on |-> migMode, ok |-> FALSE]}
    \cup {[gi |-> gi \ found, ci |-> ci \ found, on |-> m.on, ok |-> m.ok] :
            m \in IF migMode
                  THEN MaybeDisableMigMode(seen, gi \ found, ci \ found, migMode)
                  ELSE {[on |-> FALSE, ok |-> TRUE]}}

SetMig(r) ==
    /\ gi' = r.gi /\ ci' = r.ci /\ migMode' = r.on
    /\ giID' = [d \in Migs |-> IF d \in r.gi THEN giID[d] ELSE NoID]

-----------------------------------------------------------------------------
(* Operations *)

At(kind, step) == phase = "serving" /\ op.kind = kind /\ op.step = step
GoTo(step, todo) == op' = [op EXCEPT !.step = step, !.todo = todo]
ClaimOf == CHOOSE c \in Claims : c \in op.claims

Completed == {c \in Claims : cp[c] = "PrepareCompleted"}

(* Claims that have one of these devices or are about to, and those that   *)
(* share one with this claim because of admin access                       *)
Users(devices) == {c \in Completed \cup op.claims : DevicesOf[c] \cap devices # {}}
Sharers(c) == {o \in Users(DevicesOf[c]) \ {c} : {c, o} \cap Admin # {}}

(* updateCheckpoint: read, mutate and write the file. *)
SetEntry(c, state) == cp' = [cp EXCEPT ![c] = state]

(* The device names in the ResourceSlices (GenerateDriverResources). *)
DriverResources == allocatable

(* publishResources, which Prepare and Unprepare call with passthrough. *)
Publish == published' = IF Passthrough THEN DriverResources ELSE published

(* Mutant: the claims in progress are looked at, not the completed ones. *)
OverlapWithStarted(c) ==
    \A o \in Claims \ {c} : cp[o] = "PrepareStarted" =>
        DevicesOf[c] \cap DevicesOf[o] = {}

(* validateNoOverlappingPreparedDevices: names of devices only *)
NoOverlappingPreparedDevices(c) ==
    c \in Admin \/ \A o \in Completed \ (Admin \cup {c}) :
                        DevicesOf[c] \cap DevicesOf[o] = {}

(* Prepare of a claim that was prepared before: done, but for publishing. *)
PrepareAgain(c) ==
    /\ phase = "serving" /\ op = NoOp
    /\ kubelet[c] = "preparing"
    /\ cp[c] = "PrepareCompleted"
    /\ op' = Begin("prepare", c, "publish", {})
    /\ UNCHANGED <<fixed, hardware, cluster, files, phase, allocatable, migSeen,
                   candidate, other, history>>

(* The names of a claim's devices that are those of MIG devices            *)
(* (NewMigSpecTupleFromCanonicalName).                                     *)
MigNames(c) == DevicesOf[c] \cap Migs

(* Mutant: no rollback *)
NoLeftovers(c) == {}

(* MIG devices that the previous attempt may have left behind *)
Leftovers(c) == IF Dynamic /\ cp[c] = "PrepareStarted"
                THEN MigNames(c) ELSE {}

PrepareBegin(c) ==
    /\ phase = "serving" /\ op = NoOp
    /\ kubelet[c] = "preparing"
    /\ cp[c] # "PrepareCompleted"
    /\ NoOverlappingPreparedDevices(c)
    /\ op' = Begin("prepare", c, "rollback", Leftovers(c))
    /\ UNCHANGED <<fixed, hardware, cluster, files, phase, allocatable, migSeen,
                   candidate, other, history>>

(* Mutant: nobody asks whether the device belongs to another claim by now. *)
UsedByUnchecked(d) == FALSE

(* deleteMigDevIfExistsAndNotUsedByCompletedClaim *)
UsedByCompleted(d) == \E c \in Completed : d \in DevicesOf[c]

RollbackDevice(d) ==
    /\ op.step = "rollback" /\ phase = "serving" /\ d \in op.todo
    /\ \/ /\ UsedByCompleted(d) \/ d \notin LiveMigDevices
          /\ GoTo("rollback", op.todo \ {d})
          /\ UNCHANGED <<gi, ci, giID, migMode>>
       \/ /\ ~UsedByCompleted(d) /\ d \in LiveMigDevices
          /\ \E r \in DeleteMigDevice(migSeen, {d}) :
                /\ SetMig(r)
                /\ op' = IF r.ok THEN [op EXCEPT !.todo = @ \ {d}] ELSE NoOp
    /\ UNCHANGED <<fixed, bound, sharing, mpsDeployed, mpsRoot, cluster, files,
                   phase, allocatable, migSeen, candidate, other, history>>

PrepareStarted ==
    /\ At("prepare", "rollback") /\ op.todo = {}
    /\ SetEntry(ClaimOf, "PrepareStarted")
    /\ GoTo("apply", DevicesOf[ClaimOf])
    /\ disturbed' = (disturbed \cup Sharers(ClaimOf)) \ {ClaimOf}
    /\ UNCHANGED <<fixed, hardware, cluster, boot, preparedGI, specs, phase,
                   allocatable, migSeen, candidate, other, faults>>

(* SetTimeSlice also sets the compute mode. *)
TimeSlice(s) == [compute |-> "DEFAULT", slice |-> s]

(* IsControlDaemonStarted *)
ControlDaemonStarted(c) == c \in mpsDeployed

(* The second half of prepareDevices: the dynamic MIG devices are created. *)
CreateDevices == GoTo("create", op.todo \cap Migs)

(* prepareDevices: every device must be allocatable now, then the config   *)
(* is applied: time slices here, MPS and vfio-pci in steps of their own.   *)
ApplyConfig ==
    /\ At("prepare", "apply")
    /\ DevicesOf[ClaimOf] \subseteq allocatable
    /\ CASE "vfio" \in op.todo -> GoTo("unbind", {}) /\ UNCHANGED <<sharing, mpsRoot>>
         [] SharingOf[ClaimOf] = "Mps" /\ MpsOn ->
              IF ControlDaemonStarted(ClaimOf)
              THEN GoTo("ready", op.todo) /\ UNCHANGED <<sharing, mpsRoot>>
              ELSE /\ GoTo("mode", op.todo)
                   /\ mpsRoot' = mpsRoot \cup {ClaimOf}
                   /\ UNCHANGED sharing
         [] OTHER ->
              /\ CreateDevices
              /\ IF TimeSlicing /\ "gpu" \in op.todo
                 THEN NvidiaSmi /\ sharing' = TimeSlice(SharingOf[ClaimOf])
                 ELSE UNCHANGED sharing
              /\ UNCHANGED mpsRoot
    /\ UNCHANGED <<fixed, gi, ci, giID, migMode, bound, mpsDeployed, cluster, files,
                   phase, allocatable, migSeen, candidate, other, history>>

(* MpsControlDaemon.Start, once its directories are there *)
MpsMode ==
    /\ At("prepare", "mode")
    /\ "gpu" \in op.todo => NvidiaSmi
    /\ sharing' = IF "gpu" \in op.todo
                  THEN [sharing EXCEPT !.compute = "EXCLUSIVE_PROCESS"] ELSE sharing
    /\ GoTo("deploy", op.todo)
    /\ UNCHANGED <<fixed, gi, ci, giID, migMode, bound, mpsDeployed, mpsRoot, cluster,
                   files, phase, allocatable, migSeen, candidate, other, history>>

MpsDeploy ==
    /\ At("prepare", "deploy")
    /\ mpsDeployed' = mpsDeployed \cup {ClaimOf}
    /\ GoTo("ready", op.todo)
    /\ UNCHANGED <<fixed, gi, ci, giID, migMode, bound, sharing, mpsRoot, cluster,
                   files, phase, allocatable, migSeen, candidate, other, history>>

MpsAssertReady ==
    /\ At("prepare", "ready")
    /\ ControlDaemonStarted(ClaimOf)
    /\ CreateDevices
    /\ UNCHANGED <<fixed, hardware, cluster, files, phase, allocatable, migSeen,
                   candidate, other, history>>

(* VfioPciManager.Configure: nothing to do on vfio-pci; otherwise unbind,  *)
(* then bind.  A GPU without a driver is refused (getDriver fails).  With  *)
(* the driver the GPU loses its settings.                                  *)
VfioUnbind ==
    /\ At("prepare", "unbind")
    /\ \/ /\ bound = "vfio-pci"
          /\ GoTo("create", {}) /\ UNCHANGED <<bound, sharing>>
       \/ /\ bound = "nvidia"
          /\ GoTo("bind", {})
          /\ bound' = "none" /\ sharing' = DefaultSharing
    /\ UNCHANGED <<fixed, gi, ci, giID, migMode, mpsDeployed, mpsRoot, cluster,
                   files, phase, allocatable, migSeen, candidate, other, history>>

VfioBind ==
    /\ At("prepare", "bind")
    /\ bound' = "vfio-pci"
    /\ GoTo("create", {})
    /\ UNCHANGED <<fixed, gi, ci, giID, migMode, sharing, mpsDeployed, mpsRoot,
                   cluster, files, phase, allocatable, migSeen, candidate, other, history>>

(* createMigDevice: MIG mode, the GPU instance (the driver may refuse it,  *)
(* as it does when the placement is occupied), then its compute instance.  *)
(* The driver numbers GPU instances as it likes, with ids that are free.   *)
CreateGpuInstance(d) ==
    /\ At("prepare", "create")
    /\ d \in op.todo
    /\ migMode' = TRUE
    /\ \/ /\ \A e \in gi : SlicesOf[d] \cap SlicesOf[e] = {}
          /\ gi' = gi \cup {d}
          /\ \E i \in Ids \ {giID[e] : e \in gi} : giID' = [giID EXCEPT ![d] = i]
          /\ op' = [op EXCEPT !.step = "ci", !.dev = {d}]
       \/ op' = NoOp /\ UNCHANGED <<gi, giID>>
    /\ UNCHANGED <<fixed, ci, bound, sharing, mpsDeployed, mpsRoot, cluster,
                   files, phase, allocatable, migSeen, candidate, other, history>>

CreateComputeInstance(d) ==
    /\ At("prepare", "ci")
    /\ d \in op.dev
    /\ ci' = ci \cup {d}
    /\ op' = [op EXCEPT !.step = "create", !.todo = @ \ {d}, !.dev = {},
                        !.ids[d] = giID[d]]
    /\ UNCHANGED <<fixed, gi, giID, migMode, bound, sharing, mpsDeployed, mpsRoot,
                   cluster, files, phase, allocatable, migSeen, candidate, other,
                   history>>

(* prepareDevices is done: on a Passthrough node the other device of the   *)
(* GPU is no longer allocatable (RemoveSiblingDevices).                    *)
Siblings(d) == {"gpu", "vfio"} \ {d}

RemoveSiblings ==
    /\ At("prepare", "create") /\ op.todo = {}
    /\ allocatable' = IF Passthrough
                      THEN allocatable \ UNION {Siblings(d) :
                                d \in DevicesOf[ClaimOf] \cap allocatable}
                      ELSE allocatable
    /\ GoTo("spec", {})
    /\ UNCHANGED <<fixed, hardware, cluster, files, phase, migSeen, candidate,
                   other, history>>

CreateClaimSpecFile ==
    /\ At("prepare", "spec")
    /\ specs' = specs \cup {ClaimOf}
    /\ GoTo("completed", {})
    /\ UNCHANGED <<fixed, hardware, cluster, cp, boot, preparedGI, phase, allocatable,
                   migSeen, candidate, other, history>>

PrepareCompleted ==
    /\ At("prepare", "completed")
    /\ SetEntry(ClaimOf, "PrepareCompleted")
    /\ preparedGI' = [preparedGI EXCEPT ![ClaimOf] = op.ids]
    /\ GoTo("publish", {})
    /\ UNCHANGED <<fixed, hardware, cluster, boot, specs, phase, allocatable, migSeen,
                   candidate, other, history>>

(* nodePrepareResource: publish again on a Passthrough node, and answer.   *)
(* The kubelet may have given up on the pod in the meantime.               *)
PrepareReturns ==
    /\ At("prepare", "publish")
    /\ Publish
    /\ kubelet' = [kubelet EXCEPT ![ClaimOf] = IF @ = "preparing" THEN "prepared" ELSE @]
    /\ op' = NoOp
    /\ UNCHANGED <<fixed, hardware, api, files, phase, allocatable, migSeen,
                   candidate, other, history>>

(* Any step returns an error: the kubelet tries again. *)
OpFails ==
    /\ phase = "serving" /\ op.kind # "none"
    /\ op' = NoOp
    /\ UNCHANGED <<fixed, hardware, cluster, files, phase, allocatable, migSeen,
                   candidate, other, history>>

-----------------------------------------------------------------------------
(* Unprepare, for the kubelet or for the checkpoint cleanup *)

(* Whom the answer goes to: the kubelet only learns of its own requests. *)
Unprepared(c) ==
    IF c \in candidate
    THEN candidate' = candidate \ {c} /\ UNCHANGED kubelet
    ELSE UNCHANGED candidate /\ kubelet' = [kubelet EXCEPT ![c] = "idle"]

Requested(c) == kubelet[c] = "unpreparing" \/ c \in candidate

UnprepareNoop(c) ==
    /\ phase = "serving" /\ op = NoOp
    /\ Requested(c) /\ cp[c] = "none"
    /\ op' = Begin("unprepare", c, "publish", {})
    /\ UNCHANGED <<fixed, hardware, cluster, files, phase, allocatable, migSeen,
                   candidate, other, history>>

UnprepareBegin(c) ==
    /\ phase = "serving" /\ op = NoOp
    /\ Requested(c) /\ cp[c] # "none"
    /\ op' = IF cp[c] = "PrepareStarted"
             THEN Begin("unprepare", c, "rollback", Leftovers(c))
             ELSE Begin("unprepare", c, "vfio",
                        IF Passthrough THEN DevicesOf[c] \cap {"vfio"} ELSE {})
    /\ disturbed' = IF cp[c] = "PrepareCompleted"
                    THEN disturbed \cup Sharers(c) ELSE disturbed
    /\ UNCHANGED <<fixed, hardware, cluster, files, phase, allocatable, migSeen,
                   candidate, other, faults>>

(* Mutant: the settings of the GPU are undone as well. *)
RollbackResets ==
    /\ At("unprepare", "rollback") /\ op.todo = {}
    /\ GoTo("reset", {})
    /\ UNCHANGED <<fixed, hardware, cluster, files, phase, allocatable, migSeen,
                   candidate, other, history>>

(* Nothing but MIG devices is undone for a partially prepared claim, and   *)
(* no sibling is looked for: its entry has no prepared devices.            *)
RollbackDone ==
    /\ At("unprepare", "rollback") /\ op.todo = {}
    /\ GoTo("spec", {})
    /\ UNCHANGED <<fixed, hardware, cluster, files, phase, allocatable, migSeen,
                   candidate, other, history>>

(* unprepareVfioDevices: the device must be allocatable; Unconfigure binds *)
(* the GPU to nvidia again, by way of no driver at all.                    *)
UnprepareVfio ==
    /\ At("unprepare", "vfio")
    /\ \/ /\ op.todo = {} \/ bound = "nvidia"
          /\ op.todo \subseteq allocatable
          /\ GoTo("delete", IF Dynamic THEN MigNames(ClaimOf) ELSE {})
          /\ UNCHANGED bound
       \/ /\ op.todo # {} /\ op.todo \subseteq allocatable /\ bound = "vfio-pci"
          /\ bound' = "none"
          /\ GoTo("bind", op.todo)
    /\ UNCHANGED <<fixed, gi, ci, giID, migMode, sharing, mpsDeployed, mpsRoot,
                   cluster, files, phase, allocatable, migSeen, candidate, other, history>>

(* Off the nvidia driver nothing has been set meanwhile. *)
NvidiaBind ==
    /\ At("unprepare", "bind")
    /\ bound' = "nvidia"
    /\ GoTo("vfio", {})
    /\ UNCHANGED <<fixed, gi, ci, giID, migMode, sharing, mpsDeployed, mpsRoot,
                   cluster, files, phase, allocatable, migSeen, candidate, other, history>>

(* The MIG devices are known by their ids, and by nothing else: a GPU      *)
(* instance without compute instance is found here, and in a second        *)
(* attempt one that got the id since the first.                            *)
UnprepareMig(d) ==
    /\ At("unprepare", "delete") /\ d \in op.todo
    /\ LET found == {x \in gi : giID[x] = preparedGI[ClaimOf][d]}
       IN  \E r \in DeleteMigDevice(migSeen, found) :
              /\ SetMig(r)
              /\ op' = IF r.ok THEN [op EXCEPT !.todo = @ \ {d}] ELSE NoOp
              /\ disturbed' = disturbed \cup Users((ci \ r.ci) \ {d})
    /\ UNCHANGED <<fixed, bound, sharing, mpsDeployed, mpsRoot, cluster, files,
                   phase, allocatable, migSeen, candidate, other, faults>>

(* MpsControlDaemon.Stop: a missing root directory means there is none. *)
MpsStop ==
    /\ At("unprepare", "delete") /\ op.todo = {}
    /\ \/ /\ ~MpsOn \/ ClaimOf \notin mpsRoot
          /\ GoTo("reset", {}) /\ UNCHANGED mpsDeployed
       \/ /\ MpsOn /\ ClaimOf \in mpsRoot
          /\ mpsDeployed' = mpsDeployed \ {ClaimOf}
          /\ GoTo("umount", {})
    /\ UNCHANGED <<fixed, gi, ci, giID, migMode, bound, sharing, mpsRoot, cluster,
                   files, phase, allocatable, migSeen, candidate, other, history>>

MpsRemoveRoot ==
    /\ At("unprepare", "umount")
    /\ mpsRoot' = mpsRoot \ {ClaimOf}
    /\ GoTo("reset", {})
    /\ UNCHANGED <<fixed, gi, ci, giID, migMode, bound, sharing, mpsDeployed, cluster,
                   files, phase, allocatable, migSeen, candidate, other, history>>

(* Back to the default time slice, for full GPUs *)
ResetTimeSlice ==
    /\ At("unprepare", "reset")
    /\ \/ /\ TimeSlicing /\ "gpu" \in DevicesOf[ClaimOf]
          /\ NvidiaSmi
          /\ sharing' = TimeSlice("Default")
       \/ /\ ~(TimeSlicing /\ "gpu" \in DevicesOf[ClaimOf])
          /\ UNCHANGED sharing
    /\ GoTo("siblings", {})
    /\ UNCHANGED <<fixed, gi, ci, giID, migMode, bound, mpsDeployed, mpsRoot, cluster,
                   files, phase, allocatable, migSeen, candidate, other, history>>

(* discoverGPUByPCIBusID finds a GPU on the nvidia driver only; the vfio   *)
(* device is on the PCI bus in any case (discoverVfioDevice).              *)
Discoverable(d) == d = "vfio" \/ bound = "nvidia"

(* discoverSiblingAllocatables *)
DiscoverSiblings ==
    /\ At("unprepare", "siblings")
    /\ LET found == UNION {Siblings(d) : d \in DevicesOf[ClaimOf] \cap allocatable}
       IN  \/ ~Passthrough /\ UNCHANGED allocatable
           \/ /\ Passthrough
              /\ \A d \in found : Discoverable(d)
              /\ allocatable' = allocatable \cup found
    /\ GoTo("spec", {})
    /\ UNCHANGED <<fixed, hardware, cluster, files, phase, migSeen, candidate,
                   other, history>>

(* A spec file that cannot be deleted is only logged. *)
DeleteClaimSpecFile ==
    /\ At("unprepare", "spec")
    /\ specs' \in {specs, specs \ {ClaimOf}}
    /\ GoTo("entry", {})
    /\ UNCHANGED <<fixed, hardware, cluster, cp, boot, preparedGI, phase, allocatable,
                   migSeen, candidate, other, history>>

DeleteClaimFromCheckpoint ==
    /\ At("unprepare", "entry")
    /\ SetEntry(ClaimOf, "none")
    /\ preparedGI' = [preparedGI EXCEPT ![ClaimOf] = NoIDs]
    /\ GoTo("publish", {})
    /\ UNCHANGED <<fixed, hardware, cluster, boot, specs, phase, allocatable, migSeen,
                   candidate, other, history>>

UnprepareReturns ==
    /\ At("unprepare", "publish")
    /\ Publish
    /\ Unprepared(ClaimOf)
    /\ op' = NoOp
    /\ UNCHANGED <<fixed, hardware, api, files, phase, allocatable, migSeen,
                   other, history>>

-----------------------------------------------------------------------------
(* CheckpointCleanupManager: entries in PrepareStarted whose claim is gone *)

FindStale(c) ==
    /\ phase = "serving" /\ candidate = {}
    /\ cp[c] = "PrepareStarted" /\ c \notin api
    /\ candidate' = {c}
    /\ UNCHANGED <<fixed, hardware, cluster, files, phase, allocatable, migSeen,
                   op, other, history>>

(* An error of its Unprepare is logged; the next round finds the claim again. *)
CleanupGivesUp ==
    /\ candidate # {} /\ candidate \cap op.claims = {}
    /\ candidate' = {}
    /\ UNCHANGED <<fixed, hardware, cluster, files, phase, allocatable, migSeen,
                   op, other, history>>

-----------------------------------------------------------------------------
(* Crash, reboot and start *)

Crash ==
    /\ phase # "down" /\ faults > 0
    /\ faults' = faults - 1
    /\ phase' = "down" /\ op' = NoOp /\ candidate' = {} /\ allocatable' = {}
    /\ UNCHANGED <<fixed, hardware, cluster, files, migSeen, other, disturbed>>

(* MIG devices, driver bindings, CDI specs (under /var/run) and GPU        *)
(* settings do not survive a reboot; checkpoint, MPS directories and       *)
(* Deployments do.  Running pods are prepared again.                       *)
Reboot ==
    /\ faults > 0 /\ boot = "current"
    /\ faults' = faults - 1
    /\ gi' = {} /\ ci' = {} /\ giID' = NoIDs /\ migMode' = ~toggle
    /\ bound' = "nvidia" /\ sharing' = DefaultSharing
    /\ specs' = {} /\ boot' = "old"
    /\ kubelet' = [c \in Claims |-> IF kubelet[c] = "prepared" THEN "preparing"
                                    ELSE kubelet[c]]
    /\ phase' = "down" /\ op' = NoOp /\ candidate' = {} /\ allocatable' = {}
    /\ other' = NoOther
    /\ UNCHANGED <<fixed, mpsDeployed, mpsRoot, api, published, cp, preparedGI,
                   migSeen, disturbed>>

(* isDynamicMIGCapable; on Ampere out of MIG mode nothing is dynamic. *)
DynamicMIGCapable == Dynamic /\ (toggle \/ migMode)

(* getGpuInfo: what is remembered of the GPU and changes later. *)
GetGpuInfo == migMode

(* inspectMigProfilesAndPlacements: every profile at every placement, used *)
(* or not.                                                                 *)
MigProfilesAndPlacements == Migs

(* GetPerGpuAllocatableDevices: NVML has the GPU on the nvidia driver only. *)
PerGpuAllocatable ==
    IF DynamicMIGCapable
    THEN MigProfilesAndPlacements \cup (IF ~migMode \/ toggle THEN {"gpu"} ELSE {})
    ELSE IF bound = "nvidia" /\ ~migMode THEN {"gpu"} ELSE {}

(* enumerateGpuVfioDevices, on the PCI bus. *)
VfioDevices == IF Passthrough THEN {"vfio"} ELSE {}

(* enumerateAllPossibleDevices *)
Enumerated == PerGpuAllocatable \cup VfioDevices

(* NewDeviceState: a checkpoint of an earlier boot is replaced by an empty *)
(* one, one without boot ID gets the current one.  Of a GPU that a claim   *)
(* has in full, the passthrough device is allocatable again.               *)
NewDeviceState ==
    /\ phase = "down" /\ other.step = "none"
    /\ phase' = "starting"
    /\ allocatable' = Enumerated
    /\ migSeen' = GetGpuInfo
    /\ cp' = IF boot = "old" THEN NoClaims ELSE cp
    /\ preparedGI' = IF boot = "old" THEN [c \in Claims |-> NoIDs] ELSE preparedGI
    /\ boot' = "current"
    /\ disturbed' = IF Passthrough THEN disturbed \cup Users({"gpu"}) ELSE disturbed
    /\ UNCHANGED <<fixed, hardware, cluster, specs, op, candidate, other, faults>>

(* DestroyUnknownMIGDevices, one device at a time; it is given up at the   *)
(* first error.                                                            *)
DestroyUnknown(d) ==
    /\ phase = "starting" /\ Dynamic
    /\ d \in LiveMigDevices /\ ~UsedByCompleted(d)
    /\ \E r \in DeleteMigDevice(migSeen, {d}) :
          SetMig(r) /\ phase' = IF r.ok THEN "starting" ELSE "started"
    /\ UNCHANGED <<fixed, bound, sharing, mpsDeployed, mpsRoot, cluster, files,
                   allocatable, migSeen, op, candidate, other, history>>

DestroyedUnknown ==
    /\ phase = "starting"
    /\ phase' = "started"
    /\ \/ UNCHANGED migMode      \* an error, or no dynamic MIG
       \/ /\ Dynamic /\ \A d \in LiveMigDevices : UsedByCompleted(d)
          /\ \E m \in MaybeDisableMigMode(migSeen, gi, ci, migMode) : migMode' = m.on
    /\ UNCHANGED <<fixed, gi, ci, giID, bound, sharing, mpsDeployed, mpsRoot, cluster,
                   files, allocatable, migSeen, op, candidate, other, history>>

(* The rest of NewDriver: the plugin serves and publishes its devices. *)
Serve ==
    /\ phase = "started"
    /\ phase' = "serving"
    /\ published' = DriverResources
    /\ UNCHANGED <<fixed, hardware, api, kubelet, files, allocatable, migSeen,
                   op, candidate, other, history>>

(* An upgrade: the new process takes no lock before it destroys the MIG    *)
(* devices that it does not know from the checkpoint, and the old one may  *)
(* still serve.  That both serve at once is left out.                      *)
OtherStarts ==
    /\ phase = "serving" /\ Dynamic /\ other.step = "none"
    /\ faults > 0
    /\ faults' = faults - 1
    /\ other' = [step |-> "destroy", seen |-> GetGpuInfo,
                 expected |-> {d \in Migs : UsedByCompleted(d)}]
    /\ UNCHANGED <<fixed, hardware, cluster, files, phase, allocatable, migSeen, op,
                   candidate, disturbed>>

OtherDestroys(d) ==
    /\ other.step = "destroy"
    /\ d \in LiveMigDevices \ other.expected
    /\ \E r \in DeleteMigDevice(other.seen, {d}) :
          /\ SetMig(r)
          /\ other' = [other EXCEPT !.step = IF r.ok THEN "destroy" ELSE "done"]
          /\ disturbed' = disturbed \cup Users(ci \ r.ci)
    /\ UNCHANGED <<fixed, bound, sharing, mpsDeployed, mpsRoot, cluster, files, phase,
                   allocatable, migSeen, op, candidate, faults>>

(* The old process is gone, whatever it was doing. *)
HandOver ==
    /\ other.step # "none"
    /\ phase' = "started" /\ op' = NoOp /\ candidate' = {} /\ other' = NoOther
    /\ allocatable' = Enumerated /\ migSeen' = other.seen
    /\ \/ UNCHANGED migMode
       \/ /\ other.step = "destroy" /\ LiveMigDevices \subseteq other.expected
          /\ \E m \in MaybeDisableMigMode(other.seen, gi, ci, migMode) :
                migMode' = m.on
    /\ UNCHANGED <<fixed, gi, ci, giID, bound, sharing, mpsDeployed, mpsRoot, cluster,
                   files, history>>

-----------------------------------------------------------------------------
Operation ==
    \/ PrepareStarted \/ ApplyConfig \/ MpsMode \/ MpsDeploy \/ MpsAssertReady
    \/ VfioUnbind \/ VfioBind \/ RemoveSiblings \/ CreateClaimSpecFile
    \/ PrepareCompleted \/ PrepareReturns
    \/ RollbackDone \/ UnprepareVfio \/ NvidiaBind \/ MpsStop \/ MpsRemoveRoot
    \/ ResetTimeSlice \/ DiscoverSiblings \/ DeleteClaimSpecFile
    \/ DeleteClaimFromCheckpoint \/ UnprepareReturns
    \/ \E d \in Migs : RollbackDevice(d) \/ CreateGpuInstance(d)
                       \/ CreateComputeInstance(d) \/ UnprepareMig(d)

Next ==
    \/ \E c \in Claims : \/ PodStarts(c) \/ PodEnds(c) \/ ClaimDeleted(c)
                        \/ PrepareAgain(c) \/ PrepareBegin(c)
                        \/ UnprepareNoop(c) \/ UnprepareBegin(c) \/ FindStale(c)
    \/ Operation \/ OpFails \/ CleanupGivesUp
    \/ Crash \/ Reboot \/ NewDeviceState \/ DestroyedUnknown \/ Serve
    \/ OtherStarts \/ HandOver
    \/ \E d \in Migs : DestroyUnknown(d) \/ OtherDestroys(d)

Spec == Init /\ [][Next]_vars

-----------------------------------------------------------------------------
(* Properties *)

Prepared(c) == kubelet[c] = "prepared" /\ c \in api

(* The steps of Prepare that create something for the claim. *)
Creating == {"apply", "mode", "deploy", "ready", "unbind", "bind", "create", "ci",
             "spec", "completed"}

(* The steps of Unprepare when its MIG devices are dealt with, and with    *)
(* those that do so.                                                       *)
Undone == {"umount", "reset", "siblings", "spec", "entry"}
Undoing == {"rollback", "delete"} \cup Undone

(* The steps that only Unprepare of a completed claim has *)
Releasing == {"vfio", "bind", "delete", "umount", "reset", "siblings"}

(* Lock holder and checkpoint agree at every step: devices, bindings, MPS  *)
(* daemons and spec files are only made for a claim whose PrepareStarted   *)
(* entry is on disk and whose devices no completed claim has, and an       *)
(* answer is only given when the entry says so.                            *)
HolderAgrees ==
    /\ op.kind = "none" <=> op.claims = {}
    /\ \A c \in op.claims :
         /\ op.claims = {c} /\ phase = "serving"
         /\ op.todo \subseteq DevicesOf[c]
         /\ op.step = "ci" => op.dev \subseteq op.todo
         /\ op.kind = "prepare" =>
              /\ op.step \in Creating \cup {"rollback", "publish"}
              /\ op.step \in Creating => cp[c] = "PrepareStarted"
              /\ op.step = "publish" <=> cp[c] = "PrepareCompleted"
              /\ op.step # "publish" => NoOverlappingPreparedDevices(c)
         /\ op.kind = "unprepare" =>
              /\ op.step = "publish" <=> cp[c] = "none"
              /\ op.step = "rollback" => cp[c] = "PrepareStarted"
              /\ op.step \in Undone => op.todo = {}

(* No MIG devices are created, or left, where they are not dynamic. *)
NoMigs ==
    ~Dynamic =>
        /\ ci = {} /\ allocatable \cap Migs = {}
        /\ op.kind = "prepare" /\ op.step \in {"mode", "deploy", "ready", "create", "ci"}
           => op.todo \cap Migs = {}

(* A checkpoint of an earlier boot speaks of devices that are gone. *)
OldBoot == boot = "old" => phase = "down" /\ ci = {}

(* A second process is not met elsewhere. *)
OtherLives == other.step # "none" => Dynamic /\ boot # "old"

(* The devices that the lock holder has left to do *)
HolderWork ==
    \A c \in op.claims :
        /\ op.kind = "prepare" =>
             /\ op.step \in {"apply", "mode", "deploy", "ready"} => op.todo = DevicesOf[c]
             /\ op.step \in {"unbind", "bind"} => "vfio" \in DevicesOf[c]
             /\ op.step \in {"spec", "completed"} => op.todo = {}
        /\ op.kind = "unprepare" /\ op.step \in Releasing => cp[c] = "PrepareCompleted"

(* A compute instance is part of a GPU instance. *)
Instances ==
    /\ ci \subseteq gi
    /\ op.step = "ci" => op.dev \subseteq gi \ ci

(* A MIG device with admin access may have several claims. *)
AdminDevices == UNION {DevicesOf[a] : a \in Admin}

(* The ids in the checkpoint, or those that will be written to it, are     *)
(* those of the claim's devices as long as these live.                     *)
IdsAgree ==
    \A d \in ci \ AdminDevices :
        /\ \A c \in Completed : d \in DevicesOf[c] => giID[d] = preparedGI[c][d]
        /\ \A c \in op.claims :
             /\ d \in DevicesOf[c] \ op.todo /\ op.kind = "prepare"
             /\ op.step \in {"create", "ci", "spec", "completed"}
             => giID[d] = op.ids[d]

(* Unprepare leaves MIG devices only to other claims. *)
LeftToOthers ==
    op.kind = "unprepare" /\ op.step \in Undoing =>
        \A c \in op.claims, d \in ci \ AdminDevices :
            d \in DevicesOf[c] \ op.todo =>
                \E o \in Claims \ {c} : cp[o] # "none" /\ d \in DevicesOf[o]

(* What the pod of a prepared claim relies on is there as long as the      *)
(* kubelet wants it, whatever other claims, rollbacks, the cleanup,        *)
(* crashes and restarts do: the checkpoint entry and the CDI spec, and     *)
(* unless it is disturbed, the instances of its MIG devices, the vfio-pci  *)
(* binding with the full GPU withdrawn, its MPS daemon (Prepare,           *)
(* Unprepare, DestroyUnknownMIGDevices).  A claim is disturbed by          *)
(*  - a claim that shares a device because of admin access;                *)
(*  - an Unprepare that is tried again and meets the id of a GPU instance  *)
(*    in another one (deleteMigDevice does not compare UUIDs);             *)
(*  - a plugin process that starts while this one still prepares;          *)
(*  - a restart, for claims of the full GPU on a node with passthrough.    *)
PreparedIntact ==
    \A c \in Claims : Prepared(c) =>
        /\ cp[c] = "PrepareCompleted" /\ c \in specs
        /\ c \notin disturbed =>
             /\ DevicesOf[c] \cap Migs \subseteq gi \cap ci
             /\ "vfio" \in DevicesOf[c] => /\ bound = "vfio-pci"
                                           /\ "gpu" \notin allocatable \cup published
             /\ SharingOf[c] = "Mps" => c \in mpsDeployed

(* Claims whose preparation is complete never share a device, unless one   *)
(* has admin access, although claims in progress are not looked at         *)
(* (validateNoOverlappingPreparedDevices).                                 *)
DevicesExclusive ==
    \A c, o \in Completed \ Admin : c # o => DevicesOf[c] \cap DevicesOf[o] = {}

(* Every MIG device is named by a claim in the checkpoint, so that its     *)
(* Unprepare, the cleanup or a restart removes it, through any failure;    *)
(* but for devices with admin access, which one claim may re-create under  *)
(* another id than the other claim has in the checkpoint.                  *)
MigAccounted ==
    \A d \in ci \ AdminDevices : \E c \in Claims : cp[c] # "none" /\ d \in DevicesOf[c]

(* With these, DevicesExclusive and MigAccounted are inductive. *)
GpuInv ==
    /\ LockTyped
    /\ HolderAgrees
    /\ NoMigs
    /\ OldBoot
    /\ LeftToOthers
    /\ DevicesExclusive
    /\ MigAccounted
    /\ IdsTyped
    /\ OtherLives
    /\ HolderWork
    /\ Instances
    /\ IdsAgree

(* The GPU stays on the nvidia driver, with the compute mode and the time  *)
(* slice of the prepared claim that has it with time-slicing, whatever     *)
(* attempts for other claims were made before or are made meanwhile, but   *)
(* for those that disturb it (SetTimeSlice, MpsControlDaemon, Configure).  *)
SharingKept ==
    \A c \in Claims \ disturbed :
        (Prepared(c) /\ "gpu" \in DevicesOf[c] /\ SharingOf[c] # "Mps" /\ TimeSlicing) =>
            bound = "nvidia" /\ sharing = TimeSlice(SharingOf[c])

(* Nobody relies on the claim any more. *)
Leaving(c) == kubelet[c] = "unpreparing" \/ c \notin api

(* The node is set up for a claim, but for the MIG devices in todo; and    *)
(* its passthrough device is the only one of the GPU.                      *)
SetUp(c, todo) ==
    /\ (DevicesOf[c] \cap Migs) \ todo \subseteq gi \cap ci
    /\ "vfio" \in DevicesOf[c] => Passthrough /\ bound = "vfio-pci"
    /\ SharingOf[c] = "Mps" => c \in mpsDeployed
    /\ "gpu" \in DevicesOf[c] /\ SharingOf[c] # "Mps" /\ TimeSlicing =>
         bound = "nvidia" /\ sharing = TimeSlice(SharingOf[c])
Withdrawn(c) ==
    /\ "vfio" \in DevicesOf[c] => "gpu" \notin allocatable
    /\ "gpu" \in DevicesOf[c] /\ Passthrough => "vfio" \notin allocatable

(* How far Prepare is, and what Unprepare starts from *)
HolderProgress ==
    \A c \in op.claims :
        /\ op.kind = "prepare" =>
             /\ SharingOf[c] = "Mps" => MpsOn
             /\ op.step \in Creating \ {"apply", "spec", "completed"} =>
                  DevicesOf[c] \subseteq allocatable
             /\ op.step \in {"mode", "deploy", "ready"} => SharingOf[c] = "Mps"
             /\ op.step \in {"create", "ci", "spec", "completed"} /\ c \notin disturbed =>
                  SetUp(c, op.todo)
             /\ op.step \in {"spec", "completed"} => Withdrawn(c)
             /\ op.step = "completed" => c \in specs
        /\ op.kind = "unprepare" =>
             /\ Leaving(c)
             /\ op.step = "vfio" => op.todo \subseteq {"vfio"}
             /\ op.step = "bind" => "vfio" \in DevicesOf[c]

(* What the kubelet does about a claim agrees with checkpoint and lock. *)
KubeletAgrees ==
    \A c \in Claims :
        /\ kubelet[c] = "idle" /\ c \in api => cp[c] = "none" /\ c \notin op.claims
        /\ kubelet[c] # "idle" /\ SharingOf[c] = "Mps" => MpsOn
        /\ Prepared(c) => /\ cp[c] = "PrepareCompleted" /\ boot # "old"
                          /\ "vfio" \in DevicesOf[c] /\ c \notin disturbed =>
                               "gpu" \notin published
        /\ c \in candidate => c \notin api

(* The node stays set up for a completed claim until somebody gives it up. *)
CompletedSetUp ==
    \A c \in Completed : boot # "old" /\ ~Leaving(c) =>
        c \in specs /\ (c \notin disturbed => SetUp(c, {}) /\ Withdrawn(c))

(* Those who share a device are disturbed before anything is done to it. *)
SharersDisturbed ==
    \A c \in op.claims :
        \/ op.kind = "prepare" /\ op.step \in Creating
        \/ op.kind = "unprepare" /\ op.step \in Releasing
        => Sharers(c) \subseteq disturbed

(* With GpuInv and these, PreparedIntact and SharingKept are inductive. *)
SetUpInv ==
    /\ kubelet \in [Claims -> {"idle", "preparing", "prepared", "unpreparing"}]
    /\ ValidGates(gates)
    /\ "vfio" \in allocatable => Passthrough
    /\ HolderProgress
    /\ SharersDisturbed
    /\ KubeletAgrees
    /\ CompletedSetUp

=============================================================================
