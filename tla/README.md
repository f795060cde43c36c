# TLA+ models of the NVIDIA DRA driver

The driver makes GPUs and IMEX channels available to Kubernetes pods through
Dynamic Resource Allocation. One kubelet plugin hands out GPUs, MIG devices and
passthrough GPUs; another one, with a controller and a daemon, runs
**ComputeDomains**: groups of nodes whose GPUs exchange memory over NVLink, for
which an IMEX daemon must run on every node and know its peers. These
specifications model the parts that run concurrently, survive crashes, keep files
or hardware in step, and talk through objects in the API server. TLC checks them on
small instances, and TLAPS proves the central invariants for every instance.

## The system

| Part | State | Operations | Hard because |
|---|---|---|---|
| `compute-domain-daemon`, one pod per node | its entry in the `ComputeDomainClique`, or in the ComputeDomain's status (feature gate); pod readiness; previous list | create the clique, insert itself, set its status, remove itself | stale copies, conflicts, kills, re-used addresses, garbage collection |
| its process manager | `m.handle`, mutex, `waitResChan`, hosts/nodes file | start, stop, restart, signal, watchdog; update loops | three goroutines, unlocked reads, an unbuffered channel, shutdown |
| its DNS names | map from addresses to names, `/etc/hosts` | rewrite on every passed-on list | lists are skipped, old lists |
| `compute-domain-controller` | ComputeDomains, DaemonSets, ResourceClaimTemplates, node labels, status, clique entries | create and delete the objects of a domain (finalizers), sync status, clean up | informers that lag, mutation caches, partial failure, several writers, change of leader |
| `compute-domain-kubelet-plugin` | checkpoint file, CDI specs, domain directories, node label | Prepare, Unprepare, checkpoint cleanup, artifact cleanup, startup | crash between steps, reboot, two plugins, co-dependent prepares |
| `gpu-kubelet-plugin` | checkpoint, CDI specs, MIG devices, MPS daemons, driver bindings, GPU settings, ResourceSlices | Prepare, Unprepare, rollback, cleanup, startup | the same, plus hardware that must be undone |
| its health monitor | bounded channel of events, taints | NVML events, republishing | sends that block, sends that drop, start and stop |
| `pkg/workqueue`, `pkg/flock` | items per key; a lock file | enqueue, retry; acquire, release | a newer item replaces a failed one; polling, deadline and cancellation |
| webhook, API types, feature gates, checkpoint formats | configs, versions of a file | admit, decode, normalise, validate, convert | the same config is judged at different times by different versions |
| metrics, generated clients | counters | | nothing to check |

How they interact: a workload pod's channel claim is prepared by the kubelet
plugin, which labels the node; the controller's DaemonSet then starts a daemon pod
there, whose own claim is prepared by the same plugin; the daemon enters itself
into the clique of its node, starts `nvidia-imex` with the peers it finds there,
and reports readiness; only then the plugin lets the channel claim through.

## Modules

| Module | Models | Run by |
|---|---|---|
| `SlotRegistry` | abstract: every node gets one slot, the lowest free one | (refined by `CDClique`) |
| `CDClique` | one clique object, its daemons, the controller's cleanup, the garbage collector | `MCCDClique` |
| `DNSNames` | `CDClique` plus the lists passed on and the hosts files | `MCDNSNames` |
| `DaemonProcess` | one daemon's worker, update loop, watchdog and child process | itself |
| `CDStatus` | the status of one ComputeDomain and all its writers, with cliques and without | `MCCDStatus` |
| `CDController` | a ComputeDomain, what it owns, node labels, and the controller that creates and deletes them | itself |
| `CDPlugin` | the ComputeDomain kubelet plugin of one node, with kubelet, claims, label and reboots | `MCCDPlugin` |
| `WorkQueue` | operators on the items of one key of a work queue | (used by `Requests`) |
| `Requests` | the kubelet's concurrent requests, a queue each, one file lock | `MCRequests` |
| `ClaimConfigs` | opaque configs from webhook to Unprepare, checkpoint formats, driver versions | `MCClaimConfigs` |
| `GpuPlugin` | the GPU kubelet plugin of a node with one GPU | `MCGpuPlugin` |
| `GpuHealth` | NVML event loop, channel, taints | `MCGpuHealth` |
| `CDCliqueProofs` (with `DNSNames`), `CDPluginProofs`, `CDStatusProofs`, `CDControllerProofs`, `GpuPluginProofs`, `DaemonProcessProofs`, `RequestsProofs`, `ClaimConfigsProofs` | the proofs | TLAPS |

**CDClique.** Optimistic concurrency is modelled without version numbers: each
copy of the object carries whether it is still the current one, and every
successful write makes the others stale. An `Update` from a stale copy is refused,
changes nothing and is retried, so it is a disabled action. The list of daemons
is a set of records; nothing in its type prevents two entries for a node or with
an index. `OnAddOrUpdate` is the whole work item of key `cdclique`
(`syncDaemonInfoToClique`, `ensureOwnerReference`, the `Update` and the mutation
cache); its other half, `maybePushDaemonsUpdate`, is added in `DNSNames`. A cleanup
goroutine keeps the pods it was started with; one whose clique is no longer current
can only be refused and is dropped. Owner references are sets of nodes; `orphans`
stands for references to pods that are gone.

**DNSNames.** `PassOn` and `UpdateAndPassOn` are the two outcomes of
`onAddOrUpdate`. A list is passed on when its set of addresses differs; the hosts
file then is any map from addresses to names that the list allows (the code keeps
the last entry of an address, and the order of the list is not modelled).

**DaemonProcess.** Every unlocked read of `m.handle`, every critical section and
every channel operation is a step. `stop()` keeps the mutex while it waits.
`lost()` gives up when it does not get the mutex. Failures to execute the binary
or to write a file end the program and are left out.

**CDStatus.** The feature gate `ComputeDomainCliques` is a variable. Without it the
daemons write `Status.Nodes` themselves, with copies as in `CDClique`; with it the
cliques are the atomic registry that `CDClique` is proved to implement, and the
controller's `syncCD` copies what its informer has of them (`ObserveClique`). In both
modes `syncCD` adds the nodes without fabric from its pod list, and the global status
has three writers.

**CDController.** The worker runs one handler at a time, one API call per step, from
a copy of the ComputeDomain; reads come from the informers (`cache`) and from the
mutation caches (`made`, `ghost`). Any call may fail, and the handler is then run
again. `Failover` stands for a crash or a lost lease: a new leader starts with
synced informers and empty mutation caches, and a creation of the old one may still
arrive (`late`). The cleanup managers run beside the worker.

**CDPlugin.** `op` is the operation that holds the file lock and its next effect:
`PrepareStarted` in the checkpoint, label, readiness check (or the daemon's
directory), CDI spec, `PrepareCompleted`; and label, CDI spec, checkpoint for
Unprepare. Between any two, the call may fail, the plugin may crash, the node may
reboot, and everything that takes no lock may happen: the cleanups, the informer, a
starting second plugin. A failed attempt leaves `PrepareStarted` behind and frees
the lock. The boot ID of the checkpoint is `current`, `old` or `legacy` (none).
A claim of the wrong namespace behaves as one of an unknown domain. For the claims in
`Misconfigured`, `getConfigResultsMap` fails: Prepare notices it after it has written
`PrepareStarted`, and Unprepare, which needs the configs too, fails in the same way
each time (`UnprepareFails`). One plugin at a time starts, beside one that serves.

**Requests, WorkQueue.** A request is a work queue with one item per claim, a
context that is done at its deadline, by the kubelet or when all is done, and a loop
that looks at it between two items. What Prepare and Unprepare do is in `CDPlugin`;
here a claim may need another one to be prepared. `overtaken` remembers claims for
which a cancelled request came last.

**ClaimConfigs.** One claim and one device. Configs are records of what the code
distinguishes (kind, strategy, which parts are set and valid, a field that only a
newer driver knows). Selection, normalisation, validation and the conversions of the
checkpoint are operators; `Switch` starts another version of the driver: one before
25.3.0 (`2503RC2`), one with the first format (`V1`), v25.12.0 (`V2`, both formats,
without boot ID), `this`, and a `newer` one. A file has a checksum over the fields
that its writer has emitted, and a reader that does not know one of them (boot ID,
device metadata) computes another. Only the ComputeDomain plugin reads the oldest
format. Unprepare selects again from the checkpointed status (ComputeDomain plugin),
or from the API server where an old version has left none, or goes by the
checkpointed devices (GPU plugin); `stuck` is where it fails for good.

**GpuPlugin.** As in `CDPlugin`, `op` is the lock holder and its next effect:
rollback of an earlier attempt, `PrepareStarted`, configs, MPS daemon, unbinding and
binding, GPU and compute instances, siblings, CDI spec, `PrepareCompleted`, and the
way back. Every effect may fail and the plugin may crash before it. Which of them
there are depends on the feature gates of the node. NVML answers from `gi` and `ci`:
a GPU instance without compute instance has no MIG device handle. The driver numbers
GPU instances with any free id (`giID`); the checkpoint has the ids of a claim's
devices (`preparedGI`), by which Unprepare deletes them, whereas rollback and startup
go by name. `OtherStarts`, `OtherDestroys` and `HandOver` are a second process that
replaces the first during an upgrade and destroys unknown MIG devices while the first
still serves. `SetTimeSlice` runs two commands, of which the second alone failing is
not a state of its own. `disturbed` is a history variable: the claims to which one of
four things has happened since they were prepared, see the list below.

**GpuHealth.** The monitor blocks in the send of an XID event and drops other events
when the channel is full. `LostEvent` is the wait that fails as long as a GPU is
lost, `UUIDFails` the event whose device has no UUID, which is consumed. The driver
registers events before there is a consumer, and publishes devices without taints
while the consumer may already run.

## What the runs show

| Run | Checks |
|---|---|
| `clique` | the clique implements `SlotRegistry`: one entry and one stable index per node; running daemons get listed, departed ones removed, entries become `Ready` |
| `daemon` | handle, mutex and child agree; a running child has read the newest list; crashed children come back; loops end; with and without DNS names |
| `daemon_shutdown` (violated) | the worker can block for ever in the send to the update loop |
| `dns` | names and addresses are one to one in every file, a settled daemon has the clique's addresses, and running daemons end up with each other's |
| `cdstatus` | index unique and stable, addresses passed on, daemons reported and removed, global status follows the nodes |
| `controller` | nothing of a live domain is deleted, the finalizer goes last, creation and deletion complete, left-overs are collected |
| `plugin` | a prepared claim keeps entry and spec; one user of the channel; a label always has a claim that will remove it |
| `plugin_live` | stale entries go, except misconfigured claims'; co-dependent claims are both prepared beside a misconfigured one |
| `requests` | what the kubelet was told is true; every request is answered; co-dependent pods all run |
| `configs` | documented precedence; what is admitted decodes and is valid in Prepare; checkpoints survive up- and downgrades and what was applied is released, with the exceptions below |
| `gpu` | a prepared claim keeps entry and spec and, unless it is disturbed, MIG devices, binding and MPS daemon; devices (by name) have one owner; every MIG device has an entry; the GPU's driver and settings are those of its owner, unless that one is disturbed |
| `gpu_health` | XID, lost and unmonitored GPUs end up as taints in memory |

### Behaviours one may not expect

These follow from the code and are behaviours of the models, or cases that a
property leaves out in so many words.

Daemon:
- a worker in the send of `cdclique.go:422` never returns once the update loop has,
  so that `Stop` does not remove the daemon from the clique; nor, without cliques, one
  in the send of `cdstatus.go:352` (`daemon_shutdown`);
- the early return in `syncDaemonInfoToClique` (`cdclique.go:292`) skips
  `ensureOwnerReference`: a replaced pod with the same address is no owner;
- only sets of addresses are compared (`cdclique.go:418`): two nodes that exchange
  addresses keep their old names on a third node;
- a crash of the child while an update is applied (`process.go:63`, `149`) makes the
  daemon shut itself down instead of restarting the child;
- the update loop can start the child after the watchdog's final stop.

Status and controller:
- without cliques, the entry of a departed node stays as long as another pod has its
  address, which is all that `getNonStaleFabricNodes` looks at; an old pod list may
  drop a live entry, which then comes back;
- the DaemonSet handler writes `Ready` whatever the nodes say, until the next sync;
- two nodes without fabric share the pair of no clique and index -1;
- a creation that stops between the daemon's claim template and the DaemonSet,
  followed by a deletion, never completes: `Delete` looks no further when there is no
  DaemonSet (`Stranded`, excluded from `DeletionCompletes`).

ComputeDomain plugin:
- Unprepare of a partially prepared claim takes the node label from under a prepared
  claim of the same domain (`device_state.go:518`);
- the artifact cleanup does not wait for the informer (`computedomain.go:114`): a
  first sync slower than its ticker removes the directories of live domains;
- startup writes the checkpoint outside the lock: where it had no boot ID, an upgrade
  with two driver pods can undo a write (`Legacy`, `FALSE` in runs and theorems); and
  of two plugins that start together after a reboot, the second may empty the
  checkpoint after the first has prepared claims (not modelled);
- after a reboot the node label outlives the checkpoint (`LabelAccounted` makes no
  claim there);
- a cancelled Prepare may get the lock after the Unprepare of its claim has returned
  and leaves a `PrepareCompleted` entry, which the cleanup does not look at
  (`overtaken`, excluded from `ResponsesTrue`);
- a claim whose config does not decode, or does not match its device, fails in
  Prepare after `PrepareStarted` was written and can then not be unprepared either:
  once deleted, it is what the cleanup tries for ever, as the TODO in `cleanup.go:200`
  has it (`Misconfigured`, excluded from `StaleCleaned`);
- a claim that a version before 25.3.0 prepared, and that is gone from the API server,
  can never be unprepared (`device_state.go:285`, with a TODO; excluded from
  `ReleasesApplied`). A downgrade forgets claims in `PrepareStarted`.

GPU plugin:
- a GPU instance whose compute instance was not created is invisible to the rollback
  and to `DestroyUnknownMIGDevices`; it blocks its slices (`MigAccounted` speaks of
  MIG devices, which have both);
- `maybeDisableMigMode` looks at the GPU as it was enumerated;
- a crash between unbind and bind leaves the GPU without driver;
- partially prepared passthrough and MPS claims are not undone (only MIG devices
  are), and a retried MPS claim does not set the compute mode again;
- a claim with admin access sets and resets the settings of a GPU it does not own, and
  its Prepare and Unprepare re-create and remove MIG devices that another claim uses;
- a retried Unprepare deletes the GPU instance with the checkpointed id
  (`nvlib.go:1074`), which may be another claim's by then: the comparison of UUIDs is
  a comment (`nvlib.go:1102`);
- a process that starts while another serves destroys MIG devices that are being
  prepared, or were since it read the checkpoint (the TODO of `device_state.go:342`);
- a start on a node with a prepared full GPU advertises its passthrough sibling again,
  and preparing that one takes the GPU from under the first claim;
- the last four are how a claim becomes `disturbed`: `PreparedIntact` then promises
  only its entry and its spec, `SharingKept` nothing;
- the overlap check compares names of devices, not slices.

Health and configs:
- a failed `PublishResources` after a taint (`driver.go:563`) is not retried: the
  taint shows with the next event; the first publication may hide a taint for as
  long; a non-fatal XID replaces a fatal one in the taint;
- an XID event whose device has no UUID is reported once, and not at all when the
  channel is full (`device_health.go:252`);
- the blocking send ignores the context, so that `Stop` may wait for a full channel;
- the webhook rejects `VfioDeviceConfig`, which Prepare accepts, and admits configs
  that Prepare refuses: those of the other plugin's kinds, those that do not match the
  device, and a config for a strategy that is not selected. `timeSlicingConfig: {}` has
  no interval;
- a version without boot ID rejects a checkpoint that has one, and an older one device
  metadata: `docs/upgrade.md:16` calls the downgrade unsupported, which
  `tests/bats/test_cd_updowngrade.bats:18` tests.

### Bounds

Every bound is a constant. `clique` has 2 nodes, 2 addresses and 2 indices: addresses
are re-used, and an index is always left (the proofs cover a full clique). Two nodes
race, and a third only adds a spectator; the proofs cover all sizes. The liveness
runs budget disturbances (`MaxDisturbances`, `MaxStops`, `MaxPods`), since only
finitely many of them are compatible with what they promise. `DaemonProcess` allows 3
updates (one in the file, one in the channel, one to come) and 2 crashes, and takes
the feature gate `IMEXDaemonsWithDNSNames` both ways. `cdstatus` has two nodes of a
clique, or one of them and a node without fabric. `controller` has one domain, one
node, two faults (a failed call or a change of leader each) and two labels. `plugin`
has two domains, one with two channel claims and a daemon claim, the other with one
of each, its channel claim with admin access; one failure, crash or reboot and three
changes by users. `plugin_live` has a channel claim, its daemon and a misconfigured
channel claim of the same domain, which comes and goes as it likes. `requests` has a
workload pod with two claims and the daemon pod one of them waits for, two requests
at a time and one fault. `configs` has every single config, and pairs of those that
differ in what selection looks at, five sets of gates and two switches of version.
`gpu` has nodes of several kinds, with two claims but where stated: MIG devices that
overlap in name, or in slices, on a GPU that is always in MIG mode; one claim on a GPU
that leaves it; passthrough; MPS; admin access. There are two ids for GPU instances
and one crash, reboot or second process; two claims that overlap in slices only have
none, which keeps the run short, and one of them alone has it.
`gpu_health` has two GPUs and three XID events for a channel of two.

Deadlock is checked where the system never rests (`clique`, `dns`, `plugin`,
`plugin_live`); the others may reach a state in which nothing is left to do.

### Fairness

- Informers deliver, tickers fire, Go schedules goroutines that can run, a request's
  deadline passes: weak fairness.
- The work queue retries with jittered back-off, and the file lock is polled:
  an attempt that is possible again and again finally happens (strong fairness
  for writes that need the current version, for the worker to take an item among
  others, and for getting the lock).
- `nvidia-imex` ends on SIGTERM; the code waits for it without a timeout.
- The kubelet calls until it succeeds (`Requests`).
- Pods, probes, users, crashes, NVML events and the garbage collector owe nothing.
  For `CDPlugin` and `Requests` the DaemonSet controller starts a daemon pod on a
  labelled node.

## Proofs

All of them are for every value of the constants: any sets of nodes, domains and
claims, and bounds of any size. Each module has an inductive invariant, or two; what a
run checks follows from it, and TLC checked it before it was proved. The assumptions
are the `ASSUME`s of the component modules, which the runs evaluate. Every invariant
and action property that a run checks is proved, and so is the refinement; what is
left to TLC alone is liveness.

**CDCliqueProofs.** `Inductive`: `Spec => []IndInv`, from which `TypeCorrect`,
`DistinctSlots` (one entry per node, one node per index), `IndexStability` and
`Refinement` follow: `CDClique` implements `SlotRegistry`. Distinct slots are not
inductive alone, because an `Update` writes a list computed from an older copy;
`CurrentCopies` says that a copy that the API server would accept equals the stored
object. There must be at least one index.
The module also has the proofs about `DNSNames`, whose clique is that of `CDClique`
(`HostsRefineClique`: `DNSSpec => Spec`). `HostsAreCorrect` needs `HostsInv`: every
copy a daemon holds, outdated ones too, was once the object and has one entry per
node and index, and the hosts file is that of the list passed on last.

**CDStatusProofs.** `StatusInvariant`: `Spec => []StatusInv`, then `UniqueIndices`
and `StableIndices`. `CurrentCopies` is needed as in
`CDClique`, for the daemons that write the status themselves; `SourcesUnique` says
that cliques and pod lists, from which `syncCD` builds it, have one entry per node;
`NoIndex` ties index -1 to nodes without fabric, which uniqueness leaves out.
`AddressesArePushed` follows with the same invariant: the work item is queued
whenever a copy changes, except by the daemon's own status writes, which are shown to
change neither the number of nodes nor an address. Since the code compares numbers,
this theorem needs a finite set of nodes.

**CDControllerProofs.** `ControllerInvariant`: `Spec => []ControllerInv`, then
`OwnedKept` (nothing of a live domain is deleted) and `FinalizerIsLast`.
`CopiesBehind` says that what informers, mutation caches and the worker's copy show
of a domain was true once, so that the delete branch, entered from a copy with a
deletion timestamp, means that the domain is really being deleted. `SeenAfterDomain`
says that an informer that has objects of a domain but not the domain has seen it go,
which is what the cleanup managers rely on. `ObjectsKnown` and `ReleasedGone` say
that a finalizer is removed only if the object is absent or a late creation of a
former leader.

**CDPluginProofs.** `PluginInvariant`: `~Legacy => (Spec => []PluginInv)`, then
`ChannelExclusive`, `PreparedStaysIntact` and `LabelIsAccounted`. `OpInv` relates the
step of the lock holder to the checkpoint, `BootInv` and `StaleInv` confine entries
of an earlier boot and candidates of the cleanup, `OneChannel` and `SpecInv` relate
entries to users and spec files. Without `~Legacy` the statement fails: a checkpoint
without boot ID is rewritten outside the lock. The label is accounted for by a claim
that is not misconfigured, since only such a claim's Prepare gets as far as the label.

**GpuPluginProofs.** `GpuInvariant`: `Spec => []GpuInv`, then `ExclusiveDevices` and
`AccountedMigs`. `HolderAgrees` and `HolderWork` relate the step of the lock holder
and what is left of it to the checkpoint: everything is made under a `PrepareStarted`
entry of a claim that passed the overlap check, and nobody else can complete
meanwhile. `LeftToOthers` says that what Unprepare has dealt with is gone or another
claim's, so that forgetting the entry orphans nothing. It needs `IdsAgree`: Unprepare
deletes by id, so the ids in the checkpoint, and those that the lock holder is going
to write, must be those of the claim's devices for as long as these live; `Instances`
(a compute instance is part of a GPU instance); `NoMigs` (without dynamic MIG,
rollback and Unprepare remove none), `OldBoot` (a checkpoint that is thrown away as a
whole speaks of a boot whose MIG devices are gone) and `OtherLives`. Devices that
claims with admin access name are left out: two claims may have one of these, each
with an id of its own. The invariant has the types of lock holder, checkpoint and
instances (`LockTyped`, `IdsTyped`); the rest of `TypeOK` is not needed.
A second invariant on top of it, `SetUpInv`, gives `PreparedStaysIntact` and
`SharingIsKept`. `HolderProgress` says how much of a claim is set up at each step of
Prepare (`SetUp(c, op.todo)`), `CompletedSetUp` that the node stays set up for a
completed claim until its Unprepare or the cleanup takes hold of it, `KubeletAgrees`
that nobody does so while the kubelet wants the claim. The main argument is that a
lock holder only touches devices of its own claim, which are those of no completed
one. Where the code breaks that, the claim is in `disturbed` before, or in the step in
which, its device is touched: `SharersDisturbed` says so of claims with admin access,
and `UnprepareMig`, `OtherDestroys` and `NewDeviceState` add whom they hit. Nothing is
assumed of `Admin`, of the ids that the driver chooses or of when a second process
starts. A claim for a vfio device has no other device and no sharing settings, as the
configs of the code have it.

**DaemonProcessProofs.** `ProcessInvariant`: `ProcInv` is inductive itself. It ties
`m.handle` to the child, the mutex to the `stop()` that waits, and lets at most one
goroutine wait for a child. `LoadedIsCurrent` follows with it: `loaded` falls behind
`config` only in the update loop, and a child that the watchdog starts in between
reads the file that is there.

**RequestsProofs.** `RequestInv` gives `ResponsesAreTrue` and `LockExcludes`.
`LockInv` ties the file lock to the request between `Acquire` and its release,
`QueueInv` queue and results, `CallInv` the kubelet's phase to the one request it
waits for, and `ResultsKept` says that a good result still holds in the checkpoint when
the request returns. The last one needs pods that share no claim, which is an
assumption: a shared claim is not unprepared for one of its pods.

**ClaimConfigsProofs.** `ClaimInvariant`, then `PrecedenceIsDocumented`,
`AdmittedClaimsPrepare`, `PreparedStaysPrepared` and `AppliedIsReleased`, for lists
of configs of any length, any feature gates and any number of up- and downgrades.
`ChecksumsHold` says which fields the file's checksums cover, so that a version
accepts the file unless it is older than a field in it (the boot ID for `V2`; for `V1`
device metadata, which only the GPU plugin writes and only for vfio devices),
`RecordedInBoth` that both formats of the file have a prepared claim,
`AppliedIsSelected` that configs still select what was applied and can be decoded
again, `VerdictsHold` that what the webhook admitted stays admissible for its version.
The module first shows what the loops of `GetOpaqueDeviceConfigs` make of a list:
`Nth(S, k)`, the k-th of a finite set of positions, exists, reaches every position and
is monotone. That is induction over data, done without an induction theorem: from the
least-number principle, which follows from the well-foundedness of `<`. `SelectSeq`
could not be reasoned about, so the model appends by position. The list's sources
must be `class` or `claim` (others are refused by the API server).

Liveness is only model-checked: it needs ENABLED and fairness, which the prover
does not support. So is `GpuHealth`, whose properties are all of that kind.

## Not modelled

Contents of CDI specs, Deployments and config files, NVML queries, capacities and
counters of ResourceSlices, static MIG devices, the gRPC health probe, metrics,
flags, HTTP endpoints, the lease protocol, generated clients. DaemonSets are in one
namespace (`mnsdaemonset.go` runs the same manager once per namespace). Two leaders
at the same time appear only as late creations. Two plugin processes of a node serve
at the same time only in `CDPlugin`, where they share the lock; in `GpuPlugin` the
second one starts while the first serves, and then replaces it. The branch of
`WorkQueue` that drops a failed item for a newer one is there, but no run of `Requests`
takes it: a request has one item per claim.

## Plan

1. `GpuPlugin` with more than one GPU, once symmetry makes it small enough.
2. A composition of `Requests` with `CDPlugin`, so that an overtaken Prepare meets
   the cleanup managers.
