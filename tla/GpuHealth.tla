----------------------------- MODULE GpuHealth -----------------------------
(***************************************************************************)
(* Device health in the GPU kubelet plugin: the NVML event loop of         *)
(* nvmlDeviceHealthMonitor, the bounded channel of health events, and the  *)
(* driver's consumer, which taints devices in memory and publishes them    *)
(* again.  The start of the driver (NewDriver), which publishes devices    *)
(* without taints, and its Shutdown run concurrently with both.            *)
(***************************************************************************)
EXTENDS Naturals, Sequences, FiniteSets

CONSTANTS
    Devices,    \* full GPUs and static MIG devices (getDevicePlacementMap)
    ParentOf,   \* their GPU
    Xids,       \* XID values
    Skipped,    \* those of application errors, and configured ones (xidsToSkip)
    MaxXids     \* bound: XID events

ASSUME GpuHealthAssumption ==
    /\ IsFiniteSet(Devices) /\ Devices # {}
    /\ Skipped \subseteq Xids
    /\ MaxXids \in Nat

VARIABLES
    queue,      \* the channel `unhealthy`
    monitor,    \* the monitor: "off", "waiting", "sending" or "stopped"
    pending,    \* the event that it is sending
    consumer,   \* deviceHealthEvents: "off", "idle", "publish" or "stopped"
    taints,     \* taints of the AllocatableDevices
    slices,     \* taints in the ResourceSlices
    driver,     \* "registering", "starting", "running", "stopping", "stopped"
    cancelled,  \* the driver's context
    broken,     \* GPUs whose events cannot be registered
    lost,       \* NVML reports that a GPU is lost
    xids        \* XID events so far

vars == <<queue, monitor, pending, consumer, taints, slices, driver, cancelled,
          broken, lost, xids>>

-----------------------------------------------------------------------------
GPUs == {ParentOf[d] : d \in Devices}
Keys == {"xid", "gpu-lost", "unmonitored"}
Values == Xids \cup {"", "absent"}      \* of a taint; "absent" for none
Untainted == [d \in Devices |-> [k \in Keys |-> "absent"]]

Event == [key : Keys, devices : SUBSET Devices, value : Xids \cup {""}]
NoEvent == [key |-> "xid", devices |-> {}, value |-> ""]

(* Mutant: one event fits. *)
UnitCapacity == 1

(* newNvmlDeviceHealthMonitor: one event per device fits into the channel. *)
Capacity == Cardinality(Devices)

(* healthEventToTaint and IsEventNonFatal *)
Effect(key, value) ==
    IF value # "absent" /\ (key = "gpu-lost" \/ (key = "xid" /\ value \notin Skipped))
    THEN "NoSchedule" ELSE "None"

Init ==
    /\ queue = <<>> /\ monitor = "off" /\ pending = NoEvent
    /\ consumer = "off"
    /\ taints = Untainted /\ slices = Untainted
    /\ driver = "registering" /\ cancelled = FALSE
    /\ broken \in SUBSET GPUs
    /\ lost = FALSE /\ xids = 0

TypeOK ==
    /\ queue \in Seq(Event) /\ Len(queue) <= Capacity
    /\ monitor \in {"off", "waiting", "sending", "stopped"}
    /\ pending \in Event
    /\ consumer \in {"off", "idle", "publish", "stopped"}
    /\ taints \in [Devices -> [Keys -> Values]]
    /\ slices \in [Devices -> [Keys -> Values]]
    /\ driver \in {"registering", "starting", "running", "stopping", "stopped"}
    /\ cancelled \in BOOLEAN /\ lost \in BOOLEAN
    /\ broken \in SUBSET GPUs
    /\ xids \in 0 .. MaxXids

-----------------------------------------------------------------------------
(* The monitor *)

(* sendBatchedHealthEvent: dropped when the channel is full. *)
SendBatched(key, devs) ==
    queue' = IF devs # {} /\ Len(queue) < Capacity
             THEN Append(queue, [key |-> key, devices |-> devs, value |-> ""])
             ELSE queue

(* Start: registerEventsForDevices, GPU by GPU, before anybody receives. *)
Register(g) ==
    /\ driver = "registering" /\ g \in broken
    /\ broken' = broken \ {g}
    /\ SendBatched("unmonitored", {d \in Devices : ParentOf[d] = g})
    /\ UNCHANGED <<monitor, pending, consumer, taints, slices, driver, cancelled,
                   lost, xids>>

Start ==
    /\ driver = "registering" /\ broken = {}
    /\ driver' = "starting" /\ monitor' = "waiting" /\ consumer' = "idle"
    /\ UNCHANGED <<queue, pending, taints, slices, cancelled, broken, lost, xids>>

(* run: an XID event of a known device, in a send that blocks while the    *)
(* channel is full, whatever the context says.  Events of other types or   *)
(* of unknown devices are skipped.                                         *)
XidEvent(d, x) ==
    /\ monitor = "waiting" /\ xids < MaxXids
    /\ pending' = [key |-> "xid", devices |-> {d}, value |-> x]
    /\ monitor' = "sending"
    /\ xids' = xids + 1
    /\ UNCHANGED <<queue, consumer, taints, slices, driver, cancelled, broken, lost>>

(* Mutant: XID events are dropped like batched ones. *)
SendXidDropping ==
    /\ monitor = "sending"
    /\ queue' = IF Len(queue) < Capacity THEN Append(queue, pending) ELSE queue
    /\ monitor' = "waiting" /\ pending' = NoEvent
    /\ UNCHANGED <<consumer, taints, slices, driver, cancelled, broken, lost, xids>>

SendXid ==
    /\ monitor = "sending" /\ Len(queue) < Capacity
    /\ queue' = Append(queue, pending)
    /\ monitor' = "waiting" /\ pending' = NoEvent
    /\ UNCHANGED <<consumer, taints, slices, driver, cancelled, broken, lost, xids>>

(* run: the device of an XID event has no UUID any more.  The event is     *)
(* consumed, so that this is reported once, or not at all when the channel *)
(* is full.                                                                *)
UUIDFails ==
    /\ monitor = "waiting" /\ xids < MaxXids
    /\ SendBatched("gpu-lost", Devices)
    /\ xids' = xids + 1
    /\ UNCHANGED <<monitor, pending, consumer, taints, slices, driver, cancelled,
                   broken, lost>>

(* Mutant: the wait fails once, as GetUUID does. *)
LostEventOnce ==
    /\ monitor = "waiting" /\ lost
    /\ SendBatched("gpu-lost", Devices)
    /\ lost' = FALSE
    /\ UNCHANGED <<monitor, pending, consumer, taints, slices, driver, cancelled,
                   broken, xids>>

(* run: the wait for the next event fails with ERROR_GPU_IS_LOST, again    *)
(* and again for as long as the GPU is lost.                               *)
LostEvent ==
    /\ monitor = "waiting" /\ lost
    /\ SendBatched("gpu-lost", Devices)
    /\ UNCHANGED <<monitor, pending, consumer, taints, slices, driver, cancelled,
                   broken, lost, xids>>

GpuLost ==
    /\ ~lost /\ lost' = TRUE
    /\ UNCHANGED <<queue, monitor, pending, consumer, taints, slices, driver,
                   cancelled, broken, xids>>

MonitorStops ==
    /\ monitor = "waiting" /\ cancelled
    /\ monitor' = "stopped"
    /\ UNCHANGED <<queue, pending, consumer, taints, slices, driver, cancelled,
                   broken, lost, xids>>

-----------------------------------------------------------------------------
(* The consumer *)

(* AddDeviceTaint, AddOrUpdateTaint *)
AddOrUpdateTaint(e) ==
    [d \in Devices |-> IF d \in e.devices
                       THEN [taints[d] EXCEPT ![e.key] = e.value] ELSE taints[d]]

(* Nothing is published unless a taint changes. *)
Receive ==
    /\ consumer = "idle" /\ queue # <<>>
    /\ queue' = Tail(queue)
    /\ taints' = AddOrUpdateTaint(Head(queue))
    /\ consumer' = IF taints' = taints THEN "idle" ELSE "publish"
    /\ UNCHANGED <<monitor, pending, slices, driver, cancelled, broken, lost, xids>>

(* A failed publication is only logged. *)
PublishTaints ==
    /\ consumer = "publish"
    /\ slices' \in {slices, taints}
    /\ consumer' = "idle"
    /\ UNCHANGED <<queue, monitor, pending, taints, driver, cancelled, broken,
                   lost, xids>>

ConsumerStops ==
    /\ consumer = "idle" /\ cancelled
    /\ consumer' = "stopped"
    /\ UNCHANGED <<queue, monitor, pending, taints, slices, driver, cancelled,
                   broken, lost, xids>>

-----------------------------------------------------------------------------
(* The driver *)

(* The end of NewDriver: publishResources, which leaves out the taints. *)
StartupPublish ==
    /\ driver = "starting"
    /\ slices' = Untainted
    /\ driver' = "running"
    /\ UNCHANGED <<queue, monitor, pending, consumer, taints, cancelled, broken,
                   lost, xids>>

Cancel ==
    /\ driver = "running"
    /\ cancelled' = TRUE /\ driver' = "stopping"
    /\ UNCHANGED <<queue, monitor, pending, consumer, taints, slices, broken,
                   lost, xids>>

(* Shutdown: Stop waits for the monitor, then the consumer is waited for. *)
Shutdown ==
    /\ driver = "stopping" /\ monitor = "stopped" /\ consumer = "stopped"
    /\ driver' = "stopped"
    /\ UNCHANGED <<queue, monitor, pending, consumer, taints, slices, cancelled,
                   broken, lost, xids>>

-----------------------------------------------------------------------------
Next ==
    \/ \E g \in GPUs : Register(g)
    \/ Start
    \/ \E d \in Devices, x \in Xids : XidEvent(d, x)
    \/ SendXid \/ UUIDFails \/ LostEvent \/ GpuLost \/ MonitorStops
    \/ Receive \/ PublishTaints \/ ConsumerStops
    \/ StartupPublish \/ Cancel \/ Shutdown

(* The goroutines run; NVML need not report anything, nor the driver stop. *)
Spec ==
    /\ Init /\ [][Next]_vars
    /\ WF_vars(Start) /\ \A g \in GPUs : WF_vars(Register(g))
    /\ WF_vars(SendXid) /\ WF_vars(LostEvent) /\ WF_vars(MonitorStops)
    /\ WF_vars(Receive) /\ WF_vars(PublishTaints) /\ WF_vars(ConsumerStops)
    /\ WF_vars(StartupPublish) /\ WF_vars(Shutdown)

-----------------------------------------------------------------------------
(* Properties *)

Unschedulable(d) == \E k \in Keys : Effect(k, taints[d][k]) = "NoSchedule"

(* A fatal XID is never dropped (run blocks in the send): no matter how    *)
(* many events come at once, the device gets a taint with effect           *)
(* NoSchedule, unless the driver is stopped first.                         *)
XidTainted ==
    \A d \in Devices, x \in Xids \ Skipped :
        (monitor = "sending" /\ pending.devices = {d} /\ pending.value = x)
            ~> (Unschedulable(d) \/ cancelled)

(* When the wait for events fails because a GPU is lost, every device is   *)
(* tainted although batched events are dropped on a full channel           *)
(* (sendBatchedHealthEvent): the wait fails again, and the consumer makes  *)
(* room.  This says nothing of UUIDFails, which is not repeated.           *)
LostTainted ==
    (lost /\ driver # "registering")
        ~> (cancelled \/ \A d \in Devices : taints[d]["gpu-lost"] = "")

(* The events sent before there is a consumer fit into the channel: every  *)
(* device that cannot be monitored is tainted (registerEventsForDevices).  *)
UnmonitoredTainted ==
    \A d \in Devices : (ParentOf[d] \in broken)
        ~> (taints[d]["unmonitored"] = "" \/ cancelled)

=============================================================================
