---------------------------- MODULE ClaimConfigs ----------------------------
(***************************************************************************)
(* What becomes of a claim's opaque configs: the webhook admits them       *)
(* (cmd/webhook), allocation adds those of the device class, Prepare       *)
(* decodes them, selects one, normalises, validates and applies it, and    *)
(* Unprepare finds in the checkpoint what to release, perhaps with another *)
(* version of the driver and from another format of the file.              *)
(*                                                                         *)
(* One claim with one device, of the GPU plugin or of the ComputeDomain    *)
(* plugin.  A driver is of this version, of a newer one that knows one     *)
(* field of the configs more, or of one of the versions whose checkpoints  *)
(* this one reads: "V2" (v25.12.0) writes the format of this version, less *)
(* the fields added since, "V1" the one before, and "2503RC2" that of the  *)
(* ComputeDomain plugin before 25.3.0.                                     *)
(***************************************************************************)
EXTENDS Naturals, Sequences, SequencesExt, FiniteSetsExt

CONSTANTS
    Plugins,        \* "gpu", "cd"
    GateSets,       \* the sets of enabled feature gates, per plugin
    ConfigLists,    \* lists of configs that a claim may have
    MaxSwitches     \* bound: up- and downgrades

VARIABLES
    plugin, gates,  \* which plugin, and its feature gates
    device,         \* the type of the allocated device
    configs,        \* the claim's configs and the device class's
    stage,          \* how far the claim has come
    checked,        \* the version of the webhook that has admitted it, if any
    failure,        \* why Prepare has failed
    version,        \* the driver that runs
    accepts,        \* it has accepted the checkpoint it has found
    file,           \* the checkpoint
    gone,           \* the claim is no longer in the API server
    preparer,       \* the version that has prepared the claim
    applied, released,  \* the config that was
    switches

vars == <<plugin, gates, device, configs, stage, checked, failure, version, accepts,
          file, gone, preparer, applied, released, switches>>

-----------------------------------------------------------------------------
(* Feature gates *)

(* ValidateFeatureGates *)
ValidFeatureGates(g) ==
    /\ "ComputeDomainCliques" \in g => "IMEXDaemonsWithDNSNames" \in g
    /\ "DynamicMIG" \in g =>
         g \cap {"PassthroughSupport", "NVMLDeviceHealthCheck", "MPSSupport"} = {}
    /\ "PassthroughSupport" \in g => "NVMLDeviceHealthCheck" \notin g
    /\ "DeviceMetadata" \in g => "PassthroughSupport" \in g

ASSUME ClaimConfigsAssumption ==
    /\ Plugins \subseteq {"gpu", "cd"}
    /\ \A p \in Plugins : \A g \in GateSets[p] : ValidFeatureGates(g)
    /\ \A p \in Plugins : \A l \in ConfigLists[p] :
          l \in Seq(Range(l)) /\ \A e \in Range(l) : e.source \in {"class", "claim"}
    /\ MaxSwitches \in Nat

-----------------------------------------------------------------------------
(* Configs: a kind and a body; `extra` is a field that only a newer driver *)
(* knows.  "garbage" does not decode.                                      *)

Kinds(p) == IF p = "gpu" THEN {"Gpu", "Mig", "Vfio"} ELSE {"Channel", "Daemon"}

Sharing(strategy, ts, mps) == [strategy |-> strategy, ts |-> ts, mps |-> mps]
NoSharing == Sharing("none", "nil", "nil")
Config(kind, body) == [kind |-> kind, body |-> body, extra |-> FALSE]

DefaultGpuConfig ==
    Config("Gpu", IF "TimeSlicingSettings" \in gates
                  THEN Sharing("TimeSlicing", "Default", "nil") ELSE NoSharing)

DefaultMigDeviceConfig ==
    Config("Mig", IF "TimeSlicingSettings" \in gates
                  THEN Sharing("TimeSlicing", "nil", "nil") ELSE NoSharing)

DefaultVfioDeviceConfig == Config("Vfio", [policy |-> "LegacyOnly"])

(* What prepareDevices and getConfigResultsMap put before the list. *)
Defaults ==
    IF plugin = "cd" THEN <<Config("Daemon", [domain |-> ""]),
                            Config("Channel", [domain |-> ""])>>
    ELSE (IF "PassthroughSupport" \in gates THEN <<DefaultVfioDeviceConfig>>
          ELSE <<>>)
         \o <<DefaultMigDeviceConfig, DefaultGpuConfig>>

(* A pointer that is set when it is nil and its feature gate is enabled. *)
Implied(gate, used, value, default) ==
    IF gate \in gates /\ used /\ value = "nil" THEN default ELSE value

(* Normalize of GpuSharing and MigDeviceSharing. *)
NormalizeSharing(kind, s) ==
    LET set == IF s = NoSharing /\ "TimeSlicingSettings" \in gates
               THEN Sharing("TimeSlicing", "nil", "nil") ELSE s
    IN  [set EXCEPT
          !.ts = Implied("TimeSlicingSettings",
                         kind = "Gpu" /\ set.strategy = "TimeSlicing", @, "Default"),
          !.mps = Implied("MPSSupport", set.strategy = "MPS", @, "valid")]

Normalize(c) ==
    IF c.kind \in {"Gpu", "Mig"}
    THEN [c EXCEPT !.body = NormalizeSharing(c.kind, @)]
    ELSE IF c.kind = "Vfio" /\ c.body.policy = "nil"
    THEN [c EXCEPT !.body.policy = "LegacyOnly"]
    ELSE c

(* Validate of GpuSharing and MigDeviceSharing.  A config that is missing, *)
(* or a TimeSlicingConfig without Interval, is a nil pointer.              *)
ValidateSharing(kind, s) ==
    CASE s = NoSharing -> "ok"
      [] s.strategy = "TimeSlicing" /\ "TimeSlicingSettings" \in gates ->
           IF kind = "Mig" THEN "ok"
           ELSE IF s.ts \in {"nil", "empty"} THEN "panic"
           ELSE IF s.ts = "invalid" THEN "error" ELSE "ok"
      [] s.strategy = "MPS" /\ "MPSSupport" \in gates ->
           IF s.mps = "nil" THEN "panic"
           ELSE IF s.mps = "invalid" THEN "error" ELSE "ok"
      [] OTHER -> "error"

Validate(c) ==
    CASE c.kind \in {"Gpu", "Mig"} -> ValidateSharing(c.kind, c.body)
      [] c.kind = "Vfio" -> IF c.body.policy = "invalid" THEN "error" ELSE "ok"
      [] OTHER -> IF c.body.domain = "" THEN "error" ELSE "ok"

(* GetTimeSlicingConfig and GetMpsConfig refuse the other's config; MPS is *)
(* not supported on dynamic MIG devices.                                   *)
Applies(c) ==
    c.kind \in {"Gpu", "Mig"} =>
        /\ c.kind = "Gpu" /\ c.body.strategy = "TimeSlicing" => c.body.mps = "nil"
        /\ c.kind = "Gpu" /\ c.body.strategy = "MPS" => c.body.ts = "nil"
        /\ c.body.strategy = "MPS" => "DynamicMIG" \notin gates

(* StrictDecoder refuses fields it does not know, NonstrictDecoder drops   *)
(* them.                                                                   *)
Decodes(c, strict) ==
    /\ c.kind # "garbage"
    /\ strict /\ c.extra => version = "newer"

-----------------------------------------------------------------------------
(* Selection.  A config of the list has a source, a driver, the requests   *)
(* it is for (this one, another one, or all) and its parameters.           *)

(* The k-th of a set of numbers, and the part of a list at a set of        *)
(* positions (a loop with append).                                         *)
Nth(S, k) == CHOOSE i \in S : Cardinality({j \in S : j < i}) = k - 1
PartOf(list, S) == [k \in 1 .. Cardinality(S) |-> list[Nth(S, k)]]

(* Mutant: the list is taken as it is. *)
GetOpaqueDeviceConfigsUnsorted(list) ==
    PartOf(list, {i \in DOMAIN list : list[i].driver = plugin})

(* GetOpaqueDeviceConfigs: the class's before the claim's. *)
OursFrom(list, source) ==
    {i \in DOMAIN list : list[i].source = source /\ list[i].driver = plugin}
GetOpaqueDeviceConfigs(list) ==
    PartOf(list, OursFrom(list, "class")) \o PartOf(list, OursFrom(list, "claim"))

General(c) == [source |-> "class", driver |-> plugin, for |-> "all", config |-> c]

(* A config for another type of device of this plugin. *)
Mismatch(c) == c.kind \in Kinds(plugin) /\ c.kind # device

Matches(e) == e.for = "this" \/ (e.for = "all" /\ ~Mismatch(e.config))

(* The loop over slices.Backward of prepareDevices and                     *)
(* getConfigResultsMap: the last one that matches.                         *)
AllConfigs(list) ==
    [i \in DOMAIN Defaults |-> General(Defaults[i])] \o GetOpaqueDeviceConfigs(list)
Selected(list) ==
    LET all == AllConfigs(list)
    IN  all[Max({i \in DOMAIN all : Matches(all[i])})]

(* prepareDevices up to the point where the config is applied. *)
PrepareOutcome ==
    LET sel == Selected(configs)
        c == Normalize(sel.config)
    IN  CASE \E e \in Range(GetOpaqueDeviceConfigs(configs)) :
                 ~Decodes(e.config, TRUE) -> "decode"
          [] sel.for = "this" /\ Mismatch(sel.config) -> "mismatch"
          [] sel.config.kind \notin Kinds(plugin) -> "unrecognized"
          [] Validate(c) # "ok" -> Validate(c)
          [] ~Applies(c) -> "apply"
          [] OTHER -> "ok"

-----------------------------------------------------------------------------
(* The checkpoint: the claim's entry, with the status of the claim (its    *)
(* configs; empty when it has none), what was prepared, and the fields of  *)
(* its device that older versions do not have.                             *)

Entry(state, status, devices, fields) ==
    [state |-> state, status |-> status, devices |-> devices, fields |-> fields]
NoEntry == Entry("none", {}, {}, {})

ToV2(e) == IF e = NoEntry THEN e ELSE [e EXCEPT !.state = "PrepareCompleted"]

ToV1(e) == IF e.state = "PrepareCompleted" THEN e ELSE NoEntry

Current(v) == v \in {"this", "newer"}
ReadsV2(v) == Current(v) \/ v = "V2"

(* The fields that were added to the checkpoint's types since "V2". *)
Optional(v) == IF Current(v) THEN {"ShareID", "Metadata", "NodeBootID"} ELSE {}

(* Mutant: the upstream type is written, without omitempty. *)
EmittedAlways(v, set) == Optional(v)

(* What v writes of them: those it knows and that are set.  A checksum is  *)
(* of what is written, so it stands for that set.                          *)
Emitted(v, set) == set \cap Optional(v)

(* MarshalCheckpoint: both formats, each with its checksum. *)
MarshalCheckpoint(e, v) ==
    LET boot == {"NodeBootID"} \cap Optional(v)
    IN  [format |-> "V2", v1 |-> ToV1(e), v2 |-> e, boot |-> boot,
         sum1 |-> Emitted(v, ToV1(e).fields), sum2 |-> Emitted(v, e.fields \cup boot)]

(* What versions before V2 write: the claim is there when it is prepared,  *)
(* before 25.3.0 without its status.                                       *)
LegacyCheckpoint(e, v) ==
    [format |-> v, v1 |-> IF v = "2503RC2" THEN [e EXCEPT !.status = {}] ELSE e,
     v2 |-> NoEntry, boot |-> {}, sum1 |-> Emitted(v, e.fields), sum2 |-> {}]

Marshalled(e, v) ==
    IF ReadsV2(v) THEN MarshalCheckpoint(e, v) ELSE LegacyCheckpoint(e, v)
Write(e) == Marshalled(e, version)

(* VerifyChecksum: v writes again what it has read.  The format 2503RC2 is *)
(* converted before that, by UnmarshalCheckpoint of the ComputeDomain      *)
(* plugin.                                                                 *)
VerifyChecksum(v) ==
    /\ file.format = "2503RC2" => plugin = "cd"
    /\ Emitted(v, file.v1.fields) = file.sum1
    /\ file.format = "V2" /\ ReadsV2(v) =>
         Emitted(v, file.v2.fields \cup file.boot) = file.sum2

(* UnmarshalCheckpoint and ToLatestVersion; older versions see V1 only. *)
Loaded(v) ==
    IF ReadsV2(v) /\ file.format = "V2" THEN file.v2 ELSE ToV2(file.v1)

(* The fields that prepareDevices sets in the device. *)
MetadataFields ==
    IF plugin = "gpu" /\ device = "Vfio" /\ "DeviceMetadata" \in gates
    THEN {"Metadata"} ELSE {}

-----------------------------------------------------------------------------
None == Config("none", NoSharing)

Versions == {"2503RC2", "V1", "V2", "this", "newer"}

Init ==
    /\ plugin \in Plugins
    /\ gates \in GateSets[plugin]
    /\ device \in Kinds(plugin)
    /\ device = "Vfio" => "PassthroughSupport" \in gates
    /\ configs \in ConfigLists[plugin]
    /\ stage = "submitted"
    /\ checked = "none"
    /\ failure = "none"
    /\ version \in Versions
    /\ version = "2503RC2" => plugin = "cd"
    /\ Current(version) \/ configs = <<>>   \* of those, only checkpoints matter
    /\ accepts = TRUE
    /\ file = Write(NoEntry)
    /\ gone = FALSE
    /\ preparer = "none"
    /\ applied = None /\ released = None
    /\ switches = 0

Claimed == {e \in Range(configs) : e.source = "claim"}

(* admitResourceClaimParameters: every config in the claim that is for the *)
(* GPU driver.                                                             *)
Admissible ==
    \A e \in Claimed : e.driver = "gpu" =>
        /\ Decodes(e.config, TRUE)
        /\ e.config.kind \in {"Gpu", "Mig", "Channel", "Daemon"}
        /\ Validate(Normalize(e.config)) = "ok"

(* Mutant: the webhook only decodes the configs. *)
AdmitDecoded ==
    /\ stage = "submitted"
    /\ checked' = version
    /\ stage' = IF \A e \in Claimed : Decodes(e.config, FALSE)
                THEN "admitted" ELSE "refused"
    /\ UNCHANGED <<plugin, gates, device, configs, failure, version, accepts, file,
                   gone, preparer, applied, released, switches>>

Admit ==
    /\ stage = "submitted"
    /\ checked' = version
    /\ stage' = IF Admissible THEN "admitted" ELSE "refused"
    /\ UNCHANGED <<plugin, gates, device, configs, failure, version, accepts, file,
                   gone, preparer, applied, released, switches>>

(* The webhook is optional. *)
NoWebhook ==
    /\ stage = "submitted"
    /\ stage' = "admitted"
    /\ UNCHANGED <<plugin, gates, device, configs, checked, failure, version, accepts,
                   file, gone, preparer, applied, released, switches>>

(* The claim is deleted.  One that is gone before is not prepared. *)
Delete ==
    /\ stage \in {"failed", "prepared"}
    /\ gone' = TRUE
    /\ UNCHANGED <<plugin, gates, device, configs, stage, checked, failure, version,
                   accepts, file, preparer, applied, released, switches>>

(* Prepare writes PrepareStarted first ... *)
PrepareStart ==
    /\ stage = "admitted" /\ ~gone
    /\ Current(version) /\ accepts
    /\ Loaded(version).state # "PrepareCompleted"
    /\ file' = Write(Entry("PrepareStarted", {configs}, {}, {}))
    /\ stage' = "started"
    /\ UNCHANGED <<plugin, gates, device, configs, checked, failure, version, accepts,
                   gone, preparer, applied, released, switches>>

Prepared(v) ==
    LET c == Normalize(Selected(configs).config)
    IN  /\ stage' = "prepared"
        /\ preparer' = v
        /\ applied' = c
        /\ file' = Write(Entry("PrepareCompleted", {configs}, {c},
                               MetadataFields \cap Optional(v)))

(* ... then looks at the configs. *)
PrepareDevices ==
    /\ stage = "started"
    /\ Current(version) /\ accepts
    /\ Loaded(version).state = "PrepareStarted"
    /\ IF PrepareOutcome = "ok"
       THEN Prepared(version) /\ UNCHANGED failure
       ELSE /\ stage' = "failed"
            /\ failure' = PrepareOutcome
            /\ UNCHANGED <<file, preparer, applied>>
    /\ UNCHANGED <<plugin, gates, device, configs, checked, version, accepts, gone,
                   released, switches>>

(* An older driver prepares the claim. *)
LegacyPrepare ==
    /\ stage = "admitted" /\ ~gone
    /\ ~Current(version) /\ accepts
    /\ configs = <<>>
    /\ Prepared(version)
    /\ UNCHANGED <<plugin, gates, device, configs, checked, failure, version, accepts,
                   gone, released, switches>>

(* Another version of the driver starts, and stops at once when it does    *)
(* not accept the checkpoint.  This one and newer ones put the boot ID     *)
(* into a checkpoint that has none.  The kubelet calls Prepare again for a *)
(* claim whose preparation has failed or was under way.                    *)
Switch(v) ==
    /\ switches < MaxSwitches
    /\ switches' = switches + 1
    /\ stage \notin {"submitted", "refused"}
    /\ v # version
    /\ version' = v
    /\ accepts' = VerifyChecksum(v)
    /\ stage' = IF stage \in {"started", "failed"} THEN "admitted" ELSE stage
    /\ file' = IF VerifyChecksum(v) /\ Current(v) /\ file.boot = {}
               THEN MarshalCheckpoint(Loaded(v), v) ELSE file
    /\ UNCHANGED <<plugin, gates, device, configs, checked, failure, gone, preparer,
                   applied, released>>

(* Mutant: the checkpoint's configs are decoded like a user's. *)
ReleasableStrict(list) ==
    \A e \in Range(GetOpaqueDeviceConfigs(list)) : Decodes(e.config, TRUE)

(* getConfigResultsMap, as Unprepare of the ComputeDomain plugin uses it:  *)
(* it decodes and selects the configs again.                               *)
Releasable(list) ==
    LET sel == Selected(list)
    IN  /\ \A e \in Range(GetOpaqueDeviceConfigs(list)) : Decodes(e.config, FALSE)
        /\ ~(sel.for = "this" /\ Mismatch(sel.config))

(* The status of a claim: the checkpoint's, else the API server's. *)
ClaimStatus(e) ==
    IF e.status # {} THEN e.status ELSE IF gone THEN {} ELSE {configs}

(* Unprepare of the ComputeDomain plugin: what the claim's status selects. *)
UnprepareStatus(e) ==
    \/ \E list \in ClaimStatus(e) :
         /\ Releasable(list)
         /\ stage' = "unprepared"
         /\ file' = Write(NoEntry)
         /\ released' = Selected(list).config
    \/ /\ ~ \E list \in ClaimStatus(e) : Releasable(list)
       /\ stage' = "stuck"
       /\ UNCHANGED <<file, released>>

(* Unprepare of the GPU plugin: what the entry says was prepared; what a   *)
(* partial preparation has left is found elsewhere (GpuPlugin).            *)
UnprepareDevices(e) ==
    /\ stage' = "unprepared"
    /\ file' = Write(NoEntry)
    /\ IF e.devices = {} THEN UNCHANGED released ELSE released' \in e.devices

Unprepare ==
    /\ stage \in {"admitted", "prepared", "failed"}
    /\ Current(version) /\ accepts
    /\ LET e == Loaded(version)
       IN  \/ e.state = "none" /\ stage' = "unprepared" /\ UNCHANGED <<file, released>>
           \/ e.state # "none" /\ plugin = "cd" /\ UnprepareStatus(e)
           \/ e.state # "none" /\ plugin = "gpu" /\ UnprepareDevices(e)
    /\ UNCHANGED <<plugin, gates, device, configs, checked, failure, version, accepts,
                   gone, preparer, applied, switches>>

Next ==
    \/ Admit
    \/ NoWebhook
    \/ Delete
    \/ PrepareStart
    \/ PrepareDevices
    \/ LegacyPrepare
    \/ Unprepare
    \/ \E v \in Versions \ {"2503RC2"} : Switch(v)

Spec == Init /\ [][Next]_vars

-----------------------------------------------------------------------------
(* Properties *)

(* The rank of the i-th config of the list: "Configs coming directly from  *)
(* the resource claim take precedence over configs coming from the device  *)
(* class.  Moreover, configs found later in the list ... take precedence". *)
Outranks(i, j) ==
    \/ configs[i].source = "claim" /\ configs[j].source = "class"
    \/ configs[i].source = configs[j].source /\ i > j

(* The config of a prepared device is the one that the documented order of *)
(* precedence gives: no config of this driver for the device outranks it,  *)
(* and a default is used only when there is none.                          *)
ConfigPrecedence ==
    stage = "prepared" =>
        LET mine == {i \in DOMAIN configs : /\ configs[i].driver = plugin
                                            /\ Matches(configs[i])}
        IN  \/ /\ mine = {}
               /\ applied \in {Normalize(Defaults[i]) : i \in DOMAIN Defaults}
            \/ \E i \in mine :
                 /\ \A j \in mine \ {i} : Outranks(i, j)
                 /\ applied = Normalize(configs[i].config)

(* A claim that the webhook has admitted is not refused by a Prepare of    *)
(* the same version for what is in its configs, nor does it make the       *)
(* plugin panic: whatever the feature gates, what decodes and is valid     *)
(* alone is valid when selected.  (Configs of other plugins' kinds, and a  *)
(* config for the strategy that is not selected, are admitted and fail.)   *)
AdmittedPrepares ==
    stage = "failed" /\ checked = version /\ plugin = "gpu"
        /\ (\A e \in Range(configs) : e.source = "claim" /\ e.driver = "gpu")
        => failure \in {"mismatch", "unrecognized", "apply"}

(* A version that starts accepts the checkpoint of every version it is not *)
(* older than (issue 1080), and finds a prepared claim in it with its      *)
(* state and what was prepared, however often the driver was up- and       *)
(* downgraded in between.  Only two downgrades are refused: to v25.12.0,   *)
(* which does not know the boot ID (docs/upgrade.md says so), and to any   *)
(* older version when the claim has device metadata.                       *)
StaysPrepared ==
    /\ ~accepts =>
         \/ version = "V2"
         \/ /\ version = "V1" /\ plugin = "gpu" /\ device = "Vfio"
            /\ "DeviceMetadata" \in gates
    /\ stage = "prepared" /\ accepts =>
         /\ Loaded(version).state = "PrepareCompleted"
         /\ Loaded(version).devices = {applied}

(* A claim that was prepared, by whichever version, can be unprepared by   *)
(* whichever version, also when the claim is gone, and what is then        *)
(* released is what was applied.  The exception is the one that Unprepare  *)
(* of the ComputeDomain plugin has a TODO for: a version before 25.3.0 has *)
(* left no status in the checkpoint, and the API server has none.          *)
ReleasesApplied ==
    applied # None =>
        /\ stage = "stuck" => plugin = "cd" /\ preparer = "2503RC2" /\ gone
        /\ stage = "unprepared" => released = applied

-----------------------------------------------------------------------------
(* The inductive invariant *)

CheckpointEntries ==
    [state : {"none", "PrepareStarted", "PrepareCompleted"},
     status : SUBSET {configs}, devices : SUBSET {Normalize(Selected(configs).config)},
     fields : SUBSET MetadataFields]
CheckpointFiles ==
    [format : {"2503RC2", "V1", "V2"}, v1 : CheckpointEntries, v2 : CheckpointEntries,
     boot : SUBSET {"NodeBootID"}, sum1 : SUBSET MetadataFields,
     sum2 : SUBSET (MetadataFields \cup {"NodeBootID"})]

(* What never changes is what it was; a file of the checkpoint is one that *)
(* some version has written.                                               *)
TypeOK ==
    /\ plugin \in Plugins /\ gates \in GateSets[plugin]
    /\ device \in Kinds(plugin)
    /\ device = "Vfio" => "PassthroughSupport" \in gates
    /\ configs \in ConfigLists[plugin]
    /\ stage \in {"submitted", "refused", "admitted", "started", "failed", "prepared",
                  "unprepared", "stuck"}
    /\ version \in Versions /\ checked \in Versions \cup {"none"}
    /\ preparer \in Versions \cup {"none"} /\ gone \in BOOLEAN /\ accepts \in BOOLEAN
    /\ version = "2503RC2" => plugin = "cd"
    /\ file \in CheckpointFiles

(* A checksum is that of what the file has, and the version that runs has  *)
(* found it so, or does not know all that the file has.                    *)
ChecksumsOf(f) ==
    /\ f.sum1 = f.v1.fields /\ f.sum2 = f.v2.fields \cup f.boot
    /\ f.format = "2503RC2" => plugin = "cd"

ChecksumsHold ==
    /\ ChecksumsOf(file)
    /\ accepts \/ version = "V2" \/ (version = "V1" /\ MetadataFields # {})

(* An entry of a claim that is prepared: only a version before 25.3.0      *)
(* leaves no status.                                                       *)
Complete(e) ==
    /\ e.state = "PrepareCompleted" /\ e.devices = {applied}
    /\ e.status = {} => plugin = "cd" /\ preparer = "2503RC2"

(* Both formats of the file have a prepared claim. *)
RecordedInBoth ==
    stage = "prepared" =>
        Complete(file.v1) /\ (file.format = "V2" => Complete(file.v2))

(* What was applied is what the configs still select, and they can be      *)
(* decoded again.                                                          *)
AppliedIsSelected ==
    /\ stage = "prepared" => applied = Normalize(Selected(configs).config)
    /\ applied # None =>
         /\ stage \in {"prepared", "unprepared", "stuck"}
         /\ applied = Normalize(Selected(configs).config)
         /\ Releasable(configs)
         /\ plugin = "cd" => applied = Selected(configs).config
    /\ ReleasesApplied

(* What the webhook has admitted its version can still decode, and a       *)
(* failure is that of the version that runs.                               *)
AdmittedFor(v) ==
    \A e \in Claimed : e.driver = "gpu" =>
        /\ e.config.kind # "garbage"
        /\ e.config.extra => v = "newer"
        /\ Validate(Normalize(e.config)) = "ok"

VerdictsHold ==
    /\ checked # "none" /\ stage # "refused" => stage # "submitted" /\ AdmittedFor(checked)
    /\ stage = "failed" => failure = PrepareOutcome /\ failure # "ok"

ClaimInv ==
    TypeOK /\ ChecksumsHold /\ RecordedInBoth /\ AppliedIsSelected /\ VerdictsHold

=============================================================================
