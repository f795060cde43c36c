-------------------------- MODULE GpuPluginProofs --------------------------
(***************************************************************************)
(* Proofs about GpuPlugin for every set of claims, MIG devices, sharing    *)
(* configs, ids and feature gates and any number of crashes and reboots:   *)
(* devices of completed claims are disjoint, every MIG device has a claim  *)
(* in the checkpoint, and what prepared claims rely on stays in place.     *)
(***************************************************************************)
EXTENDS GpuPlugin, TLAPS

-----------------------------------------------------------------------------
(* The parts of the invariant that are not about types, and what they are  *)
(* about.                                                                  *)
CoreInv ==
    /\ HolderAgrees
    /\ NoMigs
    /\ OldBoot
    /\ LeftToOthers
    /\ DevicesExclusive
    /\ MigAccounted

core == <<gates, ci, cp, boot, phase, allocatable, op>>

(* The claim of the lock holder. *)
LEMMA HolderFacts ==
    ASSUME LockTyped, HolderAgrees, op.kind # "none"
    PROVE  /\ ClaimOf \in Claims /\ op.claims = {ClaimOf}
           /\ phase = "serving"
           /\ op.todo \subseteq DevicesOf[ClaimOf]
           /\ DevicesOf[ClaimOf] \subseteq Devices
<1>1. PICK c \in op.claims : TRUE
  BY DEF HolderAgrees
<1>2. c \in Claims /\ op.claims = {c}
  BY <1>1 DEF LockTyped, Op, HolderAgrees
<1>3. ClaimOf = c
  BY <1>2 DEF ClaimOf
<1> QED
  BY <1>1, <1>2, <1>3, GpuPluginAssumption DEF HolderAgrees

(* Steps that leave everything alone that CoreInv is about *)
LEMMA QuietFacts ==
    ASSUME CoreInv, UNCHANGED core
    PROVE  CoreInv'
BY DEF CoreInv, core, HolderAgrees, NoMigs, OldBoot, LeftToOthers, DevicesExclusive,
       MigAccounted, Completed, Dynamic, NoOverlappingPreparedDevices

(* No MIG device loses its claim when only devices go away. *)
LEMMA FewerFacts ==
    ASSUME CoreInv, ci' \subseteq ci, UNCHANGED cp
    PROVE  DevicesExclusive' /\ MigAccounted'
BY DEF CoreInv, DevicesExclusive, MigAccounted, Completed

(* Somebody removes MIG devices without the lock. *)
LEMMA FewerCore ==
    ASSUME CoreInv, ci' \subseteq ci, UNCHANGED <<gates, cp, boot, phase, allocatable, op>>
    PROVE  CoreInv'
<1>1. HolderAgrees' /\ NoMigs' /\ OldBoot' /\ LeftToOthers'
  BY DEF CoreInv, HolderAgrees, NoMigs, OldBoot, LeftToOthers, Dynamic,
         NoOverlappingPreparedDevices, Completed
<1> QED
  BY <1>1, FewerFacts DEF CoreInv

(* The lock is free afterwards: an operation returns, or the plugin ends. *)
LEMMA EndFacts ==
    ASSUME CoreInv, op' = NoOp, UNCHANGED <<gates, cp, boot>>, ci' \subseteq ci,
           phase' \in {phase, "down"}, allocatable' \in {allocatable, {}}
    PROVE  CoreInv'
<1>1. HolderAgrees' /\ LeftToOthers'
  BY DEF HolderAgrees, LeftToOthers, NoOp
<1>2. NoMigs' /\ OldBoot'
  BY DEF CoreInv, NoMigs, OldBoot, Dynamic, NoOp
<1> QED
  BY <1>1, <1>2, FewerFacts DEF CoreInv

(* The lock stays free. *)
LEMMA FreeFacts ==
    ASSUME CoreInv, op.kind = "none", UNCHANGED <<gates, cp, boot, allocatable, op>>,
           phase # "down", ci' \subseteq ci
    PROVE  CoreInv'
<1>1. op.claims = {}
  BY DEF CoreInv, HolderAgrees
<1>2. HolderAgrees' /\ LeftToOthers'
  BY <1>1 DEF HolderAgrees, LeftToOthers
<1>3. NoMigs' /\ OldBoot'
  BY DEF CoreInv, NoMigs, OldBoot, Dynamic
<1> QED
  BY <1>2, <1>3, FewerFacts DEF CoreInv

(* The lock is taken for claim c. *)
LEMMA BeginFacts ==
    ASSUME CoreInv, NEW c \in Claims, NEW kind \in {"prepare", "unprepare"},
           NEW step, NEW todo,
           op' = Begin(kind, c, step, todo), UNCHANGED <<gates, ci, cp, boot, allocatable>>,
           phase = "serving", phase' = phase, todo \subseteq DevicesOf[c],
           kind = "prepare" =>
               \/ step = "rollback" /\ cp[c] # "PrepareCompleted"
                                    /\ NoOverlappingPreparedDevices(c)
               \/ step = "publish" /\ cp[c] = "PrepareCompleted",
           kind = "unprepare" =>
               \/ step = "publish" /\ cp[c] = "none"
               \/ step = "vfio" /\ cp[c] # "none"
               \/ /\ step = "rollback" /\ cp[c] = "PrepareStarted"
                  /\ \A d \in ci : d \in DevicesOf[c] => d \in todo
    PROVE  CoreInv'
<1>1. /\ op'.kind = kind /\ op'.claims = {c} /\ op'.step = step /\ op'.todo = todo
  BY DEF Begin
<1>2. HolderAgrees'
  BY <1>1 DEF HolderAgrees, Creating, Undone, NoOverlappingPreparedDevices, Completed
<1>3. LeftToOthers'
  BY <1>1 DEF LeftToOthers, Undoing, Undone
<1>4. NoMigs' /\ OldBoot'
  BY <1>1 DEF CoreInv, NoMigs, OldBoot, Dynamic
<1> QED
  BY <1>2, <1>3, <1>4, FewerFacts DEF CoreInv

(* Prepare goes on to another step without touching the checkpoint. *)
LEMMA PrepareFacts ==
    ASSUME CoreInv, NEW c \in Claims, op.kind = "prepare", op.claims = {c},
           op'.kind = op.kind, op'.claims = op.claims,
           UNCHANGED <<gates, cp, boot, phase>>,
           ci' \subseteq ci,
           allocatable' \cap Migs \subseteq allocatable \cap Migs,
           op'.todo \subseteq DevicesOf[c],
           op'.step = "ci" => op'.dev \subseteq op'.todo,
           op.step # "publish",
           \/ op.step = "rollback" /\ op'.step = "rollback"
           \/ op.step \in Creating /\ op'.step \in Creating,
           ~Dynamic /\ op'.step \in {"mode", "deploy", "ready", "create", "ci"}
               => op'.todo \cap Migs = {}
    PROVE  CoreInv'
<1>1. HolderAgrees'
  BY DEF CoreInv, HolderAgrees, Creating, NoOverlappingPreparedDevices, Completed
<1>2. LeftToOthers'
  BY DEF LeftToOthers
<1>3. NoMigs' /\ OldBoot'
  BY DEF CoreInv, NoMigs, OldBoot, Dynamic
<1> QED
  BY <1>1, <1>2, <1>3, FewerFacts DEF CoreInv

(* So does Unprepare. *)
LEMMA UnprepareFacts ==
    ASSUME CoreInv, NEW c \in Claims, op.kind = "unprepare", op.claims = {c},
           op'.kind = op.kind, op'.claims = op.claims,
           UNCHANGED <<gates, cp, boot, phase>>,
           ci' \subseteq ci,
           allocatable' \cap Migs \subseteq allocatable \cap Migs,
           op'.todo \subseteq DevicesOf[c],
           op.step # "publish", op'.step \notin {"publish", "ci"},
           op'.step = "rollback" => op.step = "rollback",
           op'.step \in Undone => op'.todo = {},
           op'.step \in Undoing =>
               \A d \in ci' \ AdminDevices : d \in DevicesOf[c] \ op'.todo =>
                   \E o \in Claims \ {c} : cp[o] # "none" /\ d \in DevicesOf[o]
    PROVE  CoreInv'
<1>1. HolderAgrees'
  BY DEF CoreInv, HolderAgrees, NoOverlappingPreparedDevices, Completed
<1>2. LeftToOthers'
  BY DEF LeftToOthers, Undoing
<1>3. NoMigs' /\ OldBoot'
  BY DEF CoreInv, NoMigs, OldBoot, Dynamic
<1> QED
  BY <1>1, <1>2, <1>3, FewerFacts DEF CoreInv

(* NVML removes no other MIG device than those it was asked to, and those  *)
(* if it says that it has; a compute instance goes before its GPU instance.*)
LEMMA DeleteMigFacts ==
    ASSUME NEW seen, NEW found, NEW r \in DeleteMigDevice(seen, found), SetMig(r)
    PROVE  /\ ci' \subseteq ci /\ gi' \subseteq gi /\ ci' = r.ci
           /\ r.ok => found \cap ci' = {}
           /\ gi \cap ci' \subseteq gi'
           /\ gi \ found \subseteq gi' /\ ci \ found \subseteq ci'
           /\ giID' = [d \in Migs |-> IF d \in gi' THEN giID[d] ELSE NoID]
<1> DEFINE M == IF migMode
                THEN MaybeDisableMigMode(seen, gi \ found, ci \ found, migMode)
                ELSE {[on |-> FALSE, ok |-> TRUE]}
           Gone(m) == [gi |-> gi \ found, ci |-> ci \ found, on |-> m.on, ok |-> m.ok]
<1>1. DeleteMigDevice(seen, found) =
        {[gi |-> gi, ci |-> ci, on |-> migMode, ok |-> FALSE]}
        \cup {[gi |-> gi, ci |-> ci \ found, on |-> migMode, ok |-> FALSE]}
        \cup {Gone(m) : m \in M}
  BY Zenon DEF DeleteMigDevice
<1> HIDE DEF M
<1>2. \/ r = [gi |-> gi, ci |-> ci, on |-> migMode, ok |-> FALSE]
      \/ r = [gi |-> gi, ci |-> ci \ found, on |-> migMode, ok |-> FALSE]
      \/ \E m \in M : r = Gone(m)
  BY <1>1, Zenon
<1>3. \/ r.ci = ci /\ r.gi = gi /\ ~r.ok
      \/ r.ci = ci \ found /\ r.gi = gi
      \/ r.ci = ci \ found /\ r.gi = gi \ found
  BY <1>2
<1>4. /\ gi' = r.gi /\ ci' = r.ci
      /\ giID' = [d \in Migs |-> IF d \in gi' THEN giID[d] ELSE NoID]
  BY DEF SetMig
<1> QED
  BY <1>3, <1>4

-----------------------------------------------------------------------------
(* Steps of Prepare *)

(* The rollback of an earlier attempt, for Prepare or Unprepare: a device  *)
(* it is done with is gone, or a completed claim has it.                   *)
LEMMA RollbackStep ==
    ASSUME GpuInv, NEW d \in Migs, RollbackDevice(d)
    PROVE  CoreInv'
<1>0. LockTyped /\ CoreInv /\ HolderAgrees /\ LeftToOthers
  BY DEF GpuInv, CoreInv
<1>1. /\ UNCHANGED <<gates, cp, boot, phase, allocatable>>
      /\ op.step = "rollback" /\ d \in op.todo
      /\ ci' \subseteq ci
      /\ \/ op' = NoOp
         \/ /\ op' = [op EXCEPT !.todo = op.todo \ {d}]
            /\ UsedByCompleted(d) \/ d \notin ci'
  <2>1. CASE UNCHANGED <<gi, ci, giID, migMode>> /\ GoTo("rollback", op.todo \ {d})
             /\ (UsedByCompleted(d) \/ d \notin LiveMigDevices)
    <3>1. op' = [op EXCEPT !.todo = op.todo \ {d}]
      BY <1>0, <2>1 DEF GoTo, RollbackDevice, LockTyped, Op
    <3> QED
      BY <2>1, <3>1 DEF RollbackDevice, files, fixed, LiveMigDevices
  <2>2. ASSUME NEW r \in DeleteMigDevice(migSeen, {d}), SetMig(r),
               op' = IF r.ok THEN [op EXCEPT !.todo = @ \ {d}] ELSE NoOp
        PROVE  /\ ci' \subseteq ci
               /\ \/ op' = NoOp
                  \/ op' = [op EXCEPT !.todo = op.todo \ {d}] /\ d \notin ci'
    BY <1>0, <2>2, DeleteMigFacts
  <2> QED
    BY <2>1, <2>2 DEF RollbackDevice, files, fixed
<1>2. CASE op' = NoOp
  BY <1>0, <1>1, <1>2, EndFacts
<1>3. CASE op' = [op EXCEPT !.todo = op.todo \ {d}] /\ (UsedByCompleted(d) \/ d \notin ci')
  <2>1. /\ op'.kind = op.kind /\ op'.claims = op.claims /\ op'.step = "rollback"
        /\ op'.todo = op.todo \ {d} /\ op.kind \in {"none", "prepare", "unprepare"}
    BY <1>0, <1>1, <1>3 DEF LockTyped, Op
  <2>2. CASE op.kind = "none"
    <3>1. op'.claims = {} /\ op.claims = {}
      BY <1>0, <2>1, <2>2 DEF HolderAgrees
    <3>2. HolderAgrees' /\ LeftToOthers'
      BY <2>1, <2>2, <3>1 DEF HolderAgrees, LeftToOthers
    <3>3. NoMigs' /\ OldBoot'
      BY <1>0, <1>1, <2>1, <2>2 DEF CoreInv, NoMigs, OldBoot, Dynamic
    <3> QED
      BY <1>0, <1>1, <3>2, <3>3, FewerFacts DEF CoreInv
  <2>3. CASE op.kind = "prepare"
    <3>1. PICK c \in Claims : op.claims = {c} /\ op.todo \subseteq DevicesOf[c]
      BY <1>0, <2>3, HolderFacts
    <3> QED
      BY <1>0, <1>1, <2>1, <2>3, <3>1, PrepareFacts
  <2>4. CASE op.kind = "unprepare"
    <3>1. PICK c \in Claims : op.claims = {c} /\ op.todo \subseteq DevicesOf[c]
      BY <1>0, <2>4, HolderFacts
    <3>2. cp[c] = "PrepareStarted"
      BY <1>0, <1>1, <2>4, <3>1 DEF HolderAgrees
    <3>3. ASSUME NEW e \in ci' \ AdminDevices, e \in DevicesOf[c] \ op'.todo
          PROVE  \E o \in Claims \ {c} : cp[o] # "none" /\ e \in DevicesOf[o]
      <4>1. CASE e = d
        BY <1>3, <3>2, <3>3, <4>1 DEF UsedByCompleted, Completed
      <4>2. CASE e # d
        BY <1>0, <1>1, <2>1, <2>4, <3>1, <3>3, <4>2 DEF LeftToOthers, Undoing, Undone
      <4> QED
        BY <4>1, <4>2
    <3> QED
      BY <1>0, <1>1, <2>1, <2>4, <3>1, <3>3, UnprepareFacts DEF Undoing, Undone
  <2> QED
    BY <2>1, <2>2, <2>3, <2>4
<1> QED
  BY <1>1, <1>2, <1>3

(* The entry says PrepareStarted before anything is made. *)
LEMMA StartedStep ==
    ASSUME GpuInv, PrepareStarted
    PROVE  CoreInv'
<1>0. LockTyped /\ CoreInv /\ HolderAgrees
  BY DEF GpuInv, CoreInv
<1>1. PICK c \in Claims : c = ClaimOf /\ op.claims = {c} /\ phase = "serving"
  BY <1>0, HolderFacts DEF PrepareStarted, At
<1>2. /\ cp' = [cp EXCEPT ![c] = "PrepareStarted"]
      /\ op' = [op EXCEPT !.step = "apply", !.todo = DevicesOf[c]]
      /\ op.kind = "prepare" /\ op.step = "rollback"
      /\ UNCHANGED <<gates, ci, boot, phase, allocatable>>
  BY <1>1 DEF PrepareStarted, SetEntry, GoTo, At, fixed, hardware
<1>3. /\ op'.kind = "prepare" /\ op'.claims = {c} /\ op'.step = "apply"
      /\ op'.todo = DevicesOf[c]
  BY <1>0, <1>1, <1>2 DEF LockTyped, Op
<1>4. /\ cp \in [Claims -> CheckpointState] /\ cp'[c] = "PrepareStarted"
      /\ \A o \in Claims \ {c} : cp'[o] = cp[o]
      /\ cp[c] # "PrepareCompleted" /\ NoOverlappingPreparedDevices(c)
  BY <1>0, <1>1, <1>2 DEF LockTyped, HolderAgrees
<1>5. \A o \in Claims : cp'[o] = "PrepareCompleted" <=> cp[o] = "PrepareCompleted"
  BY <1>4
<1>6. HolderAgrees'
  BY <1>1, <1>2, <1>3, <1>4, <1>5
  DEF HolderAgrees, Creating, NoOverlappingPreparedDevices, Completed
<1>7. LeftToOthers' /\ NoMigs' /\ OldBoot'
  BY <1>0, <1>2, <1>3 DEF CoreInv, LeftToOthers, NoMigs, OldBoot, Dynamic
<1>8. DevicesExclusive'
  BY <1>0, <1>5 DEF CoreInv, DevicesExclusive, Completed
<1>9. MigAccounted'
  BY <1>0, <1>2, <1>4 DEF CoreInv, MigAccounted
<1> QED
  BY <1>6, <1>7, <1>8, <1>9 DEF CoreInv

(* The steps between PrepareStarted and PrepareCompleted that make no      *)
(* compute instance.  Without dynamic MIG, no MIG device is allocatable.   *)
LEMMA CreatingStep ==
    ASSUME GpuInv,
           \/ ApplyConfig \/ MpsMode \/ MpsDeploy \/ MpsAssertReady
           \/ VfioUnbind \/ VfioBind \/ RemoveSiblings \/ CreateClaimSpecFile
    PROVE  CoreInv'
<1>0. LockTyped /\ CoreInv /\ HolderAgrees /\ NoMigs
  BY DEF GpuInv, CoreInv
<1>1. op.kind = "prepare" /\ op.step \in Creating /\ op.step # "publish"
  BY DEF ApplyConfig, MpsMode, MpsDeploy, MpsAssertReady, VfioUnbind, VfioBind,
         RemoveSiblings, CreateClaimSpecFile, At, Creating
<1>2. PICK c \in Claims : /\ c = ClaimOf /\ op.claims = {c} /\ phase = "serving"
                          /\ op.todo \subseteq DevicesOf[c]
  BY <1>0, <1>1, HolderFacts
<1>3. UNCHANGED <<gates, ci, cp, boot, phase>> /\ allocatable' \subseteq allocatable
  BY DEF ApplyConfig, MpsMode, MpsDeploy, MpsAssertReady, VfioUnbind, VfioBind,
         RemoveSiblings, CreateClaimSpecFile, fixed, hardware, files
<1>4. \E step \in Creating \ {"apply", "ci"}, todo \in {op.todo, op.todo \cap Migs, {}} :
        /\ op' = [op EXCEPT !.step = step, !.todo = todo]
        /\ ~Dynamic /\ step \in {"mode", "deploy", "ready", "create"}
             => todo \cap Migs = {}
  <2>1. CASE ApplyConfig
    <3>1. DevicesOf[c] \subseteq allocatable
      BY <1>2, <2>1 DEF ApplyConfig
    <3>2. ~Dynamic => op.todo \cap Migs = {}
      BY <1>0, <1>2, <3>1 DEF NoMigs
    <3>3. \/ GoTo("unbind", {}) \/ GoTo("ready", op.todo) \/ GoTo("mode", op.todo)
          \/ CreateDevices
      BY <2>1 DEF ApplyConfig
    <3> QED
      BY <3>2, <3>3 DEF GoTo, CreateDevices, Creating
  <2>2. CASE MpsMode
    BY <1>0, <2>2 DEF MpsMode, At, GoTo, Creating, NoMigs
  <2>3. CASE MpsDeploy
    BY <1>0, <2>3 DEF MpsDeploy, At, GoTo, Creating, NoMigs
  <2>4. CASE MpsAssertReady
    BY <1>0, <2>4 DEF MpsAssertReady, At, GoTo, CreateDevices, Creating, NoMigs
  <2>5. CASE VfioUnbind
    BY <2>5 DEF VfioUnbind, GoTo, Creating
  <2>6. CASE VfioBind
    BY <2>6 DEF VfioBind, GoTo, Creating
  <2>7. CASE RemoveSiblings
    BY <2>7 DEF RemoveSiblings, GoTo, Creating
  <2>8. CASE CreateClaimSpecFile
    BY <2>8 DEF CreateClaimSpecFile, GoTo, Creating
  <2> QED
    BY <2>1, <2>2, <2>3, <2>4, <2>5, <2>6, <2>7, <2>8
<1>5. PICK step \in Creating \ {"apply", "ci"},
           todo \in {op.todo, op.todo \cap Migs, {}} :
        /\ op' = [op EXCEPT !.step = step, !.todo = todo]
        /\ ~Dynamic /\ step \in {"mode", "deploy", "ready", "create"}
             => todo \cap Migs = {}
  BY <1>4
<1>6. /\ op'.kind = op.kind /\ op'.claims = op.claims /\ op'.step = step
      /\ op'.todo = todo
  BY <1>0, <1>5 DEF LockTyped, Op
<1> QED
  BY <1>0, <1>1, <1>2, <1>3, <1>5, <1>6, PrepareFacts

(* createMigDevice: a compute instance is made for a claim in the          *)
(* checkpoint.                                                             *)
LEMMA MigStep ==
    ASSUME GpuInv, NEW d \in Migs, CreateGpuInstance(d) \/ CreateComputeInstance(d)
    PROVE  CoreInv'
<1>0. LockTyped /\ CoreInv /\ HolderAgrees /\ NoMigs
  BY DEF GpuInv, CoreInv
<1>1. op.kind = "prepare" /\ op.step \in {"create", "ci"}
  BY DEF CreateGpuInstance, CreateComputeInstance, At
<1>2. PICK c \in Claims : /\ op.claims = {c} /\ phase = "serving"
                          /\ op.todo \subseteq DevicesOf[c]
  BY <1>0, <1>1, HolderFacts
<1>3. UNCHANGED <<gates, cp, boot, phase, allocatable>>
  BY DEF CreateGpuInstance, CreateComputeInstance, fixed, files
<1>4. CASE CreateGpuInstance(d)
  <2>1. CASE op' = NoOp
    BY <1>0, <1>3, <1>4, <2>1, EndFacts DEF CreateGpuInstance
  <2>2. CASE op' = [op EXCEPT !.step = "ci", !.dev = {d}]
    <3>1. /\ op'.kind = op.kind /\ op'.claims = op.claims /\ op'.step = "ci"
          /\ op'.todo = op.todo /\ op'.dev = {d}
      BY <1>0, <2>2 DEF LockTyped, Op
    <3>2. d \in op.todo /\ ci' = ci /\ op.step = "create"
      BY <1>4 DEF CreateGpuInstance, At
    <3>3. ~Dynamic => op.todo \cap Migs = {}
      BY <1>0, <1>1, <3>2 DEF NoMigs
    <3> QED
      BY <1>0, <1>1, <1>2, <1>3, <3>1, <3>2, <3>3, PrepareFacts DEF Creating
  <2> QED
    BY <1>4, <2>1, <2>2 DEF CreateGpuInstance
<1>5. CASE CreateComputeInstance(d)
  <2>1. /\ op.step = "ci" /\ d \in op.dev /\ ci' = ci \cup {d}
        /\ op' = [op EXCEPT !.step = "create", !.todo = op.todo \ {d}, !.dev = {},
                            !.ids = [op.ids EXCEPT ![d] = giID[d]]]
    BY <1>5 DEF CreateComputeInstance, At
  <2>2. d \in op.todo /\ d \in DevicesOf[c] /\ cp[c] = "PrepareStarted" /\ Dynamic
    BY <1>0, <1>1, <1>2, <2>1 DEF HolderAgrees, NoMigs, Creating
  <2>3. /\ op'.kind = op.kind /\ op'.claims = op.claims /\ op'.step = "create"
        /\ op'.todo = op.todo \ {d}
    BY <1>0, <2>1 DEF LockTyped, Op
  <2>4. HolderAgrees'
    BY <1>0, <1>1, <1>2, <1>3, <2>1, <2>2, <2>3
    DEF HolderAgrees, Creating, NoOverlappingPreparedDevices, Completed
  <2>5. LeftToOthers' /\ NoMigs'
    BY <1>1, <1>3, <2>2, <2>3 DEF LeftToOthers, NoMigs, Dynamic
  <2>6. OldBoot'
    BY <1>0, <1>2, <1>3 DEF CoreInv, OldBoot
  <2>7. DevicesExclusive'
    BY <1>0, <1>3 DEF CoreInv, DevicesExclusive, Completed
  <2>8. MigAccounted'
    BY <1>0, <1>2, <1>3, <2>1, <2>2 DEF CoreInv, MigAccounted
  <2> QED
    BY <2>4, <2>5, <2>6, <2>7, <2>8 DEF CoreInv
<1> QED
  BY <1>4, <1>5

(* A claim is completed only if no completed claim has one of its devices. *)
LEMMA CompletedStep ==
    ASSUME GpuInv, PrepareCompleted
    PROVE  CoreInv'
<1>0. LockTyped /\ CoreInv /\ HolderAgrees
  BY DEF GpuInv, CoreInv
<1>1. PICK c \in Claims : c = ClaimOf /\ op.claims = {c} /\ phase = "serving"
  BY <1>0, HolderFacts DEF PrepareCompleted, At
<1>2. /\ cp' = [cp EXCEPT ![c] = "PrepareCompleted"]
      /\ op' = [op EXCEPT !.step = "publish", !.todo = {}]
      /\ op.kind = "prepare" /\ op.step = "completed"
      /\ UNCHANGED <<gates, ci, boot, phase, allocatable>>
  BY <1>1 DEF PrepareCompleted, SetEntry, GoTo, At, fixed, hardware
<1>3. /\ op'.kind = "prepare" /\ op'.claims = {c} /\ op'.step = "publish" /\ op'.todo = {}
  BY <1>0, <1>1, <1>2 DEF LockTyped, Op
<1>4. /\ cp'[c] = "PrepareCompleted" /\ \A o \in Claims \ {c} : cp'[o] = cp[o]
      /\ NoOverlappingPreparedDevices(c)
  BY <1>0, <1>1, <1>2 DEF LockTyped, HolderAgrees
<1>5. HolderAgrees'
  BY <1>1, <1>2, <1>3, <1>4 DEF HolderAgrees, Creating
<1>6. LeftToOthers' /\ NoMigs' /\ OldBoot'
  BY <1>0, <1>2, <1>3 DEF CoreInv, LeftToOthers, NoMigs, OldBoot, Dynamic
<1>7. DevicesExclusive'
  BY <1>0, <1>4
  DEF CoreInv, DevicesExclusive, Completed, NoOverlappingPreparedDevices
<1>8. MigAccounted'
  BY <1>0, <1>2, <1>4 DEF CoreInv, MigAccounted
<1> QED
  BY <1>5, <1>6, <1>7, <1>8 DEF CoreInv

-----------------------------------------------------------------------------
(* Steps of Unprepare *)

(* The steps that remove no MIG device: what there is to undo is known     *)
(* before, and nothing of it is left afterwards.                           *)
LEMMA UndoingStep ==
    ASSUME GpuInv,
           \/ RollbackDone \/ UnprepareVfio \/ NvidiaBind \/ MpsStop \/ MpsRemoveRoot
           \/ ResetTimeSlice \/ DiscoverSiblings \/ DeleteClaimSpecFile
    PROVE  CoreInv'
<1>0. LockTyped /\ CoreInv /\ HolderAgrees /\ NoMigs /\ LeftToOthers
  BY DEF GpuInv, CoreInv
<1>1. op.kind = "unprepare" /\ op.step # "publish"
  BY DEF RollbackDone, UnprepareVfio, NvidiaBind, MpsStop, MpsRemoveRoot,
         ResetTimeSlice, DiscoverSiblings, DeleteClaimSpecFile, At
<1>2. PICK c \in Claims : /\ c = ClaimOf /\ op.claims = {c} /\ phase = "serving"
                          /\ op.todo \subseteq DevicesOf[c]
  BY <1>0, <1>1, HolderFacts
<1>3. UNCHANGED <<gates, ci, cp, boot, phase>>
  BY DEF RollbackDone, UnprepareVfio, NvidiaBind, MpsStop, MpsRemoveRoot,
         ResetTimeSlice, DiscoverSiblings, DeleteClaimSpecFile, fixed, hardware, files
<1>4. allocatable' \cap Migs \subseteq allocatable \cap Migs
  <2>1. CASE DiscoverSiblings
    <3>1. allocatable' \subseteq allocatable \cup {"gpu", "vfio"}
      BY <2>1 DEF DiscoverSiblings, Siblings
    <3> QED
      BY <3>1, GpuPluginAssumption
  <2>2. CASE ~DiscoverSiblings
    BY <2>2 DEF RollbackDone, UnprepareVfio, NvidiaBind, MpsStop, MpsRemoveRoot,
         ResetTimeSlice, DeleteClaimSpecFile
  <2> QED
    BY <2>1, <2>2
<1>5. ASSUME NEW step \in Undone, op.step \in Undoing, op.todo = {}, GoTo(step, {})
      PROVE  CoreInv'
  <2>1. /\ op'.kind = op.kind /\ op'.claims = op.claims /\ op'.step = step
        /\ op'.todo = {}
    BY <1>0, <1>5 DEF LockTyped, Op, GoTo
  <2>2. ASSUME NEW d \in ci' \ AdminDevices, d \in DevicesOf[c] \ op'.todo
        PROVE  \E o \in Claims \ {c} : cp[o] # "none" /\ d \in DevicesOf[o]
    BY <1>0, <1>1, <1>2, <1>3, <1>5, <2>2 DEF LeftToOthers
  <2> QED
    BY <1>0, <1>1, <1>2, <1>3, <1>4, <1>5, <2>1, <2>2, UnprepareFacts DEF Undone
<1>6. ASSUME NEW step \in {"vfio", "bind"}, NEW todo \in {op.todo, {}}, GoTo(step, todo)
      PROVE  CoreInv'
  <2>1. /\ op'.kind = op.kind /\ op'.claims = op.claims /\ op'.step = step
        /\ op'.todo = todo
    BY <1>0, <1>6 DEF LockTyped, Op, GoTo
  <2> QED
    BY <1>0, <1>1, <1>2, <1>3, <1>4, <1>6, <2>1, UnprepareFacts DEF Undoing, Undone
<1>7. ASSUME GoTo("delete", IF Dynamic THEN MigNames(ClaimOf) ELSE {})
      PROVE  CoreInv'
  <2>1. /\ op'.kind = op.kind /\ op'.claims = op.claims /\ op'.step = "delete"
        /\ op'.todo = IF Dynamic THEN DevicesOf[c] \cap Migs ELSE {}
    BY <1>0, <1>2, <1>7 DEF LockTyped, Op, GoTo, MigNames
  <2>2. \A d \in ci' : d \notin DevicesOf[c] \ op'.todo
    BY <1>0, <1>3, <2>1 DEF NoMigs, LockTyped
  <2> QED
    BY <1>0, <1>1, <1>2, <1>3, <1>4, <2>1, <2>2, UnprepareFacts DEF Undone
<1>8. CASE RollbackDone
  BY <1>5, <1>8 DEF RollbackDone, At, Undoing, Undone
<1>9. CASE UnprepareVfio
  BY <1>6, <1>7, <1>9 DEF UnprepareVfio
<1>10. CASE NvidiaBind
  BY <1>6, <1>10 DEF NvidiaBind
<1>11. CASE MpsStop
  BY <1>5, <1>11 DEF MpsStop, At, Undoing, Undone
<1>12. ASSUME op.step \in Undone PROVE op.todo = {}
  BY <1>0, <1>1, <1>2, <1>12 DEF HolderAgrees
<1>13. CASE MpsRemoveRoot
  BY <1>5, <1>12, <1>13 DEF MpsRemoveRoot, At, Undoing, Undone
<1>14. CASE ResetTimeSlice
  BY <1>5, <1>12, <1>14 DEF ResetTimeSlice, At, Undoing, Undone
<1>15. CASE DiscoverSiblings
  BY <1>5, <1>12, <1>15 DEF DiscoverSiblings, At, Undoing, Undone
<1>16. CASE DeleteClaimSpecFile
  BY <1>5, <1>12, <1>16 DEF DeleteClaimSpecFile, At, Undoing, Undone
<1> QED
  BY <1>8, <1>9, <1>10, <1>11, <1>13, <1>14, <1>15, <1>16

(* A MIG device that Unprepare is done with is gone: the checkpoint has    *)
(* its id, unless another claim with admin access has made it anew.        *)
LEMMA UnprepareMigStep ==
    ASSUME GpuInv, NEW d \in Migs, UnprepareMig(d)
    PROVE  CoreInv'
<1>0. LockTyped /\ CoreInv /\ HolderAgrees /\ LeftToOthers
  BY DEF GpuInv, CoreInv
<1>1. /\ op.kind = "unprepare" /\ op.step = "delete" /\ d \in op.todo
      /\ UNCHANGED <<gates, cp, boot, phase, allocatable>>
  BY DEF UnprepareMig, At, fixed, files
<1>2. PICK c \in Claims : c = ClaimOf /\ op.claims = {c} /\ op.todo \subseteq DevicesOf[c]
  BY <1>0, <1>1, HolderFacts
<1> DEFINE found == {x \in gi : giID[x] = preparedGI[c][d]}
<1>3. PICK r \in DeleteMigDevice(migSeen, found) :
        /\ SetMig(r)
        /\ op' = IF r.ok THEN [op EXCEPT !.todo = @ \ {d}] ELSE NoOp
  BY <1>2 DEF UnprepareMig
<1>4. d \in ci \ AdminDevices => d \in found
  <2>1. c \in Completed
    BY <1>1, <1>2 DEF GpuInv, HolderWork, Releasing, Completed
  <2> QED
    BY <1>1, <1>2, <2>1 DEF GpuInv, IdsAgree, Instances
<1> HIDE DEF found
<1>5. ci' \subseteq ci /\ (r.ok => d \notin ci' \ AdminDevices)
  BY <1>3, <1>4, DeleteMigFacts
<1>6. CASE ~r.ok
  BY <1>0, <1>1, <1>3, <1>5, <1>6, EndFacts
<1>7. CASE r.ok
  <2>1. /\ op'.kind = op.kind /\ op'.claims = op.claims /\ op'.step = "delete"
        /\ op'.todo = op.todo \ {d}
    BY <1>0, <1>1, <1>3, <1>7 DEF LockTyped, Op
  <2>2. ASSUME NEW e \in ci' \ AdminDevices, e \in DevicesOf[c] \ op'.todo
        PROVE  \E o \in Claims \ {c} : cp[o] # "none" /\ e \in DevicesOf[o]
    BY <1>0, <1>1, <1>2, <1>5, <1>7, <2>1, <2>2 DEF LeftToOthers, Undoing
  <2> QED
    BY <1>0, <1>1, <1>2, <1>5, <2>1, <2>2, UnprepareFacts DEF Undone
<1> QED
  BY <1>6, <1>7

(* The entry goes when no MIG device depends on it any more. *)
LEMMA ForgetStep ==
    ASSUME GpuInv, DeleteClaimFromCheckpoint
    PROVE  CoreInv'
<1>0. LockTyped /\ CoreInv /\ HolderAgrees /\ LeftToOthers
  BY DEF GpuInv, CoreInv
<1>1. PICK c \in Claims : c = ClaimOf /\ op.claims = {c} /\ phase = "serving"
  BY <1>0, HolderFacts DEF DeleteClaimFromCheckpoint, At
<1>2. /\ cp' = [cp EXCEPT ![c] = "none"]
      /\ op' = [op EXCEPT !.step = "publish", !.todo = {}]
      /\ op.kind = "unprepare" /\ op.step = "entry"
      /\ UNCHANGED <<gates, ci, boot, phase, allocatable>>
  BY <1>1 DEF DeleteClaimFromCheckpoint, SetEntry, GoTo, At, fixed, hardware
<1>3. /\ op'.kind = "unprepare" /\ op'.claims = {c} /\ op'.step = "publish" /\ op'.todo = {}
      /\ cp'[c] = "none" /\ \A o \in Claims \ {c} : cp'[o] = cp[o]
  BY <1>0, <1>1, <1>2 DEF LockTyped, Op
<1>4. HolderAgrees'
  BY <1>1, <1>2, <1>3 DEF HolderAgrees, Undone
<1>5. LeftToOthers' /\ NoMigs' /\ OldBoot'
  BY <1>0, <1>2, <1>3 DEF CoreInv, LeftToOthers, Undoing, Undone, NoMigs, OldBoot, Dynamic
<1>6. DevicesExclusive'
  <2>1. Completed' \subseteq Completed
    BY <1>3 DEF Completed
  <2> QED
    BY <1>0, <2>1 DEF CoreInv, DevicesExclusive
<1>7. MigAccounted'
  <2>1. SUFFICES ASSUME NEW d \in ci \ AdminDevices
                 PROVE  \E o \in Claims : cp'[o] # "none" /\ d \in DevicesOf[o]
    BY <1>2 DEF MigAccounted
  <2>2. op.todo = {}
    BY <1>0, <1>1, <1>2 DEF HolderAgrees, Undone
  <2>3. CASE d \in DevicesOf[c]
    BY <1>0, <1>1, <1>2, <1>3, <2>2, <2>3 DEF LeftToOthers, Undoing, Undone
  <2>4. CASE d \notin DevicesOf[c]
    BY <1>0, <1>3, <2>4 DEF CoreInv, MigAccounted
  <2> QED
    BY <2>3, <2>4
<1> QED
  BY <1>4, <1>5, <1>6, <1>7 DEF CoreInv

-----------------------------------------------------------------------------
(* Requests, returns, and the life of the plugin *)

LEMMA RequestStep ==
    ASSUME GpuInv, NEW c \in Claims,
           PrepareAgain(c) \/ PrepareBegin(c) \/ UnprepareNoop(c) \/ UnprepareBegin(c)
    PROVE  CoreInv'
<1>0. LockTyped /\ CoreInv /\ NoMigs /\ ci \subseteq Migs
  BY DEF GpuInv, CoreInv, LockTyped
<1>1. /\ phase = "serving" /\ phase' = phase
      /\ UNCHANGED <<gates, ci, cp, boot, allocatable>>
  BY DEF PrepareAgain, PrepareBegin, UnprepareNoop, UnprepareBegin, fixed, hardware, files
<1>2. CASE PrepareAgain(c)
  BY <1>0, <1>1, <1>2, BeginFacts DEF PrepareAgain
<1>3. Leftovers(c) \subseteq DevicesOf[c]
  BY DEF Leftovers, MigNames
<1>4. CASE PrepareBegin(c)
  BY <1>0, <1>1, <1>3, <1>4, BeginFacts DEF PrepareBegin
<1>5. CASE UnprepareNoop(c)
  BY <1>0, <1>1, <1>5, BeginFacts DEF UnprepareNoop
<1>6. CASE UnprepareBegin(c) /\ cp[c] = "PrepareStarted"
  <2>1. op' = Begin("unprepare", c, "rollback", Leftovers(c))
    BY <1>6 DEF UnprepareBegin
  <2>2. \A d \in ci : d \in DevicesOf[c] => d \in Leftovers(c)
    BY <1>0, <1>6 DEF NoMigs, Leftovers, MigNames
  <2> QED
    BY <1>0, <1>1, <1>3, <1>6, <2>1, <2>2, BeginFacts
<1>7. CASE UnprepareBegin(c) /\ cp[c] # "PrepareStarted"
  <2> DEFINE todo == IF Passthrough THEN DevicesOf[c] \cap {"vfio"} ELSE {}
  <2>1. op' = Begin("unprepare", c, "vfio", todo) /\ cp[c] # "none"
    BY <1>7 DEF UnprepareBegin
  <2>2. todo \subseteq DevicesOf[c]
    OBVIOUS
  <2> HIDE DEF todo
  <2> QED
    BY <1>0, <1>1, <2>1, <2>2, BeginFacts
<1> QED
  BY <1>2, <1>4, <1>5, <1>6, <1>7

(* NewDeviceState, with an empty checkpoint after a reboot *)
LEMMA StartStep ==
    ASSUME GpuInv, NewDeviceState
    PROVE  CoreInv'
<1>0. LockTyped /\ CoreInv /\ HolderAgrees
  BY DEF GpuInv, CoreInv
<1>1. /\ phase = "down" /\ boot' = "current" /\ allocatable' = Enumerated
      /\ cp' = IF boot = "old" THEN NoClaims ELSE cp
      /\ UNCHANGED <<gates, ci, op>>
  BY DEF NewDeviceState, fixed, hardware
<1>2. op.kind = "none" /\ op.claims = {}
  BY <1>0, <1>1 DEF HolderAgrees
<1>3. HolderAgrees' /\ LeftToOthers'
  BY <1>1, <1>2 DEF HolderAgrees, LeftToOthers
<1>4. OldBoot'
  BY <1>1 DEF OldBoot
<1>5. NoMigs'
  <2>1. ~Dynamic => Enumerated \cap Migs = {}
    BY GpuPluginAssumption
    DEF Enumerated, PerGpuAllocatable, DynamicMIGCapable, VfioDevices
  <2> QED
    BY <1>0, <1>1, <1>2, <2>1 DEF CoreInv, NoMigs, Dynamic
<1>6. CASE boot = "old"
  <2>1. ci = {} /\ \A c \in Claims : cp'[c] = "none"
    BY <1>0, <1>1, <1>6 DEF CoreInv, OldBoot, NoClaims
  <2>2. DevicesExclusive' /\ MigAccounted'
    BY <1>1, <2>1 DEF DevicesExclusive, Completed, MigAccounted
  <2> QED
    BY <1>3, <1>4, <1>5, <2>2 DEF CoreInv
<1>7. CASE boot # "old"
  BY <1>0, <1>1, <1>3, <1>4, <1>5, <1>7, FewerFacts DEF CoreInv
<1> QED
  BY <1>6, <1>7

(* The second process takes over; its checkpoint is of this boot. *)
LEMMA HandOverStep ==
    ASSUME GpuInv, HandOver
    PROVE  CoreInv'
<1>0. CoreInv /\ OtherLives
  BY DEF GpuInv, CoreInv
<1>1. /\ other.step # "none" /\ allocatable' = Enumerated /\ op' = NoOp
      /\ UNCHANGED <<gates, ci, cp, boot>>
  BY DEF HandOver, fixed, files
<1>2. HolderAgrees' /\ LeftToOthers'
  BY <1>1 DEF HolderAgrees, LeftToOthers, NoOp
<1>3. NoMigs' /\ OldBoot'
  BY <1>0, <1>1 DEF NoMigs, OldBoot, OtherLives, Dynamic
<1> QED
  BY <1>0, <1>1, <1>2, <1>3, FewerFacts DEF CoreInv

(* MIG devices do not survive a reboot. *)
LEMMA RebootStep ==
    ASSUME GpuInv, Reboot
    PROVE  CoreInv'
<1>1. CoreInv /\ ci' = {} /\ op' = NoOp /\ phase' = "down" /\ allocatable' = {}
      /\ UNCHANGED <<gates, cp>>
  BY DEF GpuInv, CoreInv, Reboot, fixed
<1>2. HolderAgrees' /\ LeftToOthers' /\ NoMigs' /\ OldBoot'
  BY <1>1 DEF HolderAgrees, LeftToOthers, NoMigs, OldBoot, NoOp
<1> QED
  BY <1>1, <1>2, FewerFacts DEF CoreInv

(* Every step *)
LEMMA CoreStep ==
    ASSUME GpuInv, Next
    PROVE  CoreInv'
<1>0. LockTyped /\ CoreInv /\ HolderAgrees
  BY DEF GpuInv, CoreInv
<1>1. ASSUME NEW c \in Claims,
             PodStarts(c) \/ PodEnds(c) \/ ClaimDeleted(c) \/ FindStale(c)
      PROVE  CoreInv'
  BY <1>0, <1>1, QuietFacts
  DEF PodStarts, PodEnds, ClaimDeleted, FindStale, core, fixed, hardware, files, process
<1>2. CASE CleanupGivesUp
  BY <1>0, <1>2, QuietFacts DEF CleanupGivesUp, core, fixed, hardware, files
<1>3. CASE OpFails \/ PrepareReturns \/ UnprepareReturns
  BY <1>0, <1>3, EndFacts
  DEF OpFails, PrepareReturns, UnprepareReturns, fixed, hardware, files
<1>4. CASE Crash
  BY <1>0, <1>4, EndFacts DEF Crash, fixed, hardware, files
<1>5. CASE DestroyedUnknown \/ Serve
  <2>1. /\ phase \in {"starting", "started"}
        /\ UNCHANGED <<gates, ci, cp, boot, allocatable, op>>
    BY <1>5 DEF DestroyedUnknown, Serve, fixed, hardware, files
  <2>2. op.kind = "none"
    BY <1>0, <2>1 DEF HolderAgrees
  <2> QED
    BY <1>0, <2>1, <2>2, FreeFacts
<1>6. ASSUME NEW d \in Migs, DestroyUnknown(d) PROVE CoreInv'
  <2>1. /\ phase = "starting" /\ UNCHANGED <<gates, cp, boot, allocatable, op>>
        /\ \E r \in DeleteMigDevice(migSeen, {d}) : SetMig(r)
    BY <1>6 DEF DestroyUnknown, fixed, files
  <2>2. op.kind = "none" /\ ci' \subseteq ci
    BY <1>0, <2>1, DeleteMigFacts DEF HolderAgrees
  <2> QED
    BY <1>0, <2>1, <2>2, FreeFacts
<1>8. CASE OtherStarts
  BY <1>0, <1>8, QuietFacts DEF OtherStarts, core, fixed, hardware, files
<1>9. ASSUME NEW d \in Migs, OtherDestroys(d) PROVE CoreInv'
  <2>1. /\ UNCHANGED <<gates, cp, boot, phase, allocatable, op>>
        /\ \E r \in DeleteMigDevice(other.seen, {d}) : SetMig(r)
    BY <1>9 DEF OtherDestroys, fixed, files
  <2>2. ci' \subseteq ci
    BY <2>1, DeleteMigFacts
  <2> QED
    BY <1>0, <2>1, <2>2, FewerCore
<1>7. CASE Operation
  BY <1>3, <1>7, RollbackStep, StartedStep, CreatingStep, MigStep, CompletedStep,
     UndoingStep, UnprepareMigStep, ForgetStep
  DEF Operation
<1> QED
  BY <1>1, <1>2, <1>3, <1>4, <1>5, <1>6, <1>7, <1>8, <1>9, RequestStep, StartStep,
     HandOverStep, RebootStep
  DEF Next

-----------------------------------------------------------------------------
(* Types *)

LEMMA MoveTyped ==
    ASSUME LockTyped, NEW step, NEW todo, GoTo(step, todo), todo \subseteq Devices,
           step \in {"rollback", "apply", "mode", "deploy", "ready", "unbind", "bind",
                     "create", "spec", "completed", "publish", "vfio", "delete",
                     "umount", "reset", "siblings", "entry"}
    PROVE  op' \in Op
BY DEF LockTyped, Op, GoTo

LEMMA NoOpTyped == NoOp \in Op
BY DEF NoOp, Op, NoIDs

LEMMA BeginTyped ==
    ASSUME NEW c \in Claims, NEW kind \in {"prepare", "unprepare"},
           NEW step \in {"rollback", "publish", "vfio"}, NEW todo, todo \subseteq Devices
    PROVE  Begin(kind, c, step, todo) \in Op
BY DEF Begin, Op, NoIDs

LEMMA TypeStep ==
    ASSUME LockTyped, IdsTyped, HolderAgrees, Next
    PROVE  LockTyped'
<1>0. /\ op \in Op /\ cp \in [Claims -> CheckpointState] /\ ci \in SUBSET Migs
      /\ \A c \in Claims : DevicesOf[c] \subseteq Devices
  BY GpuPluginAssumption DEF LockTyped
<1>1. op.kind # "none" => /\ ClaimOf \in Claims /\ DevicesOf[ClaimOf] \subseteq Devices
                          /\ op.todo \subseteq Devices
  BY HolderFacts
<1>2. ASSUME UNCHANGED <<op, cp, ci>> PROVE LockTyped'
  BY <1>0, <1>2 DEF LockTyped
<1>3. ASSUME op' = NoOp, UNCHANGED <<cp, ci>> PROVE LockTyped'
  BY <1>0, <1>3, NoOpTyped DEF LockTyped
<1>4. ASSUME NEW c \in Claims,
             PodStarts(c) \/ PodEnds(c) \/ ClaimDeleted(c) \/ FindStale(c)
      PROVE  LockTyped'
  BY <1>2, <1>4
  DEF PodStarts, PodEnds, ClaimDeleted, FindStale, hardware, files, process
<1>5. CASE CleanupGivesUp \/ DestroyedUnknown \/ Serve \/ OtherStarts
  BY <1>2, <1>5 DEF CleanupGivesUp, DestroyedUnknown, Serve, OtherStarts, hardware, files
<1>6. CASE OpFails \/ PrepareReturns \/ UnprepareReturns \/ Crash \/ HandOver
  BY <1>3, <1>6
  DEF OpFails, PrepareReturns, UnprepareReturns, Crash, HandOver, hardware, files
<1>7. ASSUME NEW c \in Claims,
             PrepareAgain(c) \/ PrepareBegin(c) \/ UnprepareNoop(c) \/ UnprepareBegin(c)
      PROVE  LockTyped'
  <2>1. UNCHANGED <<cp, ci>>
    BY <1>7 DEF PrepareAgain, PrepareBegin, UnprepareNoop, UnprepareBegin, hardware, files
  <2>2. Leftovers(c) \subseteq Devices /\ DevicesOf[c] \cap {"vfio"} \subseteq Devices
    BY <1>0 DEF Leftovers, MigNames
  <2>3. op' \in Op
    <3>1. CASE PrepareAgain(c) \/ UnprepareNoop(c)
      BY <3>1, BeginTyped DEF PrepareAgain, UnprepareNoop
    <3>2. CASE PrepareBegin(c)
      BY <2>2, <3>2, BeginTyped DEF PrepareBegin
    <3>3. CASE UnprepareBegin(c)
      BY <2>2, <3>3, BeginTyped DEF UnprepareBegin
    <3> QED
      BY <1>7, <3>1, <3>2, <3>3
  <2> QED
    BY <1>0, <2>1, <2>3 DEF LockTyped
<1>8. CASE \/ PrepareStarted \/ PrepareCompleted \/ DeleteClaimFromCheckpoint
  <2>1. /\ op.kind # "none" /\ ci' = ci
        /\ \E state \in CheckpointState : SetEntry(ClaimOf, state)
    BY <1>8 DEF PrepareStarted, PrepareCompleted, DeleteClaimFromCheckpoint, At,
                CheckpointState, hardware
  <2>2. op' \in Op
    BY <1>1, <1>8, <2>1, MoveTyped
    DEF PrepareStarted, PrepareCompleted, DeleteClaimFromCheckpoint
  <2> QED
    BY <1>0, <1>1, <2>1, <2>2 DEF LockTyped, SetEntry
<1>9. CASE \/ ApplyConfig \/ MpsMode \/ MpsDeploy \/ MpsAssertReady
           \/ VfioUnbind \/ VfioBind \/ RemoveSiblings \/ CreateClaimSpecFile
  <2>1. op.kind # "none" /\ UNCHANGED <<cp, ci>>
    BY <1>9 DEF ApplyConfig, MpsMode, MpsDeploy, MpsAssertReady, VfioUnbind, VfioBind,
                RemoveSiblings, CreateClaimSpecFile, At, hardware, files
  <2>2. \E step \in {"unbind", "ready", "mode", "deploy", "create", "bind", "spec",
                     "completed"}, todo \in {{}, op.todo, op.todo \cap Migs} :
          GoTo(step, todo)
    BY <1>9 DEF ApplyConfig, MpsMode, MpsDeploy, MpsAssertReady, VfioUnbind, VfioBind,
                RemoveSiblings, CreateClaimSpecFile, CreateDevices
  <2>3. op' \in Op
    BY <1>1, <2>1, <2>2, MoveTyped
  <2> QED
    BY <1>0, <2>1, <2>3 DEF LockTyped
<1>10. CASE \/ RollbackDone \/ UnprepareVfio \/ NvidiaBind \/ MpsStop \/ MpsRemoveRoot
            \/ ResetTimeSlice \/ DiscoverSiblings \/ DeleteClaimSpecFile
  <2>1. op.kind # "none" /\ UNCHANGED <<cp, ci>>
    BY <1>10 DEF RollbackDone, UnprepareVfio, NvidiaBind, MpsStop, MpsRemoveRoot,
                 ResetTimeSlice, DiscoverSiblings, DeleteClaimSpecFile, At, hardware, files
  <2>2. \E step \in {"spec", "delete", "bind", "vfio", "reset", "umount", "siblings",
                     "entry"}, todo \in {{}, op.todo, MigNames(ClaimOf)} :
          GoTo(step, todo)
    BY <1>10 DEF RollbackDone, UnprepareVfio, NvidiaBind, MpsStop, MpsRemoveRoot,
                 ResetTimeSlice, DiscoverSiblings, DeleteClaimSpecFile
  <2>3. MigNames(ClaimOf) \subseteq Devices
    BY DEF MigNames, Devices
  <2>4. op' \in Op
    BY <1>1, <2>1, <2>2, <2>3, MoveTyped
  <2> QED
    BY <1>0, <2>1, <2>4 DEF LockTyped
<1>11. ASSUME NEW d \in Migs, RollbackDevice(d) \/ UnprepareMig(d) PROVE LockTyped'
  <2>1. UNCHANGED cp
    BY <1>11 DEF RollbackDevice, UnprepareMig, files
  <2>2. ci' \subseteq ci
    BY <1>11, DeleteMigFacts DEF RollbackDevice, UnprepareMig
  <2>3. \/ GoTo("rollback", op.todo \ {d})
        \/ op' = [op EXCEPT !.todo = @ \ {d}]
        \/ op' = NoOp
    BY <1>11 DEF RollbackDevice, UnprepareMig
  <2>4. op' \in Op
    BY <1>0, <2>3, NoOpTyped DEF GoTo, Op
  <2> QED
    BY <1>0, <2>1, <2>2, <2>4 DEF LockTyped
<1>12. ASSUME NEW d \in Migs, CreateGpuInstance(d) \/ CreateComputeInstance(d)
       PROVE  LockTyped'
  <2>1. UNCHANGED cp /\ ci' \subseteq ci \cup {d}
    BY <1>12 DEF CreateGpuInstance, CreateComputeInstance, files
  <2>2. \/ op' = [op EXCEPT !.step = "ci", !.dev = {d}]
        \/ op' = [op EXCEPT !.step = "create", !.todo = @ \ {d}, !.dev = {},
                            !.ids = [op.ids EXCEPT ![d] = giID[d]]]
        \/ op' = NoOp
    BY <1>12 DEF CreateGpuInstance, CreateComputeInstance
  <2>3. op' \in Op
    <3>1. CASE op' = [op EXCEPT !.step = "ci", !.dev = {d}]
      BY <1>0, <3>1 DEF Op
    <3>2. CASE op' = [op EXCEPT !.step = "create", !.todo = @ \ {d}, !.dev = {},
                                !.ids = [op.ids EXCEPT ![d] = giID[d]]]
      BY <1>0, <3>2 DEF Op, IdsTyped
    <3> QED
      BY <2>2, <3>1, <3>2, NoOpTyped
  <2> QED
    BY <1>0, <2>1, <2>3 DEF LockTyped
<1>13. CASE Reboot
  BY <1>0, <1>13, NoOpTyped DEF Reboot, LockTyped
<1>14. CASE NewDeviceState
  BY <1>0, <1>14 DEF NewDeviceState, LockTyped, NoClaims, CheckpointState, hardware
<1>15. ASSUME NEW d \in Migs, DestroyUnknown(d) \/ OtherDestroys(d) PROVE LockTyped'
  <2>1. UNCHANGED <<op, cp>> /\ ci' \subseteq ci
    BY <1>15, DeleteMigFacts DEF DestroyUnknown, OtherDestroys, files
  <2> QED
    BY <1>0, <2>1 DEF LockTyped
<1> QED
  BY <1>4, <1>5, <1>6, <1>7, <1>8, <1>9, <1>10, <1>11, <1>12, <1>13, <1>14, <1>15
  DEF Next, Operation

-----------------------------------------------------------------------------
(* The ids of MIG devices, and what the lock holder has left to do *)

Holding == {"create", "ci", "spec", "completed"}

(* Ids stay right when devices go away or the lock holder moves on. *)
LEMMA IdsFacts ==
    ASSUME LockTyped, IdsAgree, ci' \subseteq ci,
           \A d \in ci' : giID'[d] = giID[d],
           Completed' \subseteq Completed,
           \A c \in Completed' : preparedGI'[c] = preparedGI[c],
           \/ op'.claims = {}
           \/ op'.kind # "prepare"
           \/ op'.step \notin Holding
           \/ /\ op'.claims = op.claims /\ op.kind = "prepare" /\ op.step \in Holding
              /\ op'.ids = op.ids /\ op.todo \subseteq op'.todo
           \/ \A c \in op'.claims : DevicesOf[c] \cap Migs \subseteq op'.todo
    PROVE  IdsAgree'
<1>1. SUFFICES ASSUME NEW d \in ci' \ AdminDevices
               PROVE  /\ \A c \in Completed' : d \in DevicesOf[c] =>
                            giID'[d] = preparedGI'[c][d]
                      /\ \A c \in op'.claims :
                           /\ d \in DevicesOf[c] \ op'.todo /\ op'.kind = "prepare"
                           /\ op'.step \in Holding
                           => giID'[d] = op'.ids[d]
  BY DEF IdsAgree, Holding
<1>2. d \in ci \ AdminDevices /\ d \in Migs /\ giID'[d] = giID[d]
  BY DEF LockTyped
<1>3. \A c \in Completed' : d \in DevicesOf[c] => giID'[d] = preparedGI'[c][d]
  BY <1>2 DEF IdsAgree
<1>4. ASSUME NEW c \in op'.claims, d \in DevicesOf[c] \ op'.todo, op'.kind = "prepare",
             op'.step \in Holding
      PROVE  giID'[d] = op'.ids[d]
  <2>1. /\ op'.claims = op.claims /\ op.kind = "prepare" /\ op.step \in Holding
        /\ op'.ids = op.ids /\ op.todo \subseteq op'.todo
    BY <1>2, <1>4
  <2> QED
    BY <1>2, <1>4, <2>1 DEF IdsAgree, Holding
<1> QED
  BY <1>3, <1>4

(* MIG devices are removed by their ids or names. *)
LEMMA FewerInstances ==
    ASSUME LockTyped, IdsTyped, Instances, NEW seen, NEW found,
           NEW r \in DeleteMigDevice(seen, found), SetMig(r),
           found \subseteq ci \/ op.step # "ci",
           op' = op \/ op' = NoOp \/ op'.step # "ci"
    PROVE  /\ Instances' /\ gi' \in SUBSET Migs /\ giID' \in [Migs -> Ids \cup {NoID}]
           /\ ci' \subseteq ci /\ \A d \in ci' : giID'[d] = giID[d]
<1>1. /\ ci' \subseteq ci /\ gi' \subseteq gi /\ gi \cap ci' \subseteq gi'
      /\ gi \ found \subseteq gi'
      /\ giID' = [d \in Migs |-> IF d \in gi' THEN giID[d] ELSE NoID]
  BY DeleteMigFacts
<1>2. ci' \subseteq gi' /\ ci' \subseteq Migs
  BY <1>1 DEF Instances, LockTyped
<1>3. gi' \in SUBSET Migs /\ giID' \in [Migs -> Ids \cup {NoID}]
  BY <1>1 DEF IdsTyped
<1>4. \A d \in ci' : giID'[d] = giID[d]
  BY <1>1, <1>2
<1>5. op'.step = "ci" => op'.dev \subseteq gi' \ ci'
  <2>1. op'.step = "ci" => op' = op
    BY DEF NoOp
  <2> QED
    BY <1>1, <2>1 DEF Instances
<1> QED
  BY <1>1, <1>2, <1>3, <1>4, <1>5 DEF Instances

LEMMA IdsTypeStep ==
    ASSUME LockTyped, IdsTyped, HolderAgrees, Next
    PROVE  IdsTyped'
<1>1. ASSUME UNCHANGED <<gi, giID, preparedGI>> PROVE IdsTyped'
  BY <1>1 DEF IdsTyped
<1>2. ASSUME NEW d \in Migs, RollbackDevice(d) \/ UnprepareMig(d) \/ DestroyUnknown(d)
                             \/ OtherDestroys(d)
      PROVE  IdsTyped'
  <2>1. UNCHANGED preparedGI
    BY <1>2 DEF RollbackDevice, UnprepareMig, DestroyUnknown, OtherDestroys, files
  <2>2. \/ UNCHANGED <<gi, giID>>
        \/ \E seen, found : \E r \in DeleteMigDevice(seen, found) : SetMig(r)
    BY <1>2 DEF RollbackDevice, UnprepareMig, DestroyUnknown, OtherDestroys
  <2>3. ASSUME NEW seen, NEW found, NEW r \in DeleteMigDevice(seen, found), SetMig(r)
        PROVE  gi' \in SUBSET Migs /\ giID' \in [Migs -> Ids \cup {NoID}]
    BY <2>3, DeleteMigFacts DEF IdsTyped
  <2> QED
    BY <2>1, <2>2, <2>3 DEF IdsTyped
<1>3. ASSUME NEW d \in Migs, CreateGpuInstance(d) PROVE IdsTyped'
  BY <1>3 DEF CreateGpuInstance, IdsTyped, files
<1>4. ASSUME NEW d \in Migs, CreateComputeInstance(d) PROVE IdsTyped'
  BY <1>4 DEF CreateComputeInstance, IdsTyped, files
<1>5. CASE PrepareCompleted
  BY <1>5 DEF PrepareCompleted, IdsTyped, LockTyped, Op, hardware
<1>6. CASE DeleteClaimFromCheckpoint
  BY <1>6 DEF DeleteClaimFromCheckpoint, IdsTyped, NoIDs, hardware
<1>7. CASE Reboot
  BY <1>7 DEF Reboot, IdsTyped, NoIDs
<1>8. CASE NewDeviceState
  BY <1>8 DEF NewDeviceState, IdsTyped, NoIDs, hardware
<1>9. ASSUME NEW c \in Claims,
             \/ PodStarts(c) \/ PodEnds(c) \/ ClaimDeleted(c) \/ FindStale(c)
             \/ PrepareAgain(c) \/ PrepareBegin(c) \/ UnprepareNoop(c) \/ UnprepareBegin(c)
      PROVE  IdsTyped'
  BY <1>1, <1>9
  DEF PodStarts, PodEnds, ClaimDeleted, FindStale, PrepareAgain, PrepareBegin,
      UnprepareNoop, UnprepareBegin, hardware, files
<1>10. CASE \/ PrepareStarted \/ ApplyConfig \/ MpsMode \/ MpsDeploy \/ MpsAssertReady
            \/ VfioUnbind \/ VfioBind \/ RemoveSiblings \/ CreateClaimSpecFile
            \/ PrepareReturns \/ RollbackDone \/ UnprepareVfio \/ NvidiaBind
  BY <1>1, <1>10
  DEF PrepareStarted, ApplyConfig, MpsMode, MpsDeploy, MpsAssertReady, VfioUnbind, VfioBind,
      RemoveSiblings, CreateClaimSpecFile, PrepareReturns, RollbackDone, UnprepareVfio,
      NvidiaBind, hardware, files
<1>11. CASE \/ MpsStop \/ MpsRemoveRoot \/ ResetTimeSlice \/ DiscoverSiblings
            \/ DeleteClaimSpecFile \/ UnprepareReturns \/ OpFails \/ CleanupGivesUp
            \/ Crash \/ DestroyedUnknown \/ Serve \/ OtherStarts \/ HandOver
  BY <1>1, <1>11
  DEF MpsStop, MpsRemoveRoot, ResetTimeSlice, DiscoverSiblings, DeleteClaimSpecFile,
      UnprepareReturns, OpFails, CleanupGivesUp, Crash, DestroyedUnknown, Serve, OtherStarts,
      HandOver, hardware, files
<1> QED
  BY <1>2, <1>3, <1>4, <1>5, <1>6, <1>7, <1>8, <1>9, <1>10, <1>11 DEF Next, Operation

WorkInv == OtherLives /\ HolderWork /\ Instances /\ IdsAgree

(* Steps that only move the lock holder on, in what follows, or end it *)
LEMMA MoveFacts ==
    ASSUME GpuInv, UNCHANGED <<gates, gi, ci, giID, preparedGI>>, Completed' \subseteq Completed,
           op'.step # "ci" \/ op' = op \/ op' = NoOp, HolderWork', OtherLives',
           \/ op'.claims = {}
           \/ op'.kind # "prepare"
           \/ op'.step \notin Holding
           \/ /\ op'.claims = op.claims /\ op.kind = "prepare" /\ op.step \in Holding
              /\ op'.ids = op.ids /\ op.todo \subseteq op'.todo
           \/ \A c \in op'.claims : DevicesOf[c] \cap Migs \subseteq op'.todo
    PROVE  WorkInv'
<1>1. IdsAgree'
  BY IdsFacts DEF GpuInv
<1>2. Instances'
  BY DEF GpuInv, Instances, NoOp
<1> QED
  BY <1>1, <1>2 DEF WorkInv

(* Nobody holds the lock afterwards, or nothing of this has changed. *)
LEMMA IdleWork ==
    ASSUME GpuInv, UNCHANGED <<gates, gi, ci, giID, preparedGI>>, Completed' = Completed,
           \/ op' = op /\ UNCHANGED cp
           \/ op' = NoOp
           \/ op'.claims = {},
           OtherLives', op'.step # "ci" \/ op' = op \/ op' = NoOp
    PROVE  WorkInv'
<1>1. HolderWork'
  BY DEF GpuInv, HolderWork, NoOp
<1>2. CASE op' = op
  <2>1. IdsAgree' /\ Instances'
    BY <1>2 DEF GpuInv, IdsAgree, Instances
  <2> QED
    BY <1>1, <2>1 DEF WorkInv
<1>3. CASE op'.claims = {} \/ op' = NoOp
  <2>1. op'.claims = {}
    BY <1>3 DEF NoOp
  <2> QED
    BY <1>1, <2>1, MoveFacts
<1> QED
  BY <1>2, <1>3

(* The second process and the boot *)
LEMMA OtherQuiet ==
    ASSUME OtherLives, UNCHANGED <<gates, boot>>,
           other'.step = other.step \/ other'.step = "none"
    PROVE  OtherLives'
BY DEF OtherLives, Dynamic

(* Pods, the cleanup and the life of the plugin *)
LEMMA LifeWork ==
    ASSUME GpuInv,
           \/ CleanupGivesUp \/ Crash \/ DestroyedUnknown \/ Serve \/ OtherStarts \/ HandOver
           \/ \E c \in Claims : PodStarts(c) \/ PodEnds(c) \/ ClaimDeleted(c) \/ FindStale(c)
    PROVE  WorkInv'
<1>1. UNCHANGED <<gates, gi, ci, giID, preparedGI, cp, boot>>
  BY DEF CleanupGivesUp, Crash, DestroyedUnknown, Serve, OtherStarts, HandOver, PodStarts,
         PodEnds, ClaimDeleted, FindStale, fixed, hardware, files
<1>2. op' = op \/ op' = NoOp
  BY DEF CleanupGivesUp, Crash, DestroyedUnknown, Serve, OtherStarts, HandOver, PodStarts,
         PodEnds, ClaimDeleted, FindStale, process
<1>3. OtherLives'
  <2>1. CASE OtherStarts
    BY <1>1, <2>1 DEF OtherStarts, OtherLives, GpuInv, OldBoot, Dynamic
  <2>2. CASE ~OtherStarts
    <3>1. other'.step = other.step \/ other'.step = "none"
      BY <2>2 DEF CleanupGivesUp, Crash, DestroyedUnknown, Serve, HandOver, PodStarts,
         PodEnds, ClaimDeleted, FindStale, process, NoOther
    <3> QED
      BY <1>1, <3>1, OtherQuiet DEF GpuInv
  <2> QED
    BY <2>1, <2>2
<1>4. Completed' = Completed
  BY <1>1 DEF Completed
<1> QED
  BY <1>1, <1>2, <1>3, <1>4, IdleWork

LEMMA RebootWork ==
    ASSUME GpuInv, Reboot \/ NewDeviceState
    PROVE  WorkInv'
<1>1. CASE Reboot
  BY <1>1
  DEF Reboot, WorkInv, OtherLives, HolderWork, Instances, IdsAgree, NoOther, NoOp
<1>2. CASE NewDeviceState
  <2>1. /\ phase = "down" /\ boot' = "current"
        /\ UNCHANGED <<gates, gi, ci, giID, op, other>>
        /\ other.step = "none"
        /\ cp' = IF boot = "old" THEN NoClaims ELSE cp
        /\ preparedGI' = IF boot = "old" THEN [c \in Claims |-> NoIDs] ELSE preparedGI
    BY <1>2 DEF NewDeviceState, fixed, hardware
  <2>2. op.claims = {} /\ op.kind = "none" /\ op'.claims = {}
    BY <2>1 DEF GpuInv, HolderAgrees
  <2>3. HolderWork' /\ OtherLives'
    BY <2>1, <2>2 DEF HolderWork, OtherLives
  <2>4. Instances'
    BY <2>1 DEF GpuInv, Instances
  <2>5. IdsAgree'
    <3>1. CASE boot = "old"
      BY <2>1, <3>1 DEF GpuInv, OldBoot, IdsAgree
    <3>2. CASE boot # "old"
      BY <2>1, <2>2, <3>2 DEF GpuInv, IdsAgree, Completed
    <3> QED
      BY <3>1, <3>2
  <2> QED
    BY <2>3, <2>4, <2>5 DEF WorkInv
<1> QED
  BY <1>1, <1>2

(* MIG devices are removed, with or without the lock. *)
LEMMA RemoveWork ==
    ASSUME GpuInv, NEW d \in Migs,
           RollbackDevice(d) \/ UnprepareMig(d) \/ DestroyUnknown(d) \/ OtherDestroys(d)
    PROVE  WorkInv'
<1>0. LockTyped /\ IdsTyped /\ Instances /\ HolderWork /\ OtherLives /\ IdsAgree
      /\ HolderAgrees
  BY DEF GpuInv
<1>1. UNCHANGED <<gates, preparedGI, cp, boot>>
  BY DEF RollbackDevice, UnprepareMig, DestroyUnknown, OtherDestroys, fixed, files
<1>2. /\ Instances' /\ ci' \subseteq ci /\ \A x \in ci' : giID'[x] = giID[x]
      /\ \/ op' = op
         \/ op' = NoOp
         \/ /\ op' = [op EXCEPT !.todo = op.todo \ {d}]
            /\ op.step \in {"rollback", "delete"}
      /\ other'.step = other.step \/ OtherDestroys(d)
  <2>1. CASE RollbackDevice(d)
    <3>1. /\ op.step = "rollback" /\ other' = other
          /\ op' = NoOp \/ op' = [op EXCEPT !.todo = op.todo \ {d}]
          /\ \/ UNCHANGED <<gi, ci, giID>>
             \/ \E r \in DeleteMigDevice(migSeen, {d}) : SetMig(r)
      <4>1. [op EXCEPT !.step = "rollback", !.todo = op.todo \ {d}] =
              [op EXCEPT !.todo = op.todo \ {d}] \/ op.step # "rollback"
        BY <1>0 DEF LockTyped, Op
      <4> QED
        BY <2>1, <4>1 DEF RollbackDevice, GoTo
    <3>2. op'.step # "ci" /\ op.step # "ci"
      BY <1>0, <3>1 DEF NoOp, LockTyped, Op
    <3>3. CASE UNCHANGED <<gi, ci, giID>>
      BY <1>0, <3>1, <3>2, <3>3 DEF Instances
    <3>4. CASE \E r \in DeleteMigDevice(migSeen, {d}) : SetMig(r)
      BY <1>0, <3>1, <3>2, <3>4, FewerInstances
    <3> QED
      BY <3>1, <3>3, <3>4
  <2>2. CASE UnprepareMig(d)
    <3>1. /\ op.step = "delete" /\ other' = other
          /\ op' = NoOp \/ op' = [op EXCEPT !.todo = op.todo \ {d}]
          /\ \E found : \E r \in DeleteMigDevice(migSeen, found) : SetMig(r)
      BY <2>2 DEF UnprepareMig, At
    <3>2. op'.step # "ci" /\ op.step # "ci"
      BY <1>0, <3>1 DEF NoOp, LockTyped, Op
    <3> QED
      BY <1>0, <3>1, <3>2, FewerInstances
  <2>3. CASE DestroyUnknown(d) \/ OtherDestroys(d)
    <3>1. /\ op' = op /\ {d} \subseteq ci
          /\ \E seen : \E r \in DeleteMigDevice(seen, {d}) : SetMig(r)
          /\ other' = other \/ OtherDestroys(d)
      BY <2>3 DEF DestroyUnknown, OtherDestroys, LiveMigDevices
    <3> QED
      BY <1>0, <3>1, FewerInstances
  <2> QED
    BY <2>1, <2>2, <2>3
<1>3. OtherLives'
  <2>1. CASE other'.step = other.step
    BY <1>0, <1>1, <2>1, OtherQuiet
  <2>2. CASE OtherDestroys(d)
    BY <1>0, <1>1, <2>2 DEF OtherDestroys, OtherLives, Dynamic
  <2> QED
    BY <1>2, <2>1, <2>2
<1>4. CASE op' = op \/ op' = NoOp
  <2>1. op' = op \/ op'.claims = {}
    BY <1>4 DEF NoOp
  <2>2. HolderWork'
    BY <1>0, <1>1, <2>1 DEF HolderWork
  <2>3. IdsAgree'
    <3>1. CASE op'.claims = {}
      BY <1>0, <1>1, <1>2, <3>1, IdsFacts DEF Completed
    <3>2. CASE op' = op
      BY <1>0, <1>1, <1>2, <3>2 DEF IdsAgree, Completed
    <3> QED
      BY <2>1, <3>1, <3>2
  <2> QED
    BY <1>2, <1>3, <2>2, <2>3 DEF WorkInv
<1>5. CASE op' = [op EXCEPT !.todo = op.todo \ {d}] /\ op.step \in {"rollback", "delete"}
  <2>1. /\ op'.claims = op.claims /\ op'.kind = op.kind /\ op'.step = op.step
    BY <1>0, <1>5 DEF LockTyped, Op
  <2>2. HolderWork'
    BY <1>0, <1>1, <1>5, <2>1 DEF HolderWork
  <2>3. IdsAgree'
    BY <1>0, <1>1, <1>2, <1>5, <2>1, IdsFacts DEF Holding, Completed
  <2> QED
    BY <1>2, <1>3, <2>2, <2>3 DEF WorkInv
<1> QED
  BY <1>2, <1>4, <1>5

(* Requests and the steps that need not look at ids *)
LEMMA RequestWork ==
    ASSUME GpuInv, NEW c \in Claims,
           PrepareAgain(c) \/ PrepareBegin(c) \/ UnprepareNoop(c) \/ UnprepareBegin(c)
    PROVE  WorkInv'
<1>1. UNCHANGED <<gates, gi, ci, giID, preparedGI, cp, boot, other>>
  BY DEF PrepareAgain, PrepareBegin, UnprepareNoop, UnprepareBegin, fixed, hardware, files
<1>2. /\ op'.claims = {c}
      /\ \/ op'.kind = "prepare" /\ op'.step \in {"rollback", "publish"}
         \/ /\ op'.kind = "unprepare"
            /\ \/ op'.step \in {"publish", "rollback"}
               \/ op'.step = "vfio" /\ cp[c] = "PrepareCompleted"
  <2>1. CASE PrepareAgain(c) \/ PrepareBegin(c) \/ UnprepareNoop(c)
    BY <2>1 DEF PrepareAgain, PrepareBegin, UnprepareNoop, Begin
  <2>2. CASE UnprepareBegin(c) /\ cp[c] = "PrepareStarted"
    BY <2>2 DEF UnprepareBegin, Begin
  <2>3. CASE UnprepareBegin(c) /\ cp[c] # "PrepareStarted"
    <3>1. \E todo : op' = Begin("unprepare", c, "vfio", todo)
      BY <2>3 DEF UnprepareBegin
    <3>2. cp[c] = "PrepareCompleted"
      BY <2>3 DEF UnprepareBegin, CheckpointState, GpuInv, LockTyped
    <3> QED
      BY <3>1, <3>2 DEF Begin
  <2> QED
    BY <2>1, <2>2, <2>3
<1>3. HolderWork'
  BY <1>1, <1>2 DEF HolderWork, Releasing
<1>4. OtherLives' /\ Completed' = Completed
  BY <1>1, OtherQuiet DEF GpuInv, Completed
<1> QED
  BY <1>1, <1>2, <1>3, <1>4, MoveFacts DEF Holding

LEMMA ReturnWork ==
    ASSUME GpuInv, OpFails \/ PrepareReturns \/ UnprepareReturns
    PROVE  WorkInv'
<1>1. UNCHANGED <<gates, gi, ci, giID, preparedGI, cp, boot, other>> /\ op' = NoOp
  BY DEF OpFails, PrepareReturns, UnprepareReturns, fixed, hardware, files
<1>2. OtherLives' /\ Completed' = Completed
  BY <1>1, OtherQuiet DEF GpuInv, Completed
<1> QED
  BY <1>1, <1>2, IdleWork

(* Steps of Unprepare *)
LEMMA UndoWork ==
    ASSUME GpuInv,
           \/ RollbackDone \/ UnprepareVfio \/ NvidiaBind \/ MpsStop \/ MpsRemoveRoot
           \/ ResetTimeSlice \/ DiscoverSiblings \/ DeleteClaimSpecFile
    PROVE  WorkInv'
<1>0. LockTyped /\ HolderAgrees /\ HolderWork /\ OtherLives
  BY DEF GpuInv
<1>1. op.kind = "unprepare"
  BY DEF RollbackDone, UnprepareVfio, NvidiaBind, MpsStop, MpsRemoveRoot,
         ResetTimeSlice, DiscoverSiblings, DeleteClaimSpecFile, At
<1>2. PICK o \in Claims : op.claims = {o}
  BY <1>0, <1>1, HolderFacts
<1>3. UNCHANGED <<gates, gi, ci, giID, preparedGI, cp, boot, other>>
  BY DEF RollbackDone, UnprepareVfio, NvidiaBind, MpsStop, MpsRemoveRoot,
         ResetTimeSlice, DiscoverSiblings, DeleteClaimSpecFile, fixed, hardware, files
<1>4. \/ \E step \in {"spec", "entry"} : \E todo : GoTo(step, todo)
      \/ /\ \E step \in Releasing : \E todo : GoTo(step, todo)
         /\ op.step \in Releasing
  BY DEF RollbackDone, UnprepareVfio, NvidiaBind, MpsStop, MpsRemoveRoot,
         ResetTimeSlice, DiscoverSiblings, DeleteClaimSpecFile, At, Releasing
<1>5. /\ op'.claims = {o} /\ op'.kind = "unprepare" /\ op'.step # "ci"
      /\ op'.step \in Releasing => op.step \in Releasing
  BY <1>0, <1>1, <1>2, <1>4 DEF GoTo, LockTyped, Op, Releasing
<1>6. HolderWork'
  BY <1>0, <1>1, <1>2, <1>3, <1>5 DEF HolderWork
<1>7. OtherLives' /\ Completed' = Completed
  BY <1>0, <1>3, OtherQuiet DEF Completed
<1> QED
  BY <1>3, <1>5, <1>6, <1>7, MoveFacts

LEMMA EntryWork ==
    ASSUME GpuInv, PrepareStarted \/ DeleteClaimFromCheckpoint
    PROVE  WorkInv'
<1>0. LockTyped /\ HolderAgrees /\ HolderWork /\ OtherLives /\ IdsTyped
  BY DEF GpuInv
<1>1. PICK o \in Claims : op.claims = {o} /\ o = ClaimOf
  BY <1>0, HolderFacts DEF PrepareStarted, DeleteClaimFromCheckpoint, At
<1>2. UNCHANGED <<gates, gi, ci, giID, boot, other>>
  BY DEF PrepareStarted, DeleteClaimFromCheckpoint, fixed, hardware
<1>3. OtherLives'
  BY <1>0, <1>2, OtherQuiet
<1>4. CASE PrepareStarted
  <2>1. /\ cp' = [cp EXCEPT ![o] = "PrepareStarted"] /\ preparedGI' = preparedGI
        /\ op.kind = "prepare"
        /\ op' = [op EXCEPT !.step = "apply", !.todo = DevicesOf[o]]
    BY <1>1, <1>4 DEF PrepareStarted, At, SetEntry, GoTo
  <2>2. /\ op'.claims = {o} /\ op'.kind = "prepare" /\ op'.step = "apply"
        /\ op'.todo = DevicesOf[o]
    BY <1>0, <1>1, <2>1 DEF LockTyped, Op
  <2>3. HolderWork'
    BY <2>2 DEF HolderWork
  <2>4. Completed' \subseteq Completed
    BY <1>0, <2>1 DEF Completed, LockTyped
  <2> QED
    BY <1>2, <1>3, <2>1, <2>2, <2>3, <2>4, MoveFacts DEF Holding
<1>5. CASE DeleteClaimFromCheckpoint
  <2>1. /\ cp' = [cp EXCEPT ![o] = "none"]
        /\ preparedGI' = [preparedGI EXCEPT ![o] = NoIDs]
        /\ op.kind = "unprepare"
        /\ op' = [op EXCEPT !.step = "publish", !.todo = {}]
    BY <1>1, <1>5 DEF DeleteClaimFromCheckpoint, At, SetEntry, GoTo
  <2>2. op'.claims = {o} /\ op'.kind = "unprepare" /\ op'.step = "publish"
    BY <1>0, <1>1, <2>1 DEF LockTyped, Op
  <2>3. HolderWork'
    BY <2>2 DEF HolderWork, Releasing
  <2>4. Completed' \subseteq Completed \ {o}
    BY <1>0, <2>1 DEF Completed, LockTyped
  <2>5. IdsAgree'
    <3>1. \A c \in Completed' : preparedGI'[c] = preparedGI[c]
      BY <1>0, <2>1, <2>4 DEF IdsTyped, Completed
    <3> QED
      BY <1>0, <1>2, <2>2, <2>4, <3>1, IdsFacts DEF GpuInv
  <2>6. Instances'
    BY <1>2, <2>2 DEF GpuInv, Instances
  <2> QED
    BY <1>3, <2>3, <2>5, <2>6 DEF WorkInv
<1> QED
  BY <1>4, <1>5

(* Steps of Prepare *)
LEMMA CreatingWork ==
    ASSUME GpuInv,
           \/ ApplyConfig \/ MpsMode \/ MpsDeploy \/ MpsAssertReady
           \/ VfioUnbind \/ VfioBind \/ RemoveSiblings \/ CreateClaimSpecFile
    PROVE  WorkInv'
<1>0. LockTyped /\ HolderAgrees /\ HolderWork /\ OtherLives
  BY DEF GpuInv
<1>1. op.kind = "prepare"
  BY DEF ApplyConfig, MpsMode, MpsDeploy, MpsAssertReady, VfioUnbind, VfioBind,
         RemoveSiblings, CreateClaimSpecFile, At
<1>2. PICK o \in Claims : op.claims = {o} /\ o = ClaimOf
  BY <1>0, <1>1, HolderFacts
<1>3. UNCHANGED <<gates, gi, ci, giID, preparedGI, cp, boot, other>>
  BY DEF ApplyConfig, MpsMode, MpsDeploy, MpsAssertReady, VfioUnbind, VfioBind,
         RemoveSiblings, CreateClaimSpecFile, fixed, hardware, files
<1>4. \/ \E step \in {"mode", "deploy", "ready"} : GoTo(step, DevicesOf[o])
      \/ GoTo("create", DevicesOf[o] \cap Migs)
      \/ \E step \in {"unbind", "bind"} : GoTo(step, {}) /\ "vfio" \in DevicesOf[o]
      \/ GoTo("create", {}) /\ "vfio" \in DevicesOf[o]
      \/ /\ \E step \in {"spec", "completed"} : GoTo(step, {})
         /\ op.step \in Holding /\ op.todo = {}
  <2>1. /\ op.step \in {"apply", "mode", "deploy", "ready"} => op.todo = DevicesOf[o]
        /\ op.step \in {"unbind", "bind"} => "vfio" \in DevicesOf[o]
        /\ op.step = "spec" => op.todo = {}
    BY <1>0, <1>1, <1>2 DEF HolderWork
  <2>2. CASE ApplyConfig
    BY <2>1, <2>2 DEF ApplyConfig, At, CreateDevices
  <2>3. CASE MpsMode \/ MpsDeploy \/ MpsAssertReady
    BY <2>1, <2>3 DEF MpsMode, MpsDeploy, MpsAssertReady, At, CreateDevices
  <2>4. CASE VfioUnbind \/ VfioBind
    BY <2>1, <2>4 DEF VfioUnbind, VfioBind, At
  <2>5. CASE RemoveSiblings \/ CreateClaimSpecFile
    BY <2>1, <2>5 DEF RemoveSiblings, CreateClaimSpecFile, At, Holding
  <2> QED
    BY <2>2, <2>3, <2>4, <2>5
<1>5. /\ op'.claims = {o} /\ op'.kind = "prepare" /\ op'.ids = op.ids
      /\ \/ op'.step \in {"mode", "deploy", "ready"} /\ op'.todo = DevicesOf[o]
         \/ op'.step = "create" /\ op'.todo = DevicesOf[o] \cap Migs
         \/ op'.step \in {"unbind", "bind"} /\ "vfio" \in DevicesOf[o]
         \/ op'.step = "create" /\ "vfio" \in DevicesOf[o]
         \/ /\ op'.step \in {"spec", "completed"} /\ op'.todo = {}
            /\ op.step \in Holding /\ op.todo = {}
  BY <1>0, <1>1, <1>2, <1>4 DEF GoTo, LockTyped, Op
<1>6. HolderWork'
  BY <1>5 DEF HolderWork
<1>7. "vfio" \in DevicesOf[o] => DevicesOf[o] \cap Migs = {}
  BY GpuPluginAssumption
<1>8. OtherLives' /\ Completed' = Completed
  BY <1>0, <1>3, OtherQuiet DEF Completed
<1>9. op'.step # "ci"
  BY <1>5
<1>10. \/ op'.step \notin Holding
       \/ /\ op'.claims = op.claims /\ op.kind = "prepare" /\ op.step \in Holding
          /\ op'.ids = op.ids /\ op.todo \subseteq op'.todo
       \/ \A c \in op'.claims : DevicesOf[c] \cap Migs \subseteq op'.todo
  BY <1>1, <1>2, <1>5, <1>7 DEF Holding
<1> QED
  BY <1>3, <1>6, <1>8, <1>9, <1>10, MoveFacts

(* createMigDevice: the GPU instance is new, and its id is remembered. *)
LEMMA MigWork ==
    ASSUME GpuInv, NEW d \in Migs, CreateGpuInstance(d) \/ CreateComputeInstance(d)
    PROVE  WorkInv'
<1>0. /\ LockTyped /\ IdsTyped /\ HolderAgrees /\ HolderWork /\ OtherLives /\ Instances
      /\ IdsAgree
  BY DEF GpuInv
<1>1. op.kind = "prepare" /\ op.step \in {"create", "ci"}
  BY DEF CreateGpuInstance, CreateComputeInstance, At
<1>2. PICK o \in Claims : op.claims = {o}
  BY <1>0, <1>1, HolderFacts
<1>3. UNCHANGED <<gates, preparedGI, cp, boot, other>>
  BY DEF CreateGpuInstance, CreateComputeInstance, fixed, files
<1>4. OtherLives' /\ Completed' = Completed
  BY <1>0, <1>3, OtherQuiet DEF Completed
<1>5. CASE CreateGpuInstance(d) /\ op' = NoOp /\ UNCHANGED <<gi, giID>>
  <2>1. UNCHANGED ci
    BY <1>5 DEF CreateGpuInstance
  <2> QED
    BY <1>3, <1>4, <1>5, <2>1, IdleWork
<1>6. CASE /\ CreateGpuInstance(d)
           /\ \A e \in gi : SlicesOf[d] \cap SlicesOf[e] = {}
           /\ gi' = gi \cup {d}
           /\ \E i \in Ids \ {giID[e] : e \in gi} : giID' = [giID EXCEPT ![d] = i]
           /\ op' = [op EXCEPT !.step = "ci", !.dev = {d}]
  <2>1. d \notin gi /\ ci' = ci /\ op.step = "create"
    BY <1>6, GpuPluginAssumption DEF CreateGpuInstance, At
  <2>2. d \notin ci /\ \A e \in ci : giID'[e] = giID[e]
    BY <1>0, <1>6, <2>1 DEF Instances, LockTyped, IdsTyped
  <2>3. /\ op'.claims = {o} /\ op'.kind = "prepare" /\ op'.step = "ci" /\ op'.dev = {d}
        /\ op'.todo = op.todo /\ op'.ids = op.ids
    BY <1>0, <1>1, <1>2, <1>6 DEF LockTyped, Op
  <2>4. HolderWork'
    BY <2>3 DEF HolderWork
  <2>5. Instances'
    BY <1>0, <1>6, <2>1, <2>2, <2>3 DEF Instances
  <2>6. IdsAgree'
    BY <1>0, <1>1, <1>2, <1>3, <1>4, <2>1, <2>2, <2>3, IdsFacts DEF Holding
  <2> QED
    BY <1>4, <2>4, <2>5, <2>6 DEF WorkInv
<1>7. CASE CreateComputeInstance(d)
  <2>1. /\ op.step = "ci" /\ d \in op.dev /\ ci' = ci \cup {d} /\ UNCHANGED <<gi, giID>>
        /\ op' = [op EXCEPT !.step = "create", !.todo = op.todo \ {d}, !.dev = {},
                            !.ids = [op.ids EXCEPT ![d] = giID[d]]]
    BY <1>7 DEF CreateComputeInstance, At
  <2>2. /\ op'.claims = {o} /\ op'.kind = "prepare" /\ op'.step = "create"
        /\ op'.todo = op.todo \ {d} /\ op'.ids = [op.ids EXCEPT ![d] = giID[d]]
        /\ op.ids \in [Migs -> Ids \cup {NoID}]
    BY <1>0, <1>1, <1>2, <2>1 DEF LockTyped, Op
  <2>3. HolderWork'
    BY <2>2 DEF HolderWork
  <2>4. Instances'
    BY <1>0, <2>1, <2>2 DEF Instances
  <2>5. d \in op.todo /\ op.todo \subseteq DevicesOf[o] /\ NoOverlappingPreparedDevices(o)
        /\ cp[o] # "PrepareCompleted"
    BY <1>0, <1>1, <1>2, <2>1 DEF HolderAgrees
  <2>6. ASSUME NEW e \in ci' \ AdminDevices
        PROVE  /\ \A c \in Completed : e \in DevicesOf[c] => giID[e] = preparedGI[c][e]
               /\ e \in DevicesOf[o] \ op'.todo => giID[e] = op'.ids[e]
    <3>1. CASE e = d
      <4>1. \A c \in Completed : e \notin DevicesOf[c]
        BY <1>2, <2>5, <2>6, <3>1 DEF NoOverlappingPreparedDevices, AdminDevices, Completed
      <4> QED
        BY <2>2, <3>1, <4>1
    <3>2. CASE e # d
      <4>1. e \in ci \ AdminDevices /\ e \in Migs /\ op'.ids[e] = op.ids[e]
        BY <1>0, <2>1, <2>2, <2>6, <3>2 DEF LockTyped
      <4> QED
        BY <1>0, <1>1, <1>2, <2>1, <2>2, <3>2, <4>1 DEF IdsAgree
    <3> QED
      BY <3>1, <3>2
  <2>7. IdsAgree'
    BY <1>3, <1>4, <2>1, <2>2, <2>6 DEF IdsAgree
  <2> QED
    BY <1>4, <2>3, <2>4, <2>7 DEF WorkInv
<1> QED
  BY <1>5, <1>6, <1>7 DEF CreateGpuInstance

(* The ids are written with the entry. *)
LEMMA CompletedWork ==
    ASSUME GpuInv, PrepareCompleted
    PROVE  WorkInv'
<1>0. /\ LockTyped /\ IdsTyped /\ HolderAgrees /\ HolderWork /\ OtherLives /\ Instances
      /\ IdsAgree
  BY DEF GpuInv
<1>1. PICK o \in Claims : op.claims = {o} /\ o = ClaimOf
  BY <1>0, HolderFacts DEF PrepareCompleted, At
<1>2. /\ UNCHANGED <<gates, gi, ci, giID, boot, other>>
      /\ op.kind = "prepare" /\ op.step = "completed"
      /\ op' = [op EXCEPT !.step = "publish", !.todo = {}]
      /\ cp' = [cp EXCEPT ![o] = "PrepareCompleted"]
      /\ preparedGI' = [preparedGI EXCEPT ![o] = op.ids]
  BY <1>1 DEF PrepareCompleted, At, GoTo, SetEntry, fixed, hardware
<1>3. op'.claims = {o} /\ op'.kind = "prepare" /\ op'.step = "publish"
  BY <1>0, <1>1, <1>2 DEF LockTyped, Op
<1>4. HolderWork' /\ Instances'
  BY <1>0, <1>2, <1>3 DEF HolderWork, Instances
<1>5. OtherLives'
  BY <1>0, <1>2, OtherQuiet
<1>6. op.todo = {}
  BY <1>0, <1>1, <1>2 DEF HolderWork
<1>7. \A c \in Claims : preparedGI'[c] = IF c = o THEN op.ids ELSE preparedGI[c]
  BY <1>0, <1>2 DEF IdsTyped
<1>8. Completed' \subseteq Completed \cup {o}
  BY <1>0, <1>2 DEF Completed, LockTyped
<1>9. ASSUME NEW d \in ci \ AdminDevices, NEW c \in Completed', d \in DevicesOf[c]
      PROVE  giID[d] = preparedGI'[c][d]
  <2>1. c \in Claims
    BY DEF Completed
  <2>2. CASE c = o
    BY <1>0, <1>1, <1>2, <1>6, <1>7, <1>9, <2>1, <2>2 DEF IdsAgree
  <2>3. CASE c # o
    BY <1>0, <1>7, <1>8, <1>9, <2>1, <2>3 DEF IdsAgree
  <2> QED
    BY <2>2, <2>3
<1>10. IdsAgree'
  BY <1>2, <1>3, <1>9 DEF IdsAgree
<1> QED
  BY <1>4, <1>5, <1>10 DEF WorkInv

LEMMA WorkStep ==
    ASSUME GpuInv, Next
    PROVE  WorkInv'
BY LifeWork, RebootWork, RemoveWork, RequestWork, ReturnWork, UndoWork, EntryWork,
   CreatingWork, MigWork, CompletedWork
DEF Next, Operation

-----------------------------------------------------------------------------
(* GpuInv holds whatever requests, failures, crashes, restarts and reboots *)
(* interleave, and whatever ids NVML gives: the lock holder's step agrees  *)
(* with the checkpoint, and what an unfinished Unprepare leaves behind     *)
(* belongs to other claims.                                                *)
THEOREM GpuInvariant == Spec => []GpuInv
<1>1. Init => GpuInv
  <2> SUFFICES ASSUME Init PROVE GpuInv
    OBVIOUS
  <2>1. /\ op = NoOp /\ cp = NoClaims /\ ci = {} /\ gi = {} /\ giID = NoIDs
        /\ preparedGI = [c \in Claims |-> NoIDs] /\ other = NoOther
        /\ boot \in {"legacy", "current"} /\ allocatable = {}
    BY DEF Init
  <2>2. /\ LockTyped /\ HolderAgrees /\ NoMigs /\ OldBoot /\ LeftToOthers
        /\ DevicesExclusive /\ MigAccounted
    BY <2>1, NoOpTyped
    DEF LockTyped, HolderAgrees, NoMigs, OldBoot, LeftToOthers, DevicesExclusive,
        MigAccounted, Completed, NoOp, NoClaims, CheckpointState
  <2>3. IdsTyped /\ OtherLives /\ HolderWork /\ Instances /\ IdsAgree
    BY <2>1
    DEF IdsTyped, OtherLives, HolderWork, Instances, IdsAgree, NoOp, NoOther, NoIDs
  <2> QED
    BY <2>2, <2>3 DEF GpuInv
<1>2. GpuInv /\ [Next]_vars => GpuInv'
  <2>1. ASSUME GpuInv, Next PROVE GpuInv'
    <3>1. LockTyped' /\ IdsTyped'
      BY <2>1, TypeStep, IdsTypeStep DEF GpuInv
    <3> QED
      BY <2>1, <3>1, CoreStep, WorkStep DEF GpuInv, CoreInv, WorkInv
  <2>2. ASSUME GpuInv, UNCHANGED vars PROVE GpuInv'
    <3>1. UNCHANGED core /\ UNCHANGED <<gi, giID, preparedGI, other>>
      BY <2>2 DEF vars, core, fixed, hardware, files, process
    <3>2. CoreInv'
      BY <2>2, <3>1, QuietFacts DEF GpuInv, CoreInv
    <3>3. LockTyped' /\ IdsTyped' /\ OtherLives' /\ HolderWork' /\ Instances' /\ IdsAgree'
      BY <2>2, <3>1
      DEF GpuInv, LockTyped, IdsTyped, OtherLives, HolderWork, Instances, IdsAgree, core,
          Dynamic, Completed
    <3> QED
      BY <3>2, <3>3 DEF GpuInv, CoreInv
  <2> QED
    BY <2>1, <2>2
<1> QED
  BY <1>1, <1>2, PTL DEF Spec

(* Claims whose preparation is complete never share a device, unless one   *)
(* has admin access: two claims for one device may be in progress one      *)
(* after the other, and validateNoOverlappingPreparedDevices still holds   *)
(* when PrepareCompleted is written.                                       *)
THEOREM ExclusiveDevices == Spec => []DevicesExclusive
<1>1. GpuInv => DevicesExclusive
  BY DEF GpuInv
<1> QED
  BY <1>1, GpuInvariant, PTL

(* No MIG device, but for those with admin access, is ever without a claim *)
(* in the checkpoint: at any step of createMigDevice, of a rollback or of  *)
(* unprepareDevices, after any crash, and although Unprepare knows a MIG   *)
(* device by an id only that NVML may give to another one.                 *)
THEOREM AccountedMigs == Spec => []MigAccounted
<1>1. GpuInv => MigAccounted
  BY DEF GpuInv
<1> QED
  BY <1>1, GpuInvariant, PTL

-----------------------------------------------------------------------------
(* What prepared claims rely on *)

(* A step changes nothing that claims other than those in cs, with devices *)
(* other than those in ds, depend on.  Where the passthrough device is     *)
(* allocatable, nobody relies on the settings of the full GPU.             *)
VfioFree == Passthrough /\ "vfio" \in allocatable
Touches(ds, cs) ==
    /\ gates' = gates
    /\ (gi \cap ci) \ ds \subseteq gi' \cap ci'
    /\ bound' = bound \/ ("vfio" \in ds /\ (bound' = "nvidia" \/ VfioFree))
    /\ sharing' = sharing \/ "gpu" \in ds \/ VfioFree
    /\ mpsDeployed \ cs \subseteq mpsDeployed' /\ specs \ cs \subseteq specs'
    /\ "gpu" \in allocatable' =>
         "gpu" \in allocatable \/ "vfio" \in ds \/ bound # "vfio-pci" \/ ~Passthrough
    /\ "vfio" \in allocatable' => "vfio" \in allocatable \/ "gpu" \in ds \/ ~Passthrough

(* Nobody gets a claim back, and completed claims are as they were. *)
NoneReturns ==
    \A c \in Completed' : boot' # "old" /\ ~Leaving(c)' =>
        /\ c \in Completed /\ boot # "old" /\ ~Leaving(c)
        /\ c \in disturbed => c \in disturbed'

LEMMA TouchKeeps ==
    ASSUME NEW c \in Claims, NEW ds, NEW cs, Touches(ds, cs),
           DevicesOf[c] \cap ds = {}, c \notin cs, SetUp(c, {}), Withdrawn(c)
    PROVE  SetUp(c, {})' /\ Withdrawn(c)'
<1>1. SharingOf[c] = "Mps" => c \in mpsDeployed'
  BY DEF Touches, SetUp
<1>2. (DevicesOf[c] \cap Migs) \ {} \subseteq gi' \cap ci'
  BY DEF Touches, SetUp
<1>3. "vfio" \in DevicesOf[c] =>
        Passthrough' /\ bound' = "vfio-pci" /\ "gpu" \notin allocatable'
  BY DEF Touches, SetUp, Withdrawn, Passthrough
<1>4. "gpu" \in DevicesOf[c] /\ Passthrough' => "vfio" \notin allocatable'
  BY DEF Touches, Withdrawn, Passthrough
<1>5. ("gpu" \in DevicesOf[c] /\ SharingOf[c] # "Mps" /\ TimeSlicing') =>
         bound' = "nvidia" /\ sharing' = TimeSlice(SharingOf[c])
  BY DEF Touches, SetUp, Withdrawn, TimeSlicing, VfioFree
<1> QED
  BY <1>1, <1>2, <1>3, <1>4, <1>5 DEF SetUp, Withdrawn, TimeSlice

(* Completed claims stay set up through such a step. *)
LEMMA OthersKept ==
    ASSUME CompletedSetUp, NoneReturns, NEW ds, NEW cs, Touches(ds, cs),
           \A c \in Completed : boot # "old" /\ ~Leaving(c) =>
               /\ c \notin cs
               /\ c \in disturbed' \/ DevicesOf[c] \cap ds = {}
    PROVE  CompletedSetUp'
<1>1. SUFFICES ASSUME NEW c \in Completed', boot' # "old", ~Leaving(c)'
               PROVE  /\ c \in specs'
                      /\ c \notin disturbed' => SetUp(c, {})' /\ Withdrawn(c)'
  BY DEF CompletedSetUp
<1>2. /\ c \in Completed /\ boot # "old" /\ ~Leaving(c) /\ c \in Claims
      /\ c \in disturbed => c \in disturbed'
  BY <1>1 DEF NoneReturns, Completed
<1>3. c \in specs /\ (c \notin disturbed => SetUp(c, {}) /\ Withdrawn(c))
  BY <1>2 DEF CompletedSetUp
<1>4. c \in specs'
  BY <1>2, <1>3 DEF Touches
<1>5. ASSUME c \notin disturbed' PROVE SetUp(c, {})' /\ Withdrawn(c)'
  BY <1>2, <1>3, <1>5, TouchKeeps
<1> QED
  BY <1>4, <1>5

(* While a claim is prepared, no completed claim has its devices, but for  *)
(* those that were disturbed before it began ...                           *)
LEMMA PrepareApart ==
    ASSUME GpuInv, SharersDisturbed, op.kind = "prepare", op.step \in Creating,
           NEW c \in Completed
    PROVE  /\ c \notin op.claims
           /\ c \in disturbed \/ DevicesOf[c] \cap DevicesOf[ClaimOf] = {}
<1>1. LockTyped /\ HolderAgrees
  BY DEF GpuInv
<1>2. PICK o \in Claims : o = ClaimOf /\ op.claims = {o}
  BY <1>1, HolderFacts
<1>3. /\ cp[o] # "PrepareCompleted" /\ NoOverlappingPreparedDevices(o)
      /\ Sharers(o) \subseteq disturbed
  BY <1>1, <1>2 DEF HolderAgrees, Creating, SharersDisturbed
<1>4. c # o /\ c \in Claims
  BY <1>3 DEF Completed
<1>5. \/ DevicesOf[c] \cap DevicesOf[o] = {}
      \/ {o, c} \cap Admin # {}
  BY <1>3, <1>4 DEF NoOverlappingPreparedDevices
<1> QED
  BY <1>2, <1>3, <1>4, <1>5 DEF Sharers, Users

(* ... nor when it is unprepared, but for itself, and nobody needs it.     *)
LEMMA UnprepareApart ==
    ASSUME GpuInv, SharersDisturbed, HolderProgress, op.kind = "unprepare",
           NEW c \in Completed, ~Leaving(c)
    PROVE  /\ c \notin op.claims
           /\ op.step \in Releasing =>
                c \in disturbed \/ DevicesOf[c] \cap DevicesOf[ClaimOf] = {}
<1>1. LockTyped /\ HolderAgrees /\ DevicesExclusive /\ HolderWork
  BY DEF GpuInv
<1>2. PICK o \in Claims : o = ClaimOf /\ op.claims = {o}
  BY <1>1, HolderFacts
<1>3. c # o /\ c \in Claims
  BY <1>2 DEF HolderProgress, Completed
<1>4. ASSUME op.step \in Releasing
      PROVE  c \in disturbed \/ DevicesOf[c] \cap DevicesOf[o] = {}
  <2>1. o \in Completed /\ Sharers(o) \subseteq disturbed
    BY <1>1, <1>2, <1>4 DEF HolderWork, SharersDisturbed, Completed
  <2>2. \/ DevicesOf[c] \cap DevicesOf[o] = {}
        \/ {o, c} \cap Admin # {}
    BY <1>1, <1>3, <2>1 DEF DevicesExclusive
  <2> QED
    BY <1>3, <2>1, <2>2 DEF Sharers, Users
<1> QED
  BY <1>2, <1>3, <1>4

(* Kubelet and checkpoint still agree when neither has changed. *)
LEMMA KubeletQuiet ==
    ASSUME KubeletAgrees, UNCHANGED <<kubelet, api, published, candidate, boot, cp, gates>>,
           op'.claims \subseteq op.claims, disturbed \subseteq disturbed'
    PROVE  KubeletAgrees'
BY DEF KubeletAgrees, Prepared, MpsOn

(* Whoever shares a device stays disturbed while the lock is held. *)
LEMMA SharersKept ==
    ASSUME SharersDisturbed, op'.claims \subseteq op.claims, Completed' \subseteq Completed,
           disturbed \subseteq disturbed',
           op'.claims # {} => op'.kind = op.kind,
           op'.kind = "prepare" /\ op'.step \in Creating => op.step \in Creating,
           op'.kind = "unprepare" /\ op'.step \in Releasing => op.step \in Releasing
    PROVE  SharersDisturbed'
<1>1. \A c \in op'.claims : Sharers(c)' \subseteq Sharers(c)
  BY DEF Sharers, Users
<1>2. SUFFICES ASSUME NEW c \in op'.claims,
                      \/ op'.kind = "prepare" /\ op'.step \in Creating
                      \/ op'.kind = "unprepare" /\ op'.step \in Releasing
               PROVE  Sharers(c)' \subseteq disturbed'
  BY DEF SharersDisturbed
<1>3. Sharers(c) \subseteq disturbed
  BY <1>2 DEF SharersDisturbed
<1> QED
  BY <1>1, <1>2, <1>3

LEMMA HolderEnds ==
    ASSUME op' = NoOp
    PROVE  HolderProgress' /\ SharersDisturbed' /\ op'.claims = {}
BY DEF HolderProgress, SharersDisturbed, NoOp

-----------------------------------------------------------------------------
(* Pods, requests and their answers *)

LEMMA PodStep ==
    ASSUME GpuInv, SetUpInv, NEW c \in Claims, PodStarts(c) \/ PodEnds(c) \/ ClaimDeleted(c)
    PROVE  SetUpInv'
<1>0. /\ kubelet \in [Claims -> {"idle", "preparing", "prepared", "unpreparing"}]
      /\ ValidGates(gates) /\ ("vfio" \in allocatable => Passthrough)
      /\ HolderProgress /\ SharersDisturbed /\ KubeletAgrees /\ CompletedSetUp
      /\ op.claims \subseteq Claims
  BY DEF SetUpInv, GpuInv, LockTyped, Op
<1>1. /\ UNCHANGED <<gates, gi, ci, bound, sharing, mpsDeployed, published, cp, boot,
                     specs, allocatable, op, candidate, disturbed>>
      /\ api' \subseteq api
  BY DEF PodStarts, PodEnds, ClaimDeleted, fixed, hardware, files, process, history
<1>2. /\ kubelet' \in [Claims -> {"idle", "preparing", "prepared", "unpreparing"}]
      /\ \A o \in Claims \ {c} : kubelet'[o] = kubelet[o] /\ (o \in api' <=> o \in api)
      /\ \/ /\ c \in api /\ kubelet[c] = "idle" /\ kubelet'[c] = "preparing"
            /\ SharingOf[c] = "Mps" => MpsOn
         \/ kubelet[c] # "idle" /\ kubelet'[c] = "unpreparing" /\ api' = api
         \/ kubelet[c] # "idle" /\ c \notin api'
  BY <1>0 DEF PodStarts, PodEnds, ClaimDeleted
<1>3. \A o \in Claims : Leaving(o) => Leaving(o)' \/ (o = c /\ kubelet[c] = "idle" /\ c \in api)
  BY <1>1, <1>2 DEF Leaving
<1>4. HolderProgress'
  <2>1. \A o \in Claims, todo \in {{}, op.todo} : SetUp(o, todo)' <=> SetUp(o, todo)
    BY <1>1 DEF SetUp, Passthrough, TimeSlicing
  <2>2. \A o \in Claims : Withdrawn(o)' <=> Withdrawn(o)
    BY <1>1 DEF Withdrawn, Passthrough
  <2>3. \A o \in op.claims : Leaving(o) => Leaving(o)'
    BY <1>0, <1>3 DEF KubeletAgrees
  <2> QED
    BY <1>0, <1>1, <2>1, <2>2, <2>3 DEF HolderProgress, MpsOn
<1>5. KubeletAgrees'
  BY <1>0, <1>1, <1>2 DEF KubeletAgrees, Prepared, MpsOn
<1>6. CompletedSetUp'
  <2>1. Touches({}, {})
    BY <1>1 DEF Touches
  <2>2. NoneReturns
    BY <1>0, <1>1, <1>3 DEF NoneReturns, Completed, KubeletAgrees
  <2> QED
    BY <1>0, <2>1, <2>2, OthersKept
<1>7. SharersDisturbed'
  BY <1>0, <1>1, SharersKept DEF Completed
<1> QED
  BY <1>0, <1>1, <1>2, <1>4, <1>5, <1>6, <1>7 DEF SetUpInv, Passthrough

LEMMA CleanupStep ==
    ASSUME GpuInv, SetUpInv, CleanupGivesUp \/ OtherStarts \/ \E c \in Claims : FindStale(c)
    PROVE  SetUpInv'
<1>1. /\ UNCHANGED <<gates, gi, ci, bound, sharing, mpsDeployed, api, kubelet, published,
                     cp, boot, specs, allocatable, op, disturbed>>
      /\ \A c \in Claims : c \in candidate' => c \notin api
  BY DEF CleanupGivesUp, FindStale, OtherStarts, fixed, hardware, cluster, files, history,
         SetUpInv, KubeletAgrees
<1>2. SharersDisturbed'
  BY <1>1, SharersKept DEF SetUpInv, Completed
<1> QED
  BY <1>1, <1>2
  DEF SetUpInv, HolderProgress, KubeletAgrees, CompletedSetUp, Prepared, Leaving, SetUp,
      Withdrawn, Completed, Passthrough, TimeSlicing, MpsOn

LEMMA RequestSetUp ==
    ASSUME GpuInv, SetUpInv, NEW c \in Claims,
           PrepareAgain(c) \/ PrepareBegin(c) \/ UnprepareNoop(c) \/ UnprepareBegin(c)
    PROVE  SetUpInv'
<1>1. /\ UNCHANGED <<gates, gi, ci, bound, sharing, mpsDeployed, api, kubelet, published,
                     cp, boot, specs, allocatable, candidate>>
      /\ disturbed \subseteq disturbed' /\ op = NoOp
  BY DEF PrepareAgain, PrepareBegin, UnprepareNoop, UnprepareBegin, fixed, hardware,
         cluster, files, history
<1>2. /\ HolderProgress /\ KubeletAgrees /\ CompletedSetUp
      /\ cp \in [Claims -> CheckpointState]
  BY DEF SetUpInv, GpuInv, LockTyped
<1>3. /\ op'.claims = {c}
      /\ \/ op'.kind = "prepare" /\ op'.step \in {"rollback", "publish"}
            /\ kubelet[c] = "preparing"
         \/ /\ op'.kind = "unprepare" /\ Requested(c)
            /\ \/ op'.step \in {"publish", "rollback"}
               \/ /\ op'.step = "vfio" /\ op'.todo \subseteq {"vfio"}
                  /\ Sharers(c) \subseteq disturbed'
  <2>1. CASE PrepareAgain(c) \/ PrepareBegin(c) \/ UnprepareNoop(c)
    BY <2>1 DEF PrepareAgain, PrepareBegin, UnprepareNoop, Begin
  <2>2. CASE UnprepareBegin(c) /\ cp[c] = "PrepareStarted"
    BY <2>2 DEF UnprepareBegin, Begin
  <2>3. CASE UnprepareBegin(c) /\ cp[c] # "PrepareStarted"
    <3>1. \E todo \in SUBSET {"vfio"} : op' = Begin("unprepare", c, "vfio", todo)
      BY <2>3 DEF UnprepareBegin
    <3>2. cp[c] = "PrepareCompleted" /\ Requested(c)
      BY <1>2, <2>3 DEF UnprepareBegin, CheckpointState
    <3>3. Sharers(c) \subseteq disturbed'
      BY <2>3, <3>2 DEF UnprepareBegin
    <3> QED
      BY <3>1, <3>2, <3>3 DEF Begin
  <2> QED
    BY <2>1, <2>2, <2>3
<1>4. Requested(c) => Leaving(c)
  BY <1>2 DEF Requested, Leaving, KubeletAgrees
<1>5. HolderProgress'
  BY <1>1, <1>2, <1>3, <1>4
  DEF HolderProgress, KubeletAgrees, MpsOn, Leaving, Creating
<1>6. KubeletAgrees'
  BY <1>1, <1>2, <1>3, <1>4 DEF KubeletAgrees, Prepared, MpsOn, Leaving
<1>7. CompletedSetUp'
  <2>1. Touches({}, {}) /\ NoneReturns
    BY <1>1 DEF Touches, NoneReturns, Completed, Leaving
  <2> QED
    BY <1>2, <2>1, OthersKept
<1>8. SharersDisturbed'
  <2>1. Sharers(c)' = Sharers(c)
    <3>1. Completed' = Completed /\ op.claims = {}
      BY <1>1 DEF Completed, NoOp
    <3> QED
      BY <1>3, <3>1 DEF Sharers, Users
  <2> QED
    BY <1>3, <2>1 DEF SharersDisturbed, Creating, Releasing
<1> QED
  BY <1>1, <1>5, <1>6, <1>7, <1>8 DEF SetUpInv, Passthrough

(* The answer of Prepare or of Unprepare, or an error *)
LEMMA ReturnSetUp ==
    ASSUME GpuInv, SetUpInv, PrepareReturns \/ UnprepareReturns \/ OpFails
    PROVE  SetUpInv'
<1>0. /\ kubelet \in [Claims -> {"idle", "preparing", "prepared", "unpreparing"}]
      /\ HolderProgress /\ KubeletAgrees /\ CompletedSetUp
      /\ LockTyped /\ HolderAgrees /\ OldBoot
  BY DEF SetUpInv, GpuInv
<1>1. /\ UNCHANGED <<gates, gi, ci, bound, sharing, mpsDeployed, api, cp, boot, specs,
                     allocatable, disturbed>>
      /\ op' = NoOp /\ op.kind # "none"
  BY DEF PrepareReturns, UnprepareReturns, OpFails, At, fixed, hardware, cluster, files,
         history
<1>2. PICK o \in Claims : o = ClaimOf /\ op.claims = {o} /\ phase = "serving"
  BY <1>0, <1>1, HolderFacts
<1>3. /\ kubelet' \in [Claims -> {"idle", "preparing", "prepared", "unpreparing"}]
      /\ \A c \in Claims \ {o} : kubelet'[c] = kubelet[c]
      /\ \/ kubelet'[o] = kubelet[o]
         \/ /\ kubelet[o] = "preparing" /\ kubelet'[o] = "prepared"
            /\ cp[o] = "PrepareCompleted" /\ Publish
         \/ kubelet'[o] = "idle" /\ cp[o] = "none"
      /\ candidate' \subseteq candidate
      /\ published' = published \/ Publish
  <2>1. CASE PrepareReturns
    <3>1. cp[o] = "PrepareCompleted"
      BY <1>0, <1>2, <2>1 DEF PrepareReturns, At, HolderAgrees
    <3> QED
      BY <1>0, <1>2, <2>1, <3>1 DEF PrepareReturns
  <2>2. CASE UnprepareReturns
    <3>1. cp[o] = "none"
      BY <1>0, <1>2, <2>2 DEF UnprepareReturns, At, HolderAgrees
    <3> QED
      BY <1>0, <1>2, <2>2, <3>1 DEF UnprepareReturns, Unprepared
  <2>3. CASE OpFails
    BY <1>0, <2>3 DEF OpFails, cluster
  <2> QED
    BY <2>1, <2>2, <2>3
<1>4. \A c \in Claims : c \in Completed => (Leaving(c)' <=> Leaving(c))
  BY <1>1, <1>3 DEF Leaving, Completed
<1>5. CompletedSetUp'
  <2>1. Touches({}, {}) /\ NoneReturns
    BY <1>1, <1>4 DEF Touches, NoneReturns, Completed
  <2> QED
    BY <1>0, <2>1, OthersKept
<1>6. ASSUME NEW c \in Completed, ~Leaving(c), "vfio" \in DevicesOf[c], c \notin disturbed,
             Publish
      PROVE  "gpu" \notin published'
  <2>1. boot # "old"
    BY <1>0, <1>2 DEF OldBoot
  <2>2. Passthrough /\ "gpu" \notin allocatable
    BY <1>0, <1>6, <2>1 DEF CompletedSetUp, SetUp, Withdrawn
  <2> QED
    BY <1>6, <2>2 DEF Publish, DriverResources
<1>7. KubeletAgrees'
  <2>1. SUFFICES ASSUME NEW c \in Claims
                 PROVE  /\ kubelet'[c] = "idle" /\ c \in api =>
                             cp[c] = "none" /\ c \notin op'.claims
                        /\ kubelet'[c] # "idle" /\ SharingOf[c] = "Mps" => MpsOn
                        /\ kubelet'[c] = "prepared" /\ c \in api =>
                             /\ cp[c] = "PrepareCompleted" /\ boot # "old"
                             /\ "vfio" \in DevicesOf[c] /\ c \notin disturbed =>
                                  "gpu" \notin published'
                        /\ c \in candidate' => c \notin api
    BY <1>1 DEF KubeletAgrees, Prepared, MpsOn
  <2>2. op'.claims = {} /\ boot # "old"
    BY <1>0, <1>1, <1>2 DEF NoOp, OldBoot
  <2>3. /\ kubelet'[c] = "idle" /\ c \in api => cp[c] = "none" /\ c \notin op'.claims
        /\ kubelet'[c] # "idle" /\ SharingOf[c] = "Mps" => MpsOn
        /\ c \in candidate' => c \notin api
    BY <1>0, <1>3, <2>2 DEF KubeletAgrees
  <2>4. ASSUME kubelet'[c] = "prepared", c \in api
        PROVE  /\ cp[c] = "PrepareCompleted"
               /\ "vfio" \in DevicesOf[c] /\ c \notin disturbed => "gpu" \notin published'
    <3>1. /\ cp[c] = "PrepareCompleted" /\ ~Leaving(c)
          /\ Publish \/ (kubelet[c] = "prepared" /\ published' = published)
      BY <1>0, <1>3, <2>4 DEF KubeletAgrees, Prepared, Leaving
    <3>2. c \in Completed
      BY <3>1 DEF Completed
    <3> QED
      BY <1>0, <1>6, <2>4, <3>1, <3>2 DEF KubeletAgrees, Prepared
  <2> QED
    BY <2>2, <2>3, <2>4
<1> QED
  BY <1>1, <1>3, <1>5, <1>7, HolderEnds DEF SetUpInv, Passthrough

-----------------------------------------------------------------------------
(* The life of the plugin *)

(* A start of the plugin, with an empty checkpoint after a reboot; the GPU *)
(* of a passthrough claim is not found on the nvidia driver.               *)
LEMMA StartSetUp ==
    ASSUME GpuInv, SetUpInv, NewDeviceState
    PROVE  SetUpInv'
<1>0. /\ ValidGates(gates) /\ HolderProgress /\ KubeletAgrees /\ CompletedSetUp
      /\ HolderAgrees
  BY DEF SetUpInv, GpuInv
<1>1. /\ UNCHANGED <<gates, gi, ci, bound, sharing, mpsDeployed, api, kubelet, published,
                     specs, op, candidate>>
      /\ phase = "down" /\ boot' = "current" /\ allocatable' = Enumerated
      /\ cp' = IF boot = "old" THEN NoClaims ELSE cp
      /\ disturbed \subseteq disturbed'
      /\ Passthrough => Users({"gpu"}) \subseteq disturbed'
  BY DEF NewDeviceState, fixed, hardware, cluster
<1>2. op.claims = {}
  BY <1>0, <1>1 DEF HolderAgrees
<1>3. HolderProgress' /\ SharersDisturbed'
  BY <1>1, <1>2 DEF HolderProgress, SharersDisturbed
<1>4. KubeletAgrees'
  BY <1>0, <1>1 DEF KubeletAgrees, Prepared, MpsOn, NoClaims
<1>5. "gpu" \in Enumerated => bound # "vfio-pci" \/ ~Passthrough
  <2>1. Passthrough => ~Dynamic
    BY <1>0 DEF ValidGates, Passthrough, Dynamic
  <2> QED
    BY <2>1 DEF Enumerated, PerGpuAllocatable, VfioDevices, DynamicMIGCapable
<1>6. "vfio" \in Enumerated => Passthrough
  BY GpuPluginAssumption
  DEF Enumerated, PerGpuAllocatable, VfioDevices, MigProfilesAndPlacements
<1>7. CompletedSetUp'
  <2> DEFINE ds == IF Passthrough THEN {"gpu"} ELSE {}
  <2>1. Touches(ds, {})
    BY <1>1, <1>5 DEF Touches
  <2>2. CASE boot = "old"
    BY <1>1, <2>2 DEF CompletedSetUp, Completed, NoClaims
  <2>3. CASE boot # "old"
    <3>1. NoneReturns
      BY <1>1, <2>3 DEF NoneReturns, Completed, Leaving
    <3>2. \A c \in Completed : c \in disturbed' \/ DevicesOf[c] \cap ds = {}
      BY <1>1 DEF Users
    <3> HIDE DEF ds
    <3> QED
      BY <1>0, <2>1, <3>1, <3>2, OthersKept
  <2> QED
    BY <2>2, <2>3
<1> QED
  BY <1>0, <1>1, <1>3, <1>4, <1>6, <1>7 DEF SetUpInv, Passthrough

LEMMA ServeSetUp ==
    ASSUME GpuInv, SetUpInv, DestroyedUnknown \/ Serve \/ Crash
    PROVE  SetUpInv'
<1>0. HolderProgress /\ KubeletAgrees /\ CompletedSetUp /\ HolderAgrees /\ OldBoot
  BY DEF SetUpInv, GpuInv
<1>1. /\ UNCHANGED <<gates, gi, ci, bound, sharing, mpsDeployed, api, kubelet, cp, boot,
                     specs, disturbed>>
      /\ allocatable' \subseteq allocatable /\ candidate' \subseteq candidate
      /\ op'.claims = {}
      /\ \/ published' = published
         \/ published' = allocatable /\ phase # "down"
  <2>1. CASE DestroyedUnknown \/ Serve
    <3>1. /\ phase \in {"starting", "started"}
          /\ UNCHANGED <<gates, gi, ci, bound, sharing, mpsDeployed, api, kubelet, cp, boot,
                     specs, allocatable, op, candidate, disturbed>>
          /\ published' \in {published, allocatable}
      BY <2>1 DEF DestroyedUnknown, Serve, DriverResources, fixed, hardware, cluster, files,
                  history
    <3> QED
      BY <1>0, <3>1 DEF HolderAgrees
  <2>2. CASE Crash
    BY <2>2 DEF Crash, NoOp, fixed, hardware, cluster, files
  <2> QED
    BY <2>1, <2>2
<1>2. HolderProgress' /\ SharersDisturbed'
  BY <1>1 DEF HolderProgress, SharersDisturbed
<1>3. CompletedSetUp'
  <2>1. Touches({}, {}) /\ NoneReturns
    BY <1>1 DEF Touches, NoneReturns, Completed, Leaving
  <2> QED
    BY <1>0, <2>1, OthersKept
<1>4. \A c \in Claims : Prepared(c) /\ "vfio" \in DevicesOf[c] /\ c \notin disturbed =>
                          "gpu" \notin published'
  <2>1. \A c \in Claims : Prepared(c) => c \in Completed /\ ~Leaving(c) /\ boot # "old"
    BY <1>0 DEF KubeletAgrees, Prepared, Completed, Leaving
  <2> QED
    BY <1>0, <1>1, <2>1 DEF CompletedSetUp, Withdrawn, KubeletAgrees
<1>5. KubeletAgrees'
  BY <1>0, <1>1, <1>4 DEF KubeletAgrees, Prepared, MpsOn
<1> QED
  BY <1>1, <1>2, <1>3, <1>5 DEF SetUpInv, Passthrough

(* The process that takes over knows what is there; where it can, there is *)
(* no passthrough device.                                                  *)
LEMMA HandOverSetUp ==
    ASSUME GpuInv, SetUpInv, HandOver
    PROVE  SetUpInv'
<1>0. /\ ValidGates(gates) /\ KubeletAgrees /\ CompletedSetUp /\ OtherLives
  BY DEF SetUpInv, GpuInv
<1>1. /\ UNCHANGED <<gates, gi, ci, bound, sharing, mpsDeployed, api, kubelet, published,
                     cp, boot, specs, disturbed>>
      /\ op' = NoOp /\ candidate' = {} /\ allocatable' = Enumerated /\ other.step # "none"
  BY DEF HandOver, fixed, cluster, files, history
<1>2. ~Passthrough
  BY <1>0, <1>1 DEF OtherLives, ValidGates, Passthrough, Dynamic
<1>3. "vfio" \notin Enumerated
  BY <1>2, GpuPluginAssumption
  DEF Enumerated, PerGpuAllocatable, VfioDevices, MigProfilesAndPlacements
<1>4. HolderProgress' /\ SharersDisturbed' /\ op'.claims = {}
  BY <1>1, HolderEnds
<1>5. KubeletAgrees'
  BY <1>0, <1>1, <1>4 DEF KubeletAgrees, Prepared, MpsOn
<1>6. CompletedSetUp'
  <2>1. Touches({}, {}) /\ NoneReturns
    BY <1>1, <1>2, <1>3 DEF Touches, NoneReturns, Completed, Leaving
  <2> QED
    BY <1>0, <2>1, OthersKept
<1> QED
  BY <1>1, <1>3, <1>4, <1>5, <1>6 DEF SetUpInv

LEMMA RebootSetUp ==
    ASSUME GpuInv, SetUpInv, Reboot
    PROVE  SetUpInv'
<1>1. /\ UNCHANGED <<gates, api, published, cp>>
      /\ boot' = "old" /\ op' = NoOp /\ candidate' = {} /\ allocatable' = {}
      /\ kubelet' = [c \in Claims |-> IF kubelet[c] = "prepared" THEN "preparing"
                                      ELSE kubelet[c]]
  BY DEF Reboot, fixed
<1>2. /\ kubelet \in [Claims -> {"idle", "preparing", "prepared", "unpreparing"}]
      /\ KubeletAgrees
  BY DEF SetUpInv
<1>3. /\ kubelet' \in [Claims -> {"idle", "preparing", "prepared", "unpreparing"}]
      /\ \A c \in Claims : /\ kubelet'[c] # "prepared"
                           /\ kubelet'[c] = "idle" <=> kubelet[c] = "idle"
  BY <1>1, <1>2
<1>4. HolderProgress' /\ SharersDisturbed' /\ op'.claims = {}
  BY <1>1, HolderEnds
<1>5. KubeletAgrees'
  BY <1>1, <1>2, <1>3, <1>4 DEF KubeletAgrees, Prepared, MpsOn
<1>6. CompletedSetUp'
  BY <1>1 DEF CompletedSetUp
<1> QED
  BY <1>1, <1>3, <1>4, <1>5, <1>6 DEF SetUpInv, Passthrough

(* MIG devices of completed claims are neither destroyed at the start nor  *)
(* rolled back.                                                            *)
LEMMA DestroySetUp ==
    ASSUME GpuInv, SetUpInv, NEW d \in Migs, DestroyUnknown(d)
    PROVE  SetUpInv'
<1>0. HolderProgress /\ KubeletAgrees /\ CompletedSetUp /\ HolderAgrees
  BY DEF SetUpInv, GpuInv
<1>1. /\ UNCHANGED <<gates, bound, sharing, mpsDeployed, api, kubelet, published, cp, boot,
                     specs, allocatable, op, candidate, disturbed>>
      /\ phase = "starting" /\ ~UsedByCompleted(d)
      /\ \E r \in DeleteMigDevice(migSeen, {d}) : SetMig(r)
  BY DEF DestroyUnknown, fixed, cluster, files, history
<1>2. (gi \cap ci) \ {d} \subseteq gi' \cap ci'
  BY <1>1, DeleteMigFacts
<1>3. HolderProgress' /\ SharersDisturbed'
  <2>1. op'.claims = {}
    BY <1>0, <1>1 DEF HolderAgrees
  <2> QED
    BY <2>1 DEF HolderProgress, SharersDisturbed
<1>4. KubeletAgrees'
  BY <1>0, <1>1, KubeletQuiet
<1>5. CompletedSetUp'
  <2>1. Touches({d}, {})
    BY <1>1, <1>2 DEF Touches
  <2>2. NoneReturns /\ \A c \in Completed : DevicesOf[c] \cap {d} = {}
    BY <1>1 DEF NoneReturns, Completed, Leaving, UsedByCompleted
  <2> QED
    BY <1>0, <2>1, <2>2, OthersKept
<1> QED
  BY <1>1, <1>3, <1>4, <1>5 DEF SetUpInv, Passthrough

(* A second process takes MIG devices from claims that it does not know:   *)
(* they are disturbed.                                                     *)
LEMMA OtherSetUp ==
    ASSUME GpuInv, SetUpInv, NEW d \in Migs, OtherDestroys(d)
    PROVE  SetUpInv'
<1>0. /\ HolderProgress /\ SharersDisturbed /\ KubeletAgrees /\ CompletedSetUp
      /\ op.claims \subseteq Claims
  BY DEF SetUpInv, GpuInv, LockTyped, Op
<1>1. PICK r \in DeleteMigDevice(other.seen, {d}) :
        SetMig(r) /\ disturbed' = disturbed \cup Users(ci \ r.ci)
  BY DEF OtherDestroys
<1>2. UNCHANGED <<gates, bound, sharing, mpsDeployed, api, kubelet, published, cp, boot,
                  specs, allocatable, op, candidate>>
  BY DEF OtherDestroys, fixed, cluster, files
<1> DEFINE ds == ci \ ci'
<1>3. (gi \cap ci) \ ds \subseteq gi' \cap ci' /\ disturbed' = disturbed \cup Users(ds)
  BY <1>1, DeleteMigFacts
<1>4. \A c \in Completed \cup op.claims : c \in disturbed' \/ DevicesOf[c] \cap ds = {}
  BY <1>3 DEF Users
<1> HIDE DEF ds
<1>5. \A c \in op.claims : SetUp(c, op.todo) =>
        SetUp(c, op.todo)' \/ c \in disturbed'
  BY <1>2, <1>3, <1>4 DEF SetUp, Passthrough, TimeSlicing, TimeSlice
<1>6. HolderProgress'
  <2>1. \A c \in op.claims : Withdrawn(c) => Withdrawn(c)'
    BY <1>2 DEF Withdrawn, Passthrough
  <2> QED
    BY <1>0, <1>2, <1>3, <1>5, <2>1 DEF HolderProgress, MpsOn, Leaving
<1>7. SharersDisturbed' /\ KubeletAgrees'
  BY <1>0, <1>2, <1>3, SharersKept, KubeletQuiet DEF Completed
<1>8. CompletedSetUp'
  <2>1. Touches(ds, {})
    BY <1>2, <1>3 DEF Touches
  <2>2. NoneReturns
    BY <1>2, <1>3 DEF NoneReturns, Completed, Leaving
  <2> QED
    BY <1>0, <1>4, <2>1, <2>2, OthersKept
<1> QED
  BY <1>2, <1>6, <1>7, <1>8 DEF SetUpInv, Passthrough

LEMMA RollbackSetUp ==
    ASSUME GpuInv, SetUpInv, NEW d \in Migs, RollbackDevice(d)
    PROVE  SetUpInv'
<1>0. HolderProgress /\ SharersDisturbed /\ KubeletAgrees /\ CompletedSetUp /\ op \in Op
  BY DEF SetUpInv, GpuInv, LockTyped
<1>1. /\ UNCHANGED <<gates, bound, sharing, mpsDeployed, api, kubelet, published, cp, boot,
                     specs, allocatable, candidate, disturbed>>
      /\ op.step = "rollback"
  BY DEF RollbackDevice, fixed, cluster, files, history
<1>2. /\ op' = NoOp \/ op' = [op EXCEPT !.step = "rollback", !.todo = op.todo \ {d}]
      /\ \/ UNCHANGED <<gi, ci>>
         \/ /\ (gi \cap ci) \ {d} \subseteq gi' \cap ci'
            /\ ~UsedByCompleted(d)
  <2>1. CASE GoTo("rollback", op.todo \ {d}) /\ UNCHANGED <<gi, ci, giID, migMode>>
    BY <2>1 DEF GoTo
  <2>2. ASSUME NEW r \in DeleteMigDevice(migSeen, {d}), SetMig(r), ~UsedByCompleted(d),
               op' = IF r.ok THEN [op EXCEPT !.todo = @ \ {d}] ELSE NoOp
        PROVE  /\ (gi \cap ci) \ {d} \subseteq gi' \cap ci'
               /\ op' = NoOp \/ op' = [op EXCEPT !.step = "rollback", !.todo = op.todo \ {d}]
    <3>1. (gi \cap ci) \ {d} \subseteq gi' \cap ci'
      BY <2>2, DeleteMigFacts
    <3>2. [op EXCEPT !.todo = @ \ {d}] = [op EXCEPT !.step = "rollback", !.todo = op.todo \ {d}]
      BY <1>0, <1>1 DEF Op
    <3> QED
      BY <2>2, <3>1, <3>2
  <2> QED
    BY <2>1, <2>2 DEF RollbackDevice
<1>3. \/ op'.claims = {} /\ op'.kind = "none"
      \/ op'.claims = op.claims /\ op'.kind = op.kind /\ op'.step = "rollback"
  <2>1. CASE op' = NoOp
    BY <2>1 DEF NoOp
  <2>2. CASE op' = [op EXCEPT !.step = "rollback", !.todo = op.todo \ {d}]
    BY <1>0, <2>2 DEF Op
  <2> QED
    BY <1>2, <2>1, <2>2
<1>4. HolderProgress'
  BY <1>0, <1>1, <1>3 DEF HolderProgress, MpsOn, Leaving, Creating
<1>5. KubeletAgrees' /\ SharersDisturbed'
  <2>1. "rollback" \notin Creating \cup Releasing
    BY DEF Creating, Releasing
  <2> QED
    BY <1>0, <1>1, <1>3, <2>1, KubeletQuiet DEF SharersDisturbed
<1>6. CompletedSetUp'
  <2>1. \E ds \in {{}, {d}} : /\ Touches(ds, {})
                             /\ \A c \in Completed : DevicesOf[c] \cap ds = {}
    BY <1>1, <1>2 DEF Touches, UsedByCompleted
  <2>2. NoneReturns
    BY <1>1 DEF NoneReturns, Completed, Leaving
  <2> QED
    BY <1>0, <2>1, <2>2, OthersKept
<1> QED
  BY <1>1, <1>4, <1>5, <1>6 DEF SetUpInv, Passthrough

-----------------------------------------------------------------------------
(* Steps of Prepare *)

(* Those who share a device with the claim are disturbed from now on, and  *)
(* it is not.                                                              *)
LEMMA StartedSetUp ==
    ASSUME GpuInv, SetUpInv, PrepareStarted
    PROVE  SetUpInv'
<1>0. /\ HolderProgress /\ KubeletAgrees /\ CompletedSetUp
      /\ LockTyped /\ HolderAgrees /\ op \in Op /\ cp \in [Claims -> CheckpointState]
  BY DEF SetUpInv, GpuInv, LockTyped
<1>1. PICK o \in Claims : o = ClaimOf /\ op.claims = {o}
  BY <1>0, HolderFacts DEF PrepareStarted, At
<1>2. /\ UNCHANGED <<gates, gi, ci, bound, sharing, mpsDeployed, api, kubelet, published,
                     boot, specs, allocatable, candidate>>
      /\ op.kind = "prepare" /\ op.step = "rollback"
      /\ op' = [op EXCEPT !.step = "apply", !.todo = DevicesOf[o]]
      /\ cp' = [cp EXCEPT ![o] = "PrepareStarted"]
      /\ disturbed' = (disturbed \cup Sharers(o)) \ {o}
  BY <1>1 DEF PrepareStarted, At, GoTo, SetEntry, fixed, hardware, cluster
<1>3. /\ op'.claims = {o} /\ op'.kind = "prepare" /\ op'.step = "apply"
      /\ op'.todo = DevicesOf[o]
  BY <1>0, <1>1, <1>2 DEF Op
<1>4. cp[o] # "PrepareCompleted"
  BY <1>0, <1>1, <1>2 DEF HolderAgrees
<1>5. /\ cp'[o] = "PrepareStarted"
      /\ \A c \in Claims : /\ c # o => cp'[c] = cp[c]
                           /\ cp'[c] = "PrepareCompleted" <=> cp[c] = "PrepareCompleted"
  BY <1>0, <1>2, <1>4
<1>6. HolderProgress'
  BY <1>0, <1>1, <1>2, <1>3 DEF HolderProgress, MpsOn, Creating
<1>7. KubeletAgrees'
  BY <1>0, <1>1, <1>2, <1>3, <1>4, <1>5 DEF KubeletAgrees, Prepared, MpsOn
<1>8. CompletedSetUp'
  <2>1. Touches({}, {}) /\ NoneReturns
    BY <1>2, <1>4, <1>5 DEF Touches, NoneReturns, Completed, Leaving
  <2> QED
    BY <1>0, <2>1, OthersKept
<1>9. SharersDisturbed'
  <2>1. Sharers(o)' \subseteq Sharers(o) \ {o}
    <3>1. Completed' = Completed
      BY <1>5 DEF Completed
    <3> QED
      BY <1>1, <1>3, <3>1 DEF Sharers, Users
  <2> QED
    BY <1>2, <1>3, <2>1 DEF SharersDisturbed
<1> QED
  BY <1>2, <1>6, <1>7, <1>8, <1>9 DEF SetUpInv, Passthrough

(* What a step for the claim of the lock holder does to the others *)
LEMMA PrepareOthers ==
    ASSUME GpuInv, SetUpInv, op.kind = "prepare", op.step \in Creating,
           UNCHANGED <<api, kubelet, published, cp, boot, candidate, disturbed>>,
           Touches(DevicesOf[ClaimOf], {ClaimOf}), op'.claims \subseteq op.claims,
           op'.claims # {} => op'.kind = op.kind, op'.kind # "unprepare"
    PROVE  KubeletAgrees' /\ CompletedSetUp' /\ SharersDisturbed'
<1>0. KubeletAgrees /\ CompletedSetUp /\ SharersDisturbed /\ LockTyped /\ HolderAgrees
  BY DEF SetUpInv, GpuInv
<1>1. KubeletAgrees'
  BY <1>0, KubeletQuiet DEF Touches
<1>2. NoneReturns
  BY DEF NoneReturns, Completed, Leaving
<1>3. op.claims = {ClaimOf}
  BY <1>0, HolderFacts
<1>4. CompletedSetUp'
  BY <1>0, <1>2, <1>3, PrepareApart, OthersKept
<1>5. SharersDisturbed'
  BY <1>0, SharersKept DEF Completed
<1> QED
  BY <1>1, <1>4, <1>5

(* prepareDevices up to the MIG devices: the config is applied. *)
LEMMA ApplySetUp ==
    ASSUME GpuInv, SetUpInv,
           \/ ApplyConfig \/ MpsMode \/ MpsDeploy \/ MpsAssertReady \/ VfioUnbind \/ VfioBind
    PROVE  SetUpInv'
<1>0. /\ HolderProgress /\ ("vfio" \in allocatable => Passthrough)
      /\ LockTyped /\ HolderAgrees /\ op \in Op /\ HolderWork
  BY DEF SetUpInv, GpuInv, LockTyped
<1>1. op.kind = "prepare" /\ op.step \in {"apply", "mode", "deploy", "ready", "unbind", "bind"}
  BY DEF ApplyConfig, MpsMode, MpsDeploy, MpsAssertReady, VfioUnbind, VfioBind, At
<1>2. PICK o \in Claims : o = ClaimOf /\ op.claims = {o} /\ op.todo \subseteq DevicesOf[o]
  BY <1>0, <1>1, HolderFacts
<1>3. UNCHANGED <<gates, gi, ci, api, kubelet, published, cp, boot, specs, allocatable,
                  candidate, disturbed>>
  BY DEF ApplyConfig, MpsMode, MpsDeploy, MpsAssertReady, VfioUnbind, VfioBind, fixed,
         hardware, cluster, files, history
<1>4. /\ SharingOf[o] = "Mps" => MpsOn
      /\ op.step \in {"apply", "mode", "deploy", "ready"} => op.todo = DevicesOf[o]
      /\ op.step # "apply" => DevicesOf[o] \subseteq allocatable
      /\ op.step \in {"unbind", "bind"} => "vfio" \in DevicesOf[o]
      /\ op.step \in {"mode", "deploy", "ready"} => SharingOf[o] = "Mps"
  BY <1>0, <1>1, <1>2 DEF HolderProgress, HolderWork, Creating
<1>5. "vfio" \in DevicesOf[o] =>
         SharingOf[o] # "Mps" /\ "gpu" \notin DevicesOf[o] /\ DevicesOf[o] \cap Migs = {}
  BY GpuPluginAssumption
<1>6. /\ DevicesOf[o] \subseteq allocatable
      /\ \/ /\ op' = [op EXCEPT !.step = "create", !.todo = DevicesOf[o] \cap Migs]
            /\ SetUp(o, DevicesOf[o] \cap Migs)'
         \/ \E step \in {"unbind", "bind"} : op' = [op EXCEPT !.step = step, !.todo = {}]
         \/ /\ \E step \in {"mode", "deploy", "ready"} :
                  op' = [op EXCEPT !.step = step, !.todo = DevicesOf[o]]
            /\ SharingOf[o] = "Mps"
      /\ mpsDeployed \subseteq mpsDeployed'
      /\ bound' = bound \/ ("vfio" \in DevicesOf[o] /\ VfioFree)
      /\ sharing' = sharing \/ "gpu" \in DevicesOf[o] \/ VfioFree
  <2>1. CASE ApplyConfig
    <3>1. /\ op.todo = DevicesOf[o] /\ DevicesOf[o] \subseteq allocatable
          /\ UNCHANGED <<bound, mpsDeployed>>
      BY <1>2, <1>4, <2>1 DEF ApplyConfig, At
    <3>2. CASE "vfio" \in op.todo
      BY <1>2, <1>5, <2>1, <3>1, <3>2 DEF ApplyConfig, GoTo
    <3>3. CASE "vfio" \notin op.todo /\ SharingOf[o] = "Mps"
      BY <1>2, <1>4, <2>1, <3>1, <3>3 DEF ApplyConfig, GoTo
    <3>4. CASE "vfio" \notin op.todo /\ SharingOf[o] # "Mps"
      <4>1. /\ op' = [op EXCEPT !.step = "create", !.todo = DevicesOf[o] \cap Migs]
            /\ IF TimeSlicing /\ "gpu" \in op.todo
               THEN bound = "nvidia" /\ sharing' = TimeSlice(SharingOf[o])
               ELSE UNCHANGED sharing
        BY <1>2, <2>1, <3>1, <3>4 DEF ApplyConfig, CreateDevices, GoTo, NvidiaSmi
      <4>2. SetUp(o, DevicesOf[o] \cap Migs)'
        BY <1>3, <3>1, <3>4, <4>1 DEF SetUp, TimeSlicing, TimeSlice
      <4> QED
        BY <3>1, <4>1, <4>2
    <3> QED
      BY <3>2, <3>3, <3>4
  <2>2. CASE MpsMode
    BY <1>4, <2>2 DEF MpsMode, At, GoTo
  <2>3. CASE MpsDeploy
    BY <1>4, <2>3 DEF MpsDeploy, At, GoTo
  <2>4. CASE MpsAssertReady
    <3>1. /\ op.todo = DevicesOf[o] /\ o \in mpsDeployed /\ UNCHANGED hardware
          /\ SharingOf[o] = "Mps" /\ DevicesOf[o] \subseteq allocatable
          /\ op' = [op EXCEPT !.step = "create", !.todo = DevicesOf[o] \cap Migs]
      BY <1>2, <1>4, <2>4
      DEF MpsAssertReady, At, GoTo, CreateDevices, ControlDaemonStarted
    <3>2. SetUp(o, DevicesOf[o] \cap Migs)'
      BY <1>5, <3>1 DEF SetUp, hardware
    <3> QED
      BY <3>1, <3>2 DEF hardware
  <2>5. CASE VfioUnbind \/ VfioBind
    <3>1. /\ "vfio" \in DevicesOf[o] /\ DevicesOf[o] \subseteq allocatable /\ VfioFree
          /\ UNCHANGED <<mpsDeployed>> /\ DevicesOf[o] \cap Migs = {}
      BY <1>0, <1>4, <1>5, <2>5 DEF VfioUnbind, VfioBind, At, VfioFree
    <3>2. \/ bound' = "vfio-pci" /\ op' = [op EXCEPT !.step = "create", !.todo = {}]
          \/ op' = [op EXCEPT !.step = "bind", !.todo = {}]
      BY <2>5 DEF VfioUnbind, VfioBind, GoTo
    <3>3. bound' = "vfio-pci" => SetUp(o, {})'
      BY <1>3, <1>5, <3>1 DEF SetUp, VfioFree, Passthrough
    <3> QED
      BY <3>1, <3>2, <3>3
  <2> QED
    BY <2>1, <2>2, <2>3, <2>4, <2>5
<1>7. Touches(DevicesOf[o], {o}) /\ op'.claims = {o} /\ op'.kind = "prepare"
  BY <1>0, <1>1, <1>2, <1>3, <1>6 DEF Touches, Op
<1>8. \/ op'.step = "create" /\ SetUp(o, op.todo)'
      \/ op'.step \in {"unbind", "bind"}
      \/ op'.step \in {"mode", "deploy", "ready"} /\ SharingOf[o] = "Mps"
  <2>1. CASE /\ op' = [op EXCEPT !.step = "create", !.todo = DevicesOf[o] \cap Migs]
             /\ SetUp(o, DevicesOf[o] \cap Migs)'
    <3>1. op'.step = "create" /\ op'.todo = DevicesOf[o] \cap Migs
      BY <1>0, <2>1 DEF Op
    <3> QED
      BY <2>1, <3>1
  <2> QED
    BY <1>0, <1>6, <2>1 DEF Op
<1>9. HolderProgress'
  BY <1>3, <1>4, <1>6, <1>7, <1>8 DEF HolderProgress, MpsOn
<1>10. KubeletAgrees' /\ CompletedSetUp' /\ SharersDisturbed'
  <2>1. op.step \in Creating
    BY <1>1 DEF Creating
  <2> QED
    BY <1>1, <1>2, <1>3, <1>7, <2>1, PrepareOthers
<1> QED
  BY <1>3, <1>9, <1>10 DEF SetUpInv, Passthrough

(* createMigDevice and the end of prepareDevices: MIG devices are there    *)
(* when they are done with, and the other device of the GPU is withdrawn   *)
(* with passthrough.                                                       *)
LEMMA CreateSetUp ==
    ASSUME GpuInv, SetUpInv,
           \/ RemoveSiblings \/ CreateClaimSpecFile
           \/ \E d \in Migs : CreateGpuInstance(d) \/ CreateComputeInstance(d)
    PROVE  SetUpInv'
<1>0. /\ HolderProgress /\ ("vfio" \in allocatable => Passthrough)
      /\ LockTyped /\ HolderAgrees /\ op \in Op /\ HolderWork /\ Instances
  BY DEF SetUpInv, GpuInv, LockTyped
<1>1. op.kind = "prepare" /\ op.step \in {"create", "ci", "spec"}
  BY DEF RemoveSiblings, CreateClaimSpecFile, CreateGpuInstance, CreateComputeInstance, At
<1>2. PICK o \in Claims : o = ClaimOf /\ op.claims = {o} /\ op.todo \subseteq DevicesOf[o]
  BY <1>0, <1>1, HolderFacts
<1>3. /\ UNCHANGED <<gates, bound, sharing, mpsDeployed, api, kubelet, published, cp, boot,
                     candidate, disturbed>>
      /\ gi \subseteq gi' /\ ci \subseteq ci' /\ specs \subseteq specs'
      /\ allocatable' \subseteq allocatable
  BY DEF RemoveSiblings, CreateClaimSpecFile, CreateGpuInstance, CreateComputeInstance,
         fixed, hardware, cluster, files, history
<1>4. /\ SharingOf[o] = "Mps" => MpsOn
      /\ o \notin disturbed => SetUp(o, op.todo)
      /\ op.step \in {"create", "ci"} => DevicesOf[o] \subseteq allocatable
      /\ op.step = "ci" => op.dev \subseteq gi
      /\ op.step = "spec" => op.todo = {} /\ Withdrawn(o)
  BY <1>0, <1>1, <1>2 DEF HolderProgress, HolderWork, Instances, Creating
<1>5. \/ op' = NoOp
      \/ /\ op'.kind = "prepare" /\ op'.claims = {o}
         /\ (op.todo \ op'.todo) \cap Migs \subseteq gi' \cap ci'
         /\ \/ op'.step \in {"create", "ci"} /\ allocatable' = allocatable
               /\ op.step \in {"create", "ci"}
            \/ op'.step = "spec" /\ op'.todo = {} /\ Withdrawn(o)'
            \/ op'.step = "completed" /\ op'.todo = {} /\ Withdrawn(o)' /\ o \in specs'
  <2>1. CASE RemoveSiblings
    <3>1. /\ op.todo = {} /\ op.step = "create" /\ DevicesOf[o] \subseteq allocatable
          /\ op' = [op EXCEPT !.step = "spec", !.todo = {}]
          /\ allocatable' = IF Passthrough
                            THEN allocatable \ UNION {Siblings(d) :
                                      d \in DevicesOf[o] \cap allocatable}
                            ELSE allocatable
      BY <1>2, <1>4, <2>1 DEF RemoveSiblings, At, GoTo
    <3>2. ASSUME "vfio" \in DevicesOf[o] PROVE "gpu" \notin allocatable'
      <4>1. "vfio" \in DevicesOf[o] \cap allocatable /\ Passthrough
        BY <1>0, <3>1, <3>2
      <4>2. "gpu" \in Siblings("vfio")
        BY DEF Siblings
      <4> QED
        BY <3>1, <4>1, <4>2
    <3>3. ASSUME "gpu" \in DevicesOf[o], Passthrough PROVE "vfio" \notin allocatable'
      <4>1. "gpu" \in DevicesOf[o] \cap allocatable
        BY <3>1, <3>3
      <4>2. "vfio" \in Siblings("gpu")
        BY DEF Siblings
      <4> QED
        BY <3>1, <3>3, <4>1, <4>2
    <3>4. Withdrawn(o)'
      BY <1>3, <3>2, <3>3 DEF Withdrawn, Passthrough
    <3> QED
      BY <1>0, <1>1, <1>2, <3>1, <3>4 DEF Op
  <2>2. CASE CreateClaimSpecFile
    <3>1. /\ op.todo = {} /\ Withdrawn(o) /\ UNCHANGED allocatable
          /\ op' = [op EXCEPT !.step = "completed", !.todo = {}] /\ o \in specs'
      BY <1>2, <1>4, <2>2 DEF CreateClaimSpecFile, At, GoTo
    <3>2. Withdrawn(o)'
      BY <1>3, <3>1 DEF Withdrawn, Passthrough
    <3> QED
      BY <1>0, <1>1, <1>2, <3>1, <3>2 DEF Op
  <2>3. ASSUME NEW d \in Migs, CreateGpuInstance(d), op' # NoOp
        PROVE  /\ op'.kind = "prepare" /\ op'.claims = {o} /\ op'.todo = op.todo
               /\ op'.step = "ci" /\ allocatable' = allocatable /\ op.step = "create"
    <3>1. /\ op' = [op EXCEPT !.step = "ci", !.dev = {d}]
          /\ UNCHANGED allocatable /\ op.step = "create"
      BY <2>3 DEF CreateGpuInstance, At
    <3> QED
      BY <1>0, <1>1, <1>2, <3>1 DEF Op
  <2>4. ASSUME NEW d \in Migs, CreateComputeInstance(d)
        PROVE  /\ op'.kind = "prepare" /\ op'.claims = {o} /\ op'.todo = op.todo \ {d}
               /\ d \in gi' \cap ci'
               /\ op'.step = "create" /\ allocatable' = allocatable /\ op.step = "ci"
    <3>1. /\ gi' = gi /\ ci' = ci \cup {d} /\ UNCHANGED allocatable
          /\ op.step = "ci" /\ d \in op.dev
      BY <2>4 DEF CreateComputeInstance, At
    <3>2. d \in gi' \cap ci'
      BY <1>4, <3>1
    <3>3. op' = [op EXCEPT !.step = "create", !.todo = op.todo \ {d}, !.dev = {},
                           !.ids = [op.ids EXCEPT ![d] = giID[d]]]
      BY <2>4 DEF CreateComputeInstance
    <3> QED
      BY <1>0, <1>1, <1>2, <3>1, <3>2, <3>3 DEF Op
  <2>5. CASE \E d \in Migs : CreateGpuInstance(d) \/ CreateComputeInstance(d)
    BY <2>3, <2>4, <2>5
  <2> QED
    BY <2>1, <2>2, <2>5
<1>6. op' # NoOp /\ o \notin disturbed => SetUp(o, op.todo)'
  <2>1. op' # NoOp /\ o \notin disturbed =>
          (DevicesOf[o] \cap Migs) \ op'.todo \subseteq gi' \cap ci'
    BY <1>3, <1>4, <1>5 DEF SetUp
  <2> QED
    BY <1>3, <1>4, <2>1 DEF SetUp, Passthrough, TimeSlicing, TimeSlice
<1>7. HolderProgress'
  <2>1. CASE op' = NoOp
    BY <2>1, HolderEnds
  <2>2. CASE op' # NoOp
    BY <1>3, <1>4, <1>5, <1>6, <2>2 DEF HolderProgress, MpsOn
  <2> QED
    BY <2>1, <2>2
<1>8. /\ Touches(DevicesOf[o], {o}) /\ op'.claims \subseteq op.claims
      /\ op'.kind # "unprepare" /\ (op'.claims # {} => op'.kind = op.kind)
  BY <1>1, <1>2, <1>3, <1>5 DEF Touches, NoOp
<1>9. KubeletAgrees' /\ CompletedSetUp' /\ SharersDisturbed'
  <2>1. op.step \in Creating
    BY <1>1 DEF Creating
  <2> QED
    BY <1>1, <1>2, <1>3, <1>8, <2>1, PrepareOthers
<1> QED
  BY <1>0, <1>3, <1>7, <1>9 DEF SetUpInv, Passthrough

(* PrepareCompleted is written when the node is set up for the claim. *)
LEMMA CompletedStepSetUp ==
    ASSUME GpuInv, SetUpInv, PrepareCompleted
    PROVE  SetUpInv'
<1>0. /\ HolderProgress /\ KubeletAgrees /\ CompletedSetUp /\ HolderWork
      /\ LockTyped /\ HolderAgrees /\ op \in Op /\ cp \in [Claims -> CheckpointState]
  BY DEF SetUpInv, GpuInv, LockTyped
<1>1. PICK o \in Claims : o = ClaimOf /\ op.claims = {o}
  BY <1>0, HolderFacts DEF PrepareCompleted, At
<1>2. /\ UNCHANGED <<gates, gi, ci, bound, sharing, mpsDeployed, api, kubelet, published,
                     boot, specs, allocatable, candidate, disturbed>>
      /\ op.kind = "prepare" /\ op.step = "completed"
      /\ op' = [op EXCEPT !.step = "publish", !.todo = {}]
      /\ cp' = [cp EXCEPT ![o] = "PrepareCompleted"]
  BY <1>1 DEF PrepareCompleted, At, GoTo, SetEntry, fixed, hardware, cluster, history
<1>3. op'.claims = {o} /\ op'.kind = "prepare" /\ op'.step = "publish"
  BY <1>0, <1>1, <1>2 DEF Op
<1>4. /\ cp'[o] = "PrepareCompleted"
      /\ \A c \in Claims : c # o => cp'[c] = cp[c]
  BY <1>0, <1>2
<1>5. /\ SharingOf[o] = "Mps" => MpsOn
      /\ Withdrawn(o) /\ o \in specs
      /\ o \notin disturbed => SetUp(o, {})
  <2>1. op.todo = {}
    BY <1>0, <1>1, <1>2 DEF HolderWork
  <2> QED
    BY <1>0, <1>1, <1>2, <2>1 DEF HolderProgress
<1>6. HolderProgress' /\ SharersDisturbed'
  BY <1>2, <1>3, <1>5 DEF HolderProgress, SharersDisturbed, MpsOn, Creating
<1>7. KubeletAgrees'
  <2>1. ~(kubelet[o] = "idle" /\ o \in api)
    BY <1>0, <1>1 DEF KubeletAgrees
  <2> QED
    BY <1>0, <1>1, <1>2, <1>3, <1>4, <2>1 DEF KubeletAgrees, Prepared, MpsOn
<1>8. CompletedSetUp'
  <2>1. Touches({}, {})
    BY <1>2 DEF Touches
  <2>2. SUFFICES ASSUME NEW c \in Completed', boot' # "old", ~Leaving(c)'
                 PROVE  /\ c \in specs'
                        /\ c \notin disturbed' => SetUp(c, {})' /\ Withdrawn(c)'
    BY DEF CompletedSetUp
  <2>3. c \in Claims
    BY <2>2 DEF Completed
  <2>4. c \in specs /\ (c \notin disturbed => SetUp(c, {}) /\ Withdrawn(c))
    <3>1. CASE c = o
      BY <1>5, <3>1
    <3>2. CASE c # o
      BY <1>0, <1>2, <1>4, <2>2, <3>2 DEF CompletedSetUp, Completed, Leaving
    <3> QED
      BY <3>1, <3>2
  <2>5. ASSUME c \notin disturbed PROVE SetUp(c, {})' /\ Withdrawn(c)'
    BY <2>1, <2>3, <2>4, <2>5, TouchKeeps
  <2> QED
    BY <1>2, <2>4, <2>5
<1> QED
  BY <1>2, <1>6, <1>7, <1>8 DEF SetUpInv, Passthrough

-----------------------------------------------------------------------------
(* Steps of Unprepare *)

(* They only undo what is there for the claim, and nobody relies on that   *)
(* any more; whoever has other devices that go is disturbed.               *)
LEMMA UnprepareOthers ==
    ASSUME GpuInv, SetUpInv, op.kind = "unprepare", NEW ds,
           UNCHANGED <<api, kubelet, published, cp, boot, candidate>>,
           disturbed \subseteq disturbed', op'.claims \subseteq op.claims,
           op'.claims # {} => op'.kind = op.kind, op'.kind # "prepare",
           op'.kind = "unprepare" /\ op'.step \in Releasing => op.step \in Releasing,
           Touches(ds, {ClaimOf}),
           \/ ds = {}
           \/ /\ op.step \in Releasing
              /\ \A c \in Completed :
                    c \in disturbed' \/ DevicesOf[c] \cap ds \subseteq DevicesOf[ClaimOf]
    PROVE  KubeletAgrees' /\ CompletedSetUp' /\ SharersDisturbed'
<1>0. /\ KubeletAgrees /\ CompletedSetUp /\ HolderProgress /\ SharersDisturbed
      /\ LockTyped /\ HolderAgrees
  BY DEF SetUpInv, GpuInv
<1>1. KubeletAgrees'
  BY <1>0, KubeletQuiet DEF Touches
<1>2. NoneReturns
  BY DEF NoneReturns, Completed, Leaving
<1>3. op.claims = {ClaimOf}
  BY <1>0, HolderFacts
<1>4. ASSUME NEW c \in Completed, ~Leaving(c)
      PROVE  c # ClaimOf /\ (c \in disturbed' \/ DevicesOf[c] \cap ds = {})
  <2>1. /\ c \notin op.claims
        /\ op.step \in Releasing =>
             c \in disturbed \/ DevicesOf[c] \cap DevicesOf[ClaimOf] = {}
    BY <1>0, <1>4, UnprepareApart
  <2>2. CASE ds = {}
    BY <1>3, <2>1, <2>2
  <2>3. CASE ds # {}
    BY <1>3, <2>1, <2>3
  <2> QED
    BY <2>2, <2>3
<1>5. CompletedSetUp'
  BY <1>0, <1>2, <1>4, OthersKept
<1>6. SharersDisturbed'
  BY <1>0, SharersKept DEF Completed
<1> QED
  BY <1>1, <1>5, <1>6

(* The sibling that is discovered again is that of a device of the claim.  *)
LEMMA SiblingFacts ==
    ASSUME GpuInv, SetUpInv, NEW o \in Claims, o = ClaimOf, DiscoverSiblings
    PROVE  /\ "gpu" \in allocatable' => "gpu" \in allocatable \/ "vfio" \in DevicesOf[o]
           /\ "vfio" \in allocatable' => "vfio" \in allocatable \/ "gpu" \in DevicesOf[o]
           /\ "vfio" \in allocatable' => Passthrough
<1>0. /\ NoMigs /\ ValidGates(gates) /\ ("vfio" \in allocatable => Passthrough)
      /\ DevicesOf[o] \subseteq Devices
  BY GpuPluginAssumption DEF GpuInv, SetUpInv
<1> DEFINE found == UNION {Siblings(d) : d \in DevicesOf[o] \cap allocatable}
<1>1. \/ UNCHANGED allocatable
      \/ Passthrough /\ allocatable' = allocatable \cup found
  BY DEF DiscoverSiblings
<1>2. ASSUME Passthrough, NEW d \in DevicesOf[o] \cap allocatable PROVE d \in {"gpu", "vfio"}
  <2>1. d \in Devices /\ d \notin Migs
    BY <1>0, <1>2 DEF NoMigs, ValidGates, Passthrough, Dynamic
  <2> QED
    BY <2>1 DEF Devices
<1>3. ASSUME Passthrough, "gpu" \in found PROVE "vfio" \in DevicesOf[o]
  <2>1. PICK d \in DevicesOf[o] \cap allocatable : "gpu" \in Siblings(d)
    BY <1>3
  <2>2. d # "gpu" /\ d \in {"gpu", "vfio"}
    BY <1>2, <1>3, <2>1 DEF Siblings
  <2> QED
    BY <2>1, <2>2
<1>4. ASSUME Passthrough, "vfio" \in found PROVE "gpu" \in DevicesOf[o]
  <2>1. PICK d \in DevicesOf[o] \cap allocatable : "vfio" \in Siblings(d)
    BY <1>4
  <2>2. d # "vfio" /\ d \in {"gpu", "vfio"}
    BY <1>2, <1>4, <2>1 DEF Siblings
  <2> QED
    BY <2>1, <2>2
<1> HIDE DEF found
<1> QED
  BY <1>0, <1>1, <1>3, <1>4

LEMMA UndoSetUp ==
    ASSUME GpuInv, SetUpInv,
           \/ RollbackDone \/ UnprepareVfio \/ NvidiaBind \/ MpsStop \/ MpsRemoveRoot
           \/ ResetTimeSlice \/ DiscoverSiblings \/ DeleteClaimSpecFile
    PROVE  SetUpInv'
<1>0. /\ HolderProgress /\ ("vfio" \in allocatable => Passthrough)
      /\ LockTyped /\ HolderAgrees /\ op \in Op
  BY DEF SetUpInv, GpuInv, LockTyped
<1>1. op.kind = "unprepare"
  BY DEF RollbackDone, UnprepareVfio, NvidiaBind, MpsStop, MpsRemoveRoot,
         ResetTimeSlice, DiscoverSiblings, DeleteClaimSpecFile, At
<1>2. PICK o \in Claims : o = ClaimOf /\ op.claims = {o} /\ op.todo \subseteq DevicesOf[o]
  BY <1>0, <1>1, HolderFacts
<1>3. UNCHANGED <<gates, gi, ci, api, kubelet, published, cp, boot, candidate, disturbed>>
  BY DEF RollbackDone, UnprepareVfio, NvidiaBind, MpsStop, MpsRemoveRoot,
         ResetTimeSlice, DiscoverSiblings, DeleteClaimSpecFile, fixed,
         hardware, cluster, files, history
<1>4. /\ Leaving(o)
      /\ op.step = "vfio" => op.todo \subseteq {"vfio"}
      /\ op.step = "bind" => "vfio" \in DevicesOf[o]
  BY <1>0, <1>1, <1>2 DEF HolderProgress
<1> DEFINE Ahead == {"delete", "umount", "reset", "siblings"}
<1>5. /\ op'.claims = {o} /\ op'.kind = "unprepare"
      /\ \/ op'.step \in {"spec", "entry"}
         \/ op'.step \in Ahead /\ op.step \in Releasing
         \/ op'.step = "vfio" /\ op'.todo = {} /\ op.step \in Releasing
         \/ op'.step = "bind" /\ "vfio" \in DevicesOf[o] /\ op.step \in Releasing
      /\ \/ Touches({}, {o})
         \/ Touches(DevicesOf[o], {o}) /\ op.step \in Releasing
      /\ "vfio" \in allocatable' => Passthrough
  <2>0. ASSUME NEW step \in {"spec", "entry", "bind", "vfio"} \cup Ahead, NEW todo,
               GoTo(step, todo)
        PROVE  op'.claims = {o} /\ op'.kind = "unprepare" /\ op'.step = step /\ op'.todo = todo
    BY <1>0, <1>1, <1>2, <2>0 DEF GoTo, Op
  <2>1. CASE RollbackDone
    BY <1>0, <2>0, <2>1 DEF RollbackDone, Touches, fixed, hardware, files
  <2>2. CASE UnprepareVfio
    <3>1. /\ UNCHANGED <<gates, gi, ci, sharing, mpsDeployed, specs, allocatable>>
          /\ op.step \in Releasing /\ op.todo \subseteq {"vfio"}
      BY <1>4, <2>2 DEF UnprepareVfio, At, fixed, files, Releasing
    <3>2. \/ UNCHANGED bound /\ \E todo : GoTo("delete", todo)
          \/ "vfio" \in DevicesOf[o] /\ "vfio" \in allocatable /\ GoTo("bind", op.todo)
      BY <1>2, <2>2, <3>1 DEF UnprepareVfio
    <3>3. Touches(DevicesOf[o], {o})
      BY <1>0, <3>1, <3>2 DEF Touches, VfioFree
    <3> QED
      BY <1>0, <2>0, <3>1, <3>2, <3>3
  <2>3. CASE NvidiaBind
    <3>1. /\ UNCHANGED <<gates, gi, ci, sharing, mpsDeployed, specs, allocatable>>
          /\ op.step \in Releasing /\ "vfio" \in DevicesOf[o] /\ GoTo("vfio", {})
          /\ bound' = "nvidia"
      BY <1>4, <2>3 DEF NvidiaBind, At, fixed, files, Releasing
    <3>2. Touches(DevicesOf[o], {o})
      BY <3>1 DEF Touches
    <3> QED
      BY <1>0, <2>0, <3>1, <3>2
  <2>4. CASE MpsStop
    <3>1. /\ UNCHANGED <<gates, gi, ci, bound, sharing, specs, allocatable>>
          /\ op.step \in Releasing /\ mpsDeployed \ {o} \subseteq mpsDeployed'
          /\ GoTo("reset", {}) \/ GoTo("umount", {})
      BY <1>2, <1>4, <2>4 DEF MpsStop, At, fixed, files, Releasing
    <3>2. Touches({}, {o})
      BY <3>1 DEF Touches
    <3> QED
      BY <1>0, <2>0, <3>1, <3>2
  <2>5. CASE MpsRemoveRoot \/ ResetTimeSlice
    <3>1. /\ UNCHANGED <<gates, gi, ci, bound, mpsDeployed, specs, allocatable>>
          /\ op.step \in Releasing
          /\ sharing' = sharing \/ "gpu" \in DevicesOf[o]
          /\ GoTo("reset", {}) \/ GoTo("siblings", {})
      BY <1>2, <1>4, <2>5 DEF MpsRemoveRoot, ResetTimeSlice, At, fixed, files, Releasing
    <3>2. Touches(DevicesOf[o], {o})
      BY <3>1 DEF Touches
    <3> QED
      BY <1>0, <2>0, <3>1, <3>2
  <2>6. CASE DiscoverSiblings
    <3>1. /\ UNCHANGED <<gates, gi, ci, bound, sharing, mpsDeployed, specs>>
          /\ op.step \in Releasing /\ GoTo("spec", {})
      BY <1>4, <2>6 DEF DiscoverSiblings, At, fixed, hardware, files, Releasing
    <3>2. Touches(DevicesOf[o], {o})
      BY <1>2, <2>6, <3>1, SiblingFacts DEF Touches
    <3> QED
      BY <1>2, <2>0, <2>6, <3>1, <3>2, SiblingFacts
  <2>7. CASE DeleteClaimSpecFile
    <3>1. /\ UNCHANGED <<gates, gi, ci, bound, sharing, mpsDeployed, allocatable>>
          /\ specs \ {o} \subseteq specs' /\ GoTo("entry", {})
      BY <1>2, <2>7 DEF DeleteClaimSpecFile, fixed, hardware
    <3>2. Touches({}, {o})
      BY <3>1 DEF Touches
    <3> QED
      BY <1>0, <2>0, <3>1, <3>2
  <2> QED
    BY <2>1, <2>2, <2>3, <2>4, <2>5, <2>6, <2>7
<1>6. HolderProgress'
  BY <1>3, <1>4, <1>5 DEF HolderProgress, Leaving
<1>7. KubeletAgrees' /\ CompletedSetUp' /\ SharersDisturbed'
  <2>1. op'.step \in Releasing => op.step \in Releasing
    BY <1>5 DEF Releasing
  <2>2. CASE Touches({}, {o})
    BY <1>1, <1>2, <1>3, <1>5, <2>1, <2>2, UnprepareOthers
  <2>3. CASE Touches(DevicesOf[o], {o}) /\ op.step \in Releasing
    BY <1>1, <1>2, <1>3, <1>5, <2>1, <2>3, UnprepareOthers
  <2> QED
    BY <1>5, <2>2, <2>3
<1> QED
  BY <1>3, <1>5, <1>6, <1>7 DEF SetUpInv, Passthrough

(* A device other than its own that Unprepare meets by its id is taken     *)
(* from the claim that has it, which is disturbed.                         *)
LEMMA UnprepareMigSetUp ==
    ASSUME GpuInv, SetUpInv, NEW d \in Migs, UnprepareMig(d)
    PROVE  SetUpInv'
<1>0. /\ HolderProgress /\ ("vfio" \in allocatable => Passthrough)
      /\ LockTyped /\ HolderAgrees /\ op \in Op
  BY DEF SetUpInv, GpuInv, LockTyped
<1>1. op.kind = "unprepare" /\ op.step = "delete" /\ op.step \in Releasing /\ d \in op.todo
  BY DEF UnprepareMig, At, Releasing
<1>2. PICK o \in Claims : o = ClaimOf /\ op.claims = {o} /\ op.todo \subseteq DevicesOf[o]
  BY <1>0, <1>1, HolderFacts
<1>3. UNCHANGED <<gates, bound, sharing, mpsDeployed, api, kubelet, published, cp, boot,
                  specs, allocatable, candidate>>
  BY DEF UnprepareMig, fixed, cluster, files
<1> DEFINE found == {x \in gi : giID[x] = preparedGI[ClaimOf][d]}
<1>4. PICK r \in DeleteMigDevice(migSeen, found) :
        /\ SetMig(r)
        /\ op' = IF r.ok THEN [op EXCEPT !.todo = @ \ {d}] ELSE NoOp
        /\ disturbed' = disturbed \cup Users((ci \ r.ci) \ {d})
  BY DEF UnprepareMig
<1> HIDE DEF found
<1> DEFINE ds == ci \ ci'
<1>5. (gi \cap ci) \ ds \subseteq gi' \cap ci' /\ disturbed' = disturbed \cup Users(ds \ {d})
  BY <1>4, DeleteMigFacts
<1>6. \A c \in Completed : c \in disturbed' \/ DevicesOf[c] \cap ds \subseteq {d}
  BY <1>5 DEF Users
<1> HIDE DEF ds
<1>7. \/ op'.claims = {} /\ op'.kind = "none"
      \/ op'.claims = {o} /\ op'.kind = "unprepare" /\ op'.step = "delete"
  <2>1. op' = NoOp \/ op' = [op EXCEPT !.todo = @ \ {d}]
    BY <1>4
  <2>2. CASE op' = NoOp
    BY <2>2 DEF NoOp
  <2>3. CASE op' = [op EXCEPT !.todo = @ \ {d}]
    BY <1>0, <1>1, <1>2, <2>3 DEF Op
  <2> QED
    BY <2>1, <2>2, <2>3
<1>8. HolderProgress'
  BY <1>0, <1>1, <1>2, <1>3, <1>7 DEF HolderProgress, Leaving
<1>9. Touches(ds, {o})
  BY <1>3, <1>5 DEF Touches
<1>10. KubeletAgrees' /\ CompletedSetUp' /\ SharersDisturbed'
  BY <1>1, <1>2, <1>3, <1>5, <1>6, <1>7, <1>9, UnprepareOthers
<1> QED
  BY <1>0, <1>3, <1>8, <1>10 DEF SetUpInv, Passthrough

LEMMA ForgetSetUp ==
    ASSUME GpuInv, SetUpInv, DeleteClaimFromCheckpoint
    PROVE  SetUpInv'
<1>0. /\ HolderProgress /\ KubeletAgrees /\ CompletedSetUp
      /\ LockTyped /\ HolderAgrees /\ op \in Op /\ cp \in [Claims -> CheckpointState]
  BY DEF SetUpInv, GpuInv, LockTyped
<1>1. PICK o \in Claims : o = ClaimOf /\ op.claims = {o}
  BY <1>0, HolderFacts DEF DeleteClaimFromCheckpoint, At
<1>2. /\ UNCHANGED <<gates, gi, ci, bound, sharing, mpsDeployed, api, kubelet, published,
                     boot, specs, allocatable, candidate, disturbed>>
      /\ op.kind = "unprepare"
      /\ op' = [op EXCEPT !.step = "publish", !.todo = {}]
      /\ cp' = [cp EXCEPT ![o] = "none"]
  BY <1>1 DEF DeleteClaimFromCheckpoint, At, GoTo, SetEntry, fixed, hardware, cluster,
              history
<1>3. op'.claims = {o} /\ op'.kind = "unprepare" /\ op'.step = "publish"
  BY <1>0, <1>1, <1>2 DEF Op
<1>4. /\ cp'[o] = "none"
      /\ \A c \in Claims : c # o => cp'[c] = cp[c]
  BY <1>0, <1>2
<1>5. Leaving(o)
  BY <1>0, <1>1, <1>2 DEF HolderProgress
<1>6. HolderProgress' /\ SharersDisturbed'
  BY <1>2, <1>3, <1>5 DEF HolderProgress, SharersDisturbed, Leaving, Releasing
<1>7. KubeletAgrees'
  BY <1>0, <1>1, <1>2, <1>3, <1>4, <1>5 DEF KubeletAgrees, Prepared, MpsOn, Leaving
<1>8. CompletedSetUp'
  <2>1. Touches({}, {}) /\ NoneReturns
    BY <1>2, <1>4 DEF Touches, NoneReturns, Completed, Leaving
  <2> QED
    BY <1>0, <2>1, OthersKept
<1> QED
  BY <1>2, <1>6, <1>7, <1>8 DEF SetUpInv, Passthrough

-----------------------------------------------------------------------------
LEMMA SetUpStep ==
    ASSUME GpuInv, SetUpInv, Next
    PROVE  SetUpInv'
<1>1. CASE Operation
  BY <1>1, RollbackSetUp, StartedSetUp, ApplySetUp, CreateSetUp, CompletedStepSetUp,
     ReturnSetUp, UndoSetUp, UnprepareMigSetUp, ForgetSetUp
  DEF Operation
<1> QED
  BY <1>1, PodStep, CleanupStep, RequestSetUp, ReturnSetUp, StartSetUp, ServeSetUp,
     HandOverSetUp, RebootSetUp, DestroySetUp, OtherSetUp
  DEF Next

(* The node is set up for every completed claim until its kubelet or the   *)
(* API server gives it up, unless something disturbs the claim: a claim    *)
(* that shares its device by admin access, an Unprepare that meets the id  *)
(* of its GPU instance, a second plugin process, or, for the full GPU on a *)
(* node with passthrough, a restart.                                       *)
THEOREM SetUpInvariant == Spec => []SetUpInv
<1>1. Init => SetUpInv
  <2> SUFFICES ASSUME Init PROVE SetUpInv
    OBVIOUS
  <2>1. /\ op = NoOp /\ allocatable = {} /\ candidate = {}
        /\ kubelet = [c \in Claims |-> "idle"] /\ cp = [c \in Claims |-> "none"]
        /\ \E p \in Profiles : gates = p.gates
    BY DEF Init, NoClaims
  <2>2. ValidGates(gates)
    BY <2>1, GpuPluginAssumption
  <2>3. HolderProgress /\ SharersDisturbed
    BY <2>1 DEF HolderProgress, SharersDisturbed, NoOp
  <2>4. KubeletAgrees
    BY <2>1 DEF KubeletAgrees, Prepared, NoOp
  <2>5. CompletedSetUp
    BY <2>1 DEF CompletedSetUp, Completed
  <2> QED
    BY <2>1, <2>2, <2>3, <2>4, <2>5 DEF SetUpInv
<1>2. GpuInv /\ SetUpInv /\ [Next]_vars => SetUpInv'
  <2>1. ASSUME SetUpInv, UNCHANGED vars PROVE SetUpInv'
    <3>1. UNCHANGED <<gates, gi, ci, bound, sharing, mpsDeployed, api, kubelet, published,
                      cp, boot, specs, allocatable, op, candidate, disturbed>>
      BY <2>1 DEF vars, fixed, hardware, cluster, files, process, history
    <3>2. SharersDisturbed'
      BY <2>1, <3>1, SharersKept DEF SetUpInv, Completed
    <3> QED
      BY <2>1, <3>1, <3>2
      DEF SetUpInv, HolderProgress, KubeletAgrees, CompletedSetUp, Prepared, Leaving, SetUp,
          Withdrawn, Completed, Passthrough, TimeSlicing, MpsOn
  <2> QED
    BY <2>1, SetUpStep
<1> QED
  BY <1>1, <1>2, GpuInvariant, PTL DEF Spec

(* What the pod of a prepared claim relies on is there until its kubelet   *)
(* or the API server gives it up, whatever other claims, rollbacks, the    *)
(* cleanup, crashes and restarts do: checkpoint entry and CDI spec always, *)
(* devices, driver and MPS daemon unless the claim is disturbed, by one of *)
(* the four things that PreparedIntact names (deleteMigDevice,             *)
(* DestroyUnknownMIGDevices, validateNoOverlappingPreparedDevices).        *)
THEOREM PreparedStaysIntact == Spec => []PreparedIntact
<1>1. SetUpInv => PreparedIntact
  <2>1. SUFFICES ASSUME SetUpInv, NEW c \in Claims, Prepared(c)
                 PROVE  /\ cp[c] = "PrepareCompleted" /\ c \in specs
                        /\ c \notin disturbed =>
                             /\ DevicesOf[c] \cap Migs \subseteq gi \cap ci
                             /\ "vfio" \in DevicesOf[c] =>
                                  bound = "vfio-pci" /\ "gpu" \notin allocatable \cup published
                             /\ SharingOf[c] = "Mps" => c \in mpsDeployed
    BY DEF PreparedIntact
  <2>2. /\ cp[c] = "PrepareCompleted" /\ boot # "old" /\ ~Leaving(c)
        /\ "vfio" \in DevicesOf[c] /\ c \notin disturbed => "gpu" \notin published
    BY <2>1 DEF SetUpInv, KubeletAgrees, Prepared, Leaving
  <2>3. c \in specs /\ (c \notin disturbed => SetUp(c, {}) /\ Withdrawn(c))
    BY <2>1, <2>2 DEF SetUpInv, CompletedSetUp, Completed
  <2> QED
    BY <2>2, <2>3 DEF SetUp, Withdrawn
<1> QED
  BY <1>1, SetUpInvariant, PTL

(* The GPU stays on the nvidia driver with the compute mode and the time   *)
(* slice of the prepared claim that has it with time-slicing, unless a     *)
(* claim with admin access shares it or, on a node with passthrough, the   *)
(* plugin was restarted (SetTimeSlice, MpsControlDaemon, Configure).       *)
THEOREM SharingIsKept == Spec => []SharingKept
<1>1. SetUpInv => SharingKept
  <2>1. SUFFICES ASSUME SetUpInv, NEW c \in Claims \ disturbed, Prepared(c)
                 PROVE  "gpu" \in DevicesOf[c] /\ SharingOf[c] # "Mps" /\ TimeSlicing =>
                          bound = "nvidia" /\ sharing = TimeSlice(SharingOf[c])
    BY DEF SharingKept
  <2>2. cp[c] = "PrepareCompleted" /\ boot # "old" /\ ~Leaving(c)
    BY <2>1 DEF SetUpInv, KubeletAgrees, Prepared, Leaving
  <2>3. SetUp(c, {})
    BY <2>1, <2>2 DEF SetUpInv, CompletedSetUp, Completed
  <2> QED
    BY <2>3 DEF SetUp
<1> QED
  BY <1>1, SetUpInvariant, PTL

=============================================================================
