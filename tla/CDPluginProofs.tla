--------------------------- MODULE CDPluginProofs ---------------------------
(***************************************************************************)
(* PluginInv is an inductive invariant of the ComputeDomain kubelet plugin *)
(* for any claims, domains and number of reboots, when the first           *)
(* checkpoint file has a boot ID; the properties of the checkpoint, of the *)
(* channel and of the node label follow from it.                           *)
(***************************************************************************)
EXTENDS CDPlugin, TLAPS

(* The invariant holds initially: nothing is prepared and no label is set. *)
LEMMA InitInd == ASSUME ~Legacy, Init PROVE PluginInv
<1>1. TypeOK
  BY CDPluginAssumption
  DEF Init, TypeOK, NoOp, Op, NoClaims, NoStartup, Startup, Checkpoint,
      CheckpointState, BootID
<1> QED
  BY <1>1
  DEF Init, PluginInv, OpInv, BootInv, StaleInv, OneChannel, SpecInv,
      PreparedIntact, LabelAccounted, InUse, NoOp, NoClaims, NoStartup,
      Channels

(* Every step of a plugin, the kubelet, the cluster or a fault preserves   *)
(* the invariant.                                                          *)
LEMMA NextInd == ASSUME PluginInv, Next PROVE PluginInv'
<1>1. ASSUME NEW c \in Claims, PodStarts(c) PROVE PluginInv'
  <2>1. TypeOK'
    BY <1>1 DEF PodStarts, PluginInv, TypeOK, Op, Startup, Checkpoint,
        CheckpointState, BootID, files
  <2>2. OpInv'
    BY <1>1 DEF PodStarts, PluginInv, TypeOK, OpInv, Channels,
        ChannelAllocated, NoOp, Op, Startup, Checkpoint, CheckpointState,
        BootID, files
  <2>3. BootInv'
    BY <1>1 DEF PodStarts, PluginInv, TypeOK, BootInv, Op, Startup,
        Checkpoint, CheckpointState, BootID, files
  <2>4. SpecInv'
    BY <1>1 DEF PodStarts, PluginInv, TypeOK, OpInv, BootInv, StaleInv,
        SpecInv, Channels, ChannelAllocated, NoOp, Op, Startup, Checkpoint,
        CheckpointState, BootID, files
  <2>5. PreparedIntact'
    BY <1>1 DEF PodStarts, PluginInv, TypeOK, OpInv, BootInv, StaleInv,
        SpecInv, PreparedIntact, Channels, ChannelAllocated, InUse, NoOp, Op,
        Startup, Checkpoint, CheckpointState, BootID, files
  <2> QED BY <1>1, <2>1, <2>2, <2>3, <2>4, <2>5 DEF PluginInv, PodStarts,
      StaleInv, OneChannel, LabelAccounted, Channels, files
<1>2. ASSUME NEW c \in Claims, PodEnds(c) PROVE PluginInv'
  <2>1. TypeOK'
    BY <1>2 DEF PodEnds, PluginInv, TypeOK, Op, Startup, Checkpoint,
        CheckpointState, BootID, files
  <2>2. OpInv'
    BY <1>2 DEF PodEnds, PluginInv, TypeOK, OpInv, Channels,
        ChannelAllocated, NoOp, Op, Startup, Checkpoint, CheckpointState,
        BootID, files
  <2>3. BootInv'
    BY <1>2 DEF PodEnds, PluginInv, TypeOK, BootInv, Op, Startup, Checkpoint,
        CheckpointState, BootID, files
  <2>4. SpecInv'
    BY <1>2 DEF PodEnds, PluginInv, TypeOK, OpInv, BootInv, StaleInv,
        SpecInv, Channels, ChannelAllocated, NoOp, Op, Startup, Checkpoint,
        CheckpointState, BootID, files
  <2>5. PreparedIntact'
    BY <1>2 DEF PodEnds, PluginInv, TypeOK, OpInv, BootInv, StaleInv,
        SpecInv, PreparedIntact, Channels, ChannelAllocated, InUse, NoOp, Op,
        Startup, Checkpoint, CheckpointState, BootID, files
  <2> QED BY <1>2, <2>1, <2>2, <2>3, <2>4, <2>5 DEF PluginInv, PodEnds,
      StaleInv, OneChannel, LabelAccounted, Channels, files
<1>3. ASSUME NEW c \in Claims, ClaimDeleted(c) PROVE PluginInv'
  <2>1. TypeOK'
    BY <1>3 DEF ClaimDeleted, PluginInv, TypeOK, Op, Startup, Checkpoint,
        CheckpointState, BootID, files
  <2>2. OpInv'
    BY <1>3 DEF ClaimDeleted, PluginInv, TypeOK, OpInv, Channels,
        ChannelAllocated, NoOp, Op, Startup, Checkpoint, CheckpointState,
        BootID, files
  <2>3. BootInv'
    BY <1>3 DEF ClaimDeleted, PluginInv, TypeOK, BootInv, Op, Startup,
        Checkpoint, CheckpointState, BootID, files
  <2>4. StaleInv'
    BY <1>3 DEF ClaimDeleted, PluginInv, StaleInv, files
  <2>5. SpecInv'
    BY <1>3 DEF ClaimDeleted, PluginInv, TypeOK, OpInv, BootInv, StaleInv,
        SpecInv, Channels, ChannelAllocated, NoOp, Op, Startup, Checkpoint,
        CheckpointState, BootID, files
  <2>6. PreparedIntact'
    BY <1>3 DEF ClaimDeleted, PluginInv, TypeOK, OpInv, BootInv, StaleInv,
        SpecInv, PreparedIntact, Channels, ChannelAllocated, InUse, NoOp, Op,
        Startup, Checkpoint, CheckpointState, BootID, files
  <2> QED BY <1>3, <2>1, <2>2, <2>3, <2>4, <2>5, <2>6 DEF PluginInv,
      ClaimDeleted, OneChannel, LabelAccounted, Channels, files
<1>4. ASSUME NEW c \in Claims, PrepareAgain(c) PROVE PluginInv'
  <2>1. TypeOK'
    BY <1>4 DEF PrepareAgain, PluginInv, TypeOK, NoOp, Op, Startup,
        Checkpoint, CheckpointState, BootID, files, Process
  <2>2. OpInv'
    BY <1>4 DEF PrepareAgain, PluginInv, TypeOK, OpInv, Channels,
        ChannelAllocated, NoOp, Op, Startup, Checkpoint, CheckpointState,
        BootID, files, Process
  <2>3. BootInv'
    BY <1>4 DEF PrepareAgain, PluginInv, TypeOK, BootInv, NoOp, Op, Startup,
        Checkpoint, CheckpointState, BootID, files, Process
  <2>4. SpecInv'
    BY <1>4 DEF PrepareAgain, PluginInv, TypeOK, OpInv, BootInv, StaleInv,
        SpecInv, Channels, ChannelAllocated, NoOp, Op, Startup, Checkpoint,
        CheckpointState, BootID, files, Process
  <2>5. PreparedIntact'
    BY <1>4 DEF PrepareAgain, PluginInv, TypeOK, OpInv, BootInv, StaleInv,
        SpecInv, PreparedIntact, Channels, ChannelAllocated, InUse, NoOp, Op,
        Startup, Checkpoint, CheckpointState, BootID, files, Process
  <2> QED BY <1>4, <2>1, <2>2, <2>3, <2>4, <2>5 DEF PluginInv, PrepareAgain,
      StaleInv, OneChannel, LabelAccounted, Channels, files, Process
<1>5. ASSUME NEW c \in Claims, PrepareStart(c) PROVE PluginInv'
  <2>1. TypeOK'
    BY <1>5 DEF PrepareStart, PluginInv, TypeOK, NoOp, Op, Startup,
        Checkpoint, CheckpointState, BootID, cluster, Process
  <2>2. OpInv'
    BY <1>5 DEF PrepareStart, PluginInv, TypeOK, OpInv, Channels,
        ChannelAllocated, NoOp, Op, Startup, Checkpoint, CheckpointState,
        BootID, cluster, Process
  <2>3. OneChannel'
    BY <1>5 DEF PrepareStart, PluginInv, TypeOK, OpInv, OneChannel, Channels,
        ChannelAllocated, NoOp, Op, Startup, Checkpoint, CheckpointState,
        BootID, cluster, Process
  <2>4. SpecInv'
    BY <1>5 DEF PrepareStart, PluginInv, TypeOK, OpInv, BootInv, StaleInv,
        SpecInv, Channels, ChannelAllocated, NoOp, Op, Startup, Checkpoint,
        CheckpointState, BootID, cluster, Process
  <2>5. PreparedIntact'
    BY <1>5 DEF PrepareStart, PluginInv, TypeOK, OpInv, BootInv, StaleInv,
        SpecInv, PreparedIntact, Channels, ChannelAllocated, InUse, NoOp, Op,
        Startup, Checkpoint, CheckpointState, BootID, cluster, Process
  <2>6. LabelAccounted'
    BY <1>5 DEF PrepareStart, PluginInv, TypeOK, OpInv, BootInv,
        LabelAccounted, Channels, ChannelAllocated, NoOp, Op, Startup,
        Checkpoint, CheckpointState, BootID, cluster, Process
  <2> QED BY <1>5, <2>1, <2>2, <2>3, <2>4, <2>5, <2>6 DEF PluginInv,
      PrepareStart, BootInv, StaleInv, cluster, Process
<1>6. ASSUME NEW c \in Claims, ApplyChannel(c) PROVE PluginInv'
  <2>1. TypeOK'
    BY <1>6, CDPluginAssumption DEF ApplyChannel, PluginInv, TypeOK,
        Channels, ChannelAllocated, AddNodeLabel, At, Goto, Op, Startup,
        Checkpoint, CheckpointState, BootID, files, Process
  <2>2. OpInv'
    BY <1>6 DEF ApplyChannel, PluginInv, TypeOK, OpInv, Channels,
        ChannelAllocated, AddNodeLabel, At, Goto, NoOp, Op, Startup,
        Checkpoint, CheckpointState, BootID, files, Process
  <2>3. LabelAccounted'
    BY <1>6 DEF ApplyChannel, PluginInv, TypeOK, OpInv, BootInv,
        LabelAccounted, Channels, ChannelAllocated, AddNodeLabel, At, Goto,
        NoOp, Op, Startup, Checkpoint, CheckpointState, BootID, files,
        Process
  <2> QED BY <1>6, <2>1, <2>2, <2>3 DEF PluginInv, ApplyChannel, BootInv,
      StaleInv, OneChannel, SpecInv, PreparedIntact, Channels, InUse, files,
      Process
<1>7. ASSUME NEW c \in Claims, AssertReady(c) PROVE PluginInv'
  <2>1. TypeOK'
    BY <1>7 DEF AssertReady, PluginInv, TypeOK, At, Goto, Op, Startup,
        Checkpoint, CheckpointState, BootID, cluster, files, Process
  <2>2. OpInv'
    BY <1>7 DEF AssertReady, PluginInv, TypeOK, OpInv, Channels,
        ChannelAllocated, At, Goto, NoOp, Op, Startup, Checkpoint,
        CheckpointState, BootID, cluster, files, Process
  <2> QED BY <1>7, <2>1, <2>2 DEF PluginInv, AssertReady, BootInv, StaleInv,
      OneChannel, SpecInv, PreparedIntact, LabelAccounted, Channels, InUse,
      cluster, files, Process
<1>8. ASSUME NEW c \in Claims, ApplyDaemon(c) PROVE PluginInv'
  <2>1. TypeOK'
    BY <1>8, CDPluginAssumption DEF ApplyDaemon, PluginInv, TypeOK, At, NoOp,
        Op, Startup, Checkpoint, CheckpointState, BootID, cluster, Process
  <2>2. OpInv'
    BY <1>8 DEF ApplyDaemon, PluginInv, TypeOK, OpInv, Channels,
        ChannelAllocated, At, NoOp, Op, Startup, Checkpoint, CheckpointState,
        BootID, cluster, Process
  <2> QED BY <1>8, <2>1, <2>2 DEF PluginInv, ApplyDaemon, BootInv, StaleInv,
      OneChannel, SpecInv, PreparedIntact, LabelAccounted, Channels, InUse,
      cluster, Process
<1>9. ASSUME NEW c \in Claims, CreateClaimSpecFile(c) PROVE PluginInv'
  <2>1. TypeOK'
    BY <1>9 DEF CreateClaimSpecFile, PluginInv, TypeOK, At, Goto, Op,
        Startup, Checkpoint, CheckpointState, BootID, cluster, Process
  <2>2. OpInv'
    BY <1>9 DEF CreateClaimSpecFile, PluginInv, TypeOK, OpInv, Channels,
        ChannelAllocated, At, Goto, NoOp, Op, Startup, Checkpoint,
        CheckpointState, BootID, cluster, Process
  <2>3. SpecInv'
    BY <1>9 DEF CreateClaimSpecFile, PluginInv, TypeOK, OpInv, BootInv,
        StaleInv, SpecInv, Channels, ChannelAllocated, At, Goto, NoOp, Op,
        Startup, Checkpoint, CheckpointState, BootID, cluster, Process
  <2>4. PreparedIntact'
    BY <1>9 DEF CreateClaimSpecFile, PluginInv, TypeOK, OpInv, BootInv,
        StaleInv, SpecInv, PreparedIntact, Channels, ChannelAllocated, InUse,
        At, Goto, NoOp, Op, Startup, Checkpoint, CheckpointState, BootID,
        cluster, Process
  <2> QED BY <1>9, <2>1, <2>2, <2>3, <2>4 DEF PluginInv, CreateClaimSpecFile,
      BootInv, StaleInv, OneChannel, LabelAccounted, Channels, cluster,
      Process
<1>10. ASSUME NEW c \in Claims, PrepareCompletes(c) PROVE PluginInv'
  <2>1. TypeOK'
    BY <1>10 DEF PrepareCompletes, PluginInv, TypeOK, At, NoOp, Op, Startup,
        Checkpoint, CheckpointState, BootID, Process
  <2>2. OpInv'
    BY <1>10 DEF PrepareCompletes, PluginInv, TypeOK, OpInv, Channels,
        ChannelAllocated, At, NoOp, Op, Startup, Checkpoint, CheckpointState,
        BootID, Process
  <2>3. BootInv'
    BY <1>10 DEF PrepareCompletes, PluginInv, TypeOK, OpInv, BootInv,
        Channels, ChannelAllocated, At, NoOp, Op, Startup, Checkpoint,
        CheckpointState, BootID, Process
  <2>4. OneChannel'
    BY <1>10 DEF PrepareCompletes, PluginInv, TypeOK, OpInv, OneChannel,
        Channels, ChannelAllocated, At, NoOp, Op, Startup, Checkpoint,
        CheckpointState, BootID, Process
  <2>5. SpecInv'
    BY <1>10 DEF PrepareCompletes, PluginInv, TypeOK, OpInv, BootInv,
        StaleInv, SpecInv, Channels, ChannelAllocated, At, NoOp, Op, Startup,
        Checkpoint, CheckpointState, BootID, Process
  <2>6. PreparedIntact'
    BY <1>10 DEF PrepareCompletes, PluginInv, TypeOK, OpInv, BootInv,
        StaleInv, SpecInv, PreparedIntact, Channels, ChannelAllocated, InUse,
        At, NoOp, Op, Startup, Checkpoint, CheckpointState, BootID, Process
  <2>7. LabelAccounted'
    BY <1>10 DEF PrepareCompletes, PluginInv, TypeOK, OpInv, BootInv,
        LabelAccounted, Channels, ChannelAllocated, At, NoOp, Op, Startup,
        Checkpoint, CheckpointState, BootID, Process
  <2> QED BY <1>10, <2>1, <2>2, <2>3, <2>4, <2>5, <2>6, <2>7 DEF PluginInv,
      PrepareCompletes, StaleInv, Process
<1>11. ASSUME NEW c \in Claims, PrepareFails(c) PROVE PluginInv'
  <2>1. TypeOK'
    BY <1>11 DEF PrepareFails, PluginInv, TypeOK, Channels, ChannelAllocated,
        At, NoOp, Op, Startup, Checkpoint, CheckpointState, BootID, cluster,
        files, Process
  <2>2. OpInv'
    BY <1>11 DEF PrepareFails, PluginInv, TypeOK, OpInv, Channels,
        ChannelAllocated, At, NoOp, Op, Startup, Checkpoint, CheckpointState,
        BootID, cluster, files, Process
  <2> QED BY <1>11, <2>1, <2>2 DEF PluginInv, PrepareFails, BootInv,
      StaleInv, OneChannel, SpecInv, PreparedIntact, LabelAccounted,
      Channels, InUse, cluster, files, Process
<1>12. ASSUME NEW c \in Claims, UnprepareNoop(c) PROVE PluginInv'
  <2>1. TypeOK'
    BY <1>12 DEF UnprepareNoop, PluginInv, TypeOK, Answer, NoOp, Op, Startup,
        Checkpoint, CheckpointState, BootID, files, Process
  <2>2. OpInv'
    BY <1>12 DEF UnprepareNoop, PluginInv, TypeOK, OpInv, Channels,
        ChannelAllocated, Answer, NoOp, Op, Startup, Checkpoint,
        CheckpointState, BootID, files, Process
  <2>3. BootInv'
    BY <1>12 DEF UnprepareNoop, PluginInv, TypeOK, BootInv, Answer, NoOp, Op,
        Startup, Checkpoint, CheckpointState, BootID, files, Process
  <2>4. SpecInv'
    BY <1>12 DEF UnprepareNoop, PluginInv, TypeOK, OpInv, BootInv, StaleInv,
        SpecInv, Channels, ChannelAllocated, Answer, NoOp, Op, Startup,
        Checkpoint, CheckpointState, BootID, files, Process
  <2>5. PreparedIntact'
    BY <1>12 DEF UnprepareNoop, PluginInv, TypeOK, OpInv, BootInv, StaleInv,
        SpecInv, PreparedIntact, Channels, ChannelAllocated, InUse, Answer,
        NoOp, Op, Startup, Checkpoint, CheckpointState, BootID, files,
        Process
  <2> QED BY <1>12, <2>1, <2>2, <2>3, <2>4, <2>5 DEF PluginInv,
      UnprepareNoop, StaleInv, OneChannel, LabelAccounted, Channels, files,
      Process
<1>13. ASSUME NEW c \in Claims, UnprepareStart(c) PROVE PluginInv'
  <2>1. TypeOK'
    BY <1>13 DEF UnprepareStart, PluginInv, TypeOK, NoOp, Op, Startup,
        Checkpoint, CheckpointState, BootID, cluster, files
  <2>2. OpInv'
    BY <1>13 DEF UnprepareStart, PluginInv, TypeOK, OpInv, StaleInv,
        Channels, ChannelAllocated, NoOp, Op, Startup, Checkpoint,
        CheckpointState, BootID, cluster, files
  <2>3. StaleInv'
    BY <1>13 DEF UnprepareStart, PluginInv, StaleInv, NoOp, cluster, files
  <2> QED BY <1>13, <2>1, <2>2, <2>3 DEF PluginInv, UnprepareStart, BootInv,
      OneChannel, SpecInv, PreparedIntact, LabelAccounted, Channels, InUse,
      cluster, files
<1>14. ASSUME NEW c \in Claims, UnprepareDevices(c) PROVE PluginInv'
  <2>1. TypeOK'
    BY <1>14 DEF UnprepareDevices, PluginInv, TypeOK, Channels,
        RemoveNodeLabel, At, Goto, Op, Startup, Checkpoint, CheckpointState,
        BootID, files, Process
  <2>2. OpInv'
    BY <1>14 DEF UnprepareDevices, PluginInv, TypeOK, OpInv, Channels,
        ChannelAllocated, RemoveNodeLabel, At, Goto, NoOp, Op, Startup,
        Checkpoint, CheckpointState, BootID, files, Process
  <2>3. LabelAccounted'
    BY <1>14 DEF UnprepareDevices, PluginInv, TypeOK, OpInv, BootInv,
        LabelAccounted, Channels, ChannelAllocated, RemoveNodeLabel, At,
        Goto, NoOp, Op, Startup, Checkpoint, CheckpointState, BootID, files,
        Process
  <2> QED BY <1>14, <2>1, <2>2, <2>3 DEF PluginInv, UnprepareDevices,
      BootInv, StaleInv, OneChannel, SpecInv, PreparedIntact, Channels,
      InUse, files, Process
<1>15. ASSUME NEW c \in Claims, DeleteClaimSpecFile(c) PROVE PluginInv'
  <2>1. TypeOK'
    BY <1>15 DEF DeleteClaimSpecFile, PluginInv, TypeOK, At, Goto, Op,
        Startup, Checkpoint, CheckpointState, BootID, cluster, Process
  <2>2. OpInv'
    BY <1>15 DEF DeleteClaimSpecFile, PluginInv, TypeOK, OpInv, Channels,
        ChannelAllocated, At, Goto, NoOp, Op, Startup, Checkpoint,
        CheckpointState, BootID, cluster, Process
  <2>3. SpecInv'
    BY <1>15 DEF DeleteClaimSpecFile, PluginInv, TypeOK, OpInv, BootInv,
        StaleInv, SpecInv, Channels, ChannelAllocated, At, Goto, NoOp, Op,
        Startup, Checkpoint, CheckpointState, BootID, cluster, Process
  <2>4. PreparedIntact'
    BY <1>15 DEF DeleteClaimSpecFile, PluginInv, TypeOK, OpInv, BootInv,
        StaleInv, SpecInv, PreparedIntact, Channels, ChannelAllocated, InUse,
        At, Goto, NoOp, Op, Startup, Checkpoint, CheckpointState, BootID,
        cluster, Process
  <2> QED BY <1>15, <2>1, <2>2, <2>3, <2>4 DEF PluginInv,
      DeleteClaimSpecFile, BootInv, StaleInv, OneChannel, LabelAccounted,
      Channels, cluster, Process
<1>16. ASSUME NEW c \in Claims, DeleteClaimFromCheckpoint(c) PROVE PluginInv'
  <2>1. TypeOK'
    BY <1>16 DEF DeleteClaimFromCheckpoint, PluginInv, TypeOK, At, Answer,
        NoOp, Op, Startup, Checkpoint, CheckpointState, BootID, Process
  <2>2. OpInv'
    BY <1>16 DEF DeleteClaimFromCheckpoint, PluginInv, TypeOK, OpInv,
        Channels, ChannelAllocated, At, Answer, NoOp, Op, Startup,
        Checkpoint, CheckpointState, BootID, Process
  <2>3. BootInv'
    BY <1>16 DEF DeleteClaimFromCheckpoint, PluginInv, TypeOK, BootInv, At,
        Answer, NoOp, Op, Startup, Checkpoint, CheckpointState, BootID,
        Process
  <2>4. OneChannel'
    BY <1>16 DEF DeleteClaimFromCheckpoint, PluginInv, TypeOK, OpInv,
        OneChannel, Channels, ChannelAllocated, At, Answer, NoOp, Op,
        Startup, Checkpoint, CheckpointState, BootID, Process
  <2>5. SpecInv'
    BY <1>16 DEF DeleteClaimFromCheckpoint, PluginInv, TypeOK, OpInv,
        BootInv, StaleInv, SpecInv, Channels, ChannelAllocated, At, Answer,
        NoOp, Op, Startup, Checkpoint, CheckpointState, BootID, Process
  <2>6. PreparedIntact'
    BY <1>16 DEF DeleteClaimFromCheckpoint, PluginInv, TypeOK, OpInv,
        BootInv, StaleInv, SpecInv, PreparedIntact, Channels,
        ChannelAllocated, InUse, At, Answer, NoOp, Op, Startup, Checkpoint,
        CheckpointState, BootID, Process
  <2>7. LabelAccounted'
    BY <1>16 DEF DeleteClaimFromCheckpoint, PluginInv, TypeOK, OpInv,
        BootInv, LabelAccounted, Channels, ChannelAllocated, At, Answer,
        NoOp, Op, Startup, Checkpoint, CheckpointState, BootID, Process
  <2> QED BY <1>16, <2>1, <2>2, <2>3, <2>4, <2>5, <2>6, <2>7 DEF PluginInv,
      DeleteClaimFromCheckpoint, StaleInv, Process
<1>17. ASSUME NEW c \in Claims, FindStale(c) PROVE PluginInv'
  <2>1. TypeOK'
    BY <1>17 DEF FindStale, PluginInv, TypeOK, Op, Startup, Checkpoint,
        CheckpointState, BootID, cluster, files
  <2>2. StaleInv'
    BY <1>17 DEF FindStale, PluginInv, StaleInv, cluster, files
  <2> QED BY <1>17, <2>1, <2>2 DEF PluginInv, FindStale, OpInv, BootInv,
      OneChannel, SpecInv, PreparedIntact, LabelAccounted, Channels,
      ChannelAllocated, InUse, NoOp, cluster, files
<1>18. ASSUME NEW d \in Domains, ReadinessReported(d) PROVE PluginInv'
  <2>1. TypeOK'
    BY <1>18 DEF ReadinessReported, PluginInv, TypeOK, Op, Startup,
        Checkpoint, CheckpointState, BootID, files
  <2> QED BY <1>18, <2>1 DEF PluginInv, ReadinessReported, OpInv, BootInv,
      StaleInv, OneChannel, SpecInv, PreparedIntact, LabelAccounted,
      Channels, ChannelAllocated, InUse, NoOp, files
<1>19. ASSUME NEW d \in Domains, DomainDeleted(d) PROVE PluginInv'
  <2>1. TypeOK'
    BY <1>19 DEF DomainDeleted, PluginInv, TypeOK, Op, Startup, Checkpoint,
        CheckpointState, BootID, files
  <2>2. OpInv'
    BY <1>19 DEF DomainDeleted, PluginInv, TypeOK, OpInv, Channels,
        ChannelAllocated, NoOp, Op, Startup, Checkpoint, CheckpointState,
        BootID, files
  <2>3. LabelAccounted'
    BY <1>19 DEF DomainDeleted, PluginInv, TypeOK, OpInv, BootInv,
        LabelAccounted, Channels, ChannelAllocated, NoOp, Op, Startup,
        Checkpoint, CheckpointState, BootID, files
  <2> QED BY <1>19, <2>1, <2>2, <2>3 DEF PluginInv, DomainDeleted, BootInv,
      StaleInv, OneChannel, SpecInv, PreparedIntact, Channels, InUse, files
<1>20. ASSUME NEW d \in Domains, InformerEvent(d) PROVE PluginInv'
  <2>1. TypeOK'
    BY <1>20 DEF InformerEvent, PluginInv, TypeOK, Op, Startup, Checkpoint,
        CheckpointState, BootID, cluster, files
  <2> QED BY <1>20, <2>1 DEF PluginInv, InformerEvent, OpInv, BootInv,
      StaleInv, OneChannel, SpecInv, PreparedIntact, LabelAccounted,
      Channels, ChannelAllocated, InUse, NoOp, cluster, files
<1>21. CASE LabelCleanup
  <2>1. TypeOK'
    BY <1>21 DEF LabelCleanup, PluginInv, TypeOK, Op, Startup, Checkpoint,
        CheckpointState, BootID, files
  <2>2. OpInv'
    BY <1>21 DEF LabelCleanup, PluginInv, TypeOK, OpInv, Channels,
        ChannelAllocated, NoOp, Op, Startup, Checkpoint, CheckpointState,
        BootID, files
  <2>3. LabelAccounted'
    BY <1>21 DEF LabelCleanup, PluginInv, TypeOK, OpInv, BootInv,
        LabelAccounted, Channels, ChannelAllocated, NoOp, Op, Startup,
        Checkpoint, CheckpointState, BootID, files
  <2> QED BY <1>21, <2>1, <2>2, <2>3 DEF PluginInv, LabelCleanup, BootInv,
      StaleInv, OneChannel, SpecInv, PreparedIntact, Channels, InUse, files
<1>22. CASE CandidateGone
  <2>1. TypeOK'
    BY <1>22 DEF CandidateGone, PluginInv, TypeOK, Op, Startup, Checkpoint,
        CheckpointState, BootID, cluster, files
  <2>2. StaleInv'
    BY <1>22 DEF CandidateGone, PluginInv, StaleInv, cluster, files
  <2> QED BY <1>22, <2>1, <2>2 DEF PluginInv, CandidateGone, OpInv, BootInv,
      OneChannel, SpecInv, PreparedIntact, LabelAccounted, Channels,
      ChannelAllocated, InUse, NoOp, cluster, files
<1>23. CASE PeriodicCleanup
  <2>1. TypeOK'
    BY <1>23 DEF PeriodicCleanup, PluginInv, TypeOK, Op, Startup, Checkpoint,
        CheckpointState, BootID, cluster, Process
  <2> QED BY <1>23, <2>1 DEF PluginInv, PeriodicCleanup, OpInv, BootInv,
      StaleInv, OneChannel, SpecInv, PreparedIntact, LabelAccounted,
      Channels, ChannelAllocated, InUse, NoOp, cluster, Process
<1>24. CASE OperationFails
  <2>1. TypeOK'
    BY <1>24 DEF OperationFails, PluginInv, TypeOK, NoOp, Op, Startup,
        Checkpoint, CheckpointState, BootID, cluster, files, Process
  <2>2. OpInv'
    BY <1>24 DEF OperationFails, PluginInv, TypeOK, OpInv, Channels,
        ChannelAllocated, NoOp, Op, Startup, Checkpoint, CheckpointState,
        BootID, cluster, files, Process
  <2> QED BY <1>24, <2>1, <2>2 DEF PluginInv, OperationFails, BootInv,
      StaleInv, OneChannel, SpecInv, PreparedIntact, LabelAccounted,
      Channels, InUse, cluster, files, Process
<1>25. CASE Crash
  <2>1. TypeOK'
    BY <1>25 DEF Crash, PluginInv, TypeOK, NoOp, Op, Startup, Checkpoint,
        CheckpointState, BootID, cluster, files
  <2>2. OpInv'
    BY <1>25 DEF Crash, PluginInv, TypeOK, OpInv, Channels, ChannelAllocated,
        NoOp, Op, Startup, Checkpoint, CheckpointState, BootID, cluster,
        files
  <2>3. BootInv'
    BY <1>25 DEF Crash, PluginInv, TypeOK, BootInv, NoOp, Op, Startup,
        Checkpoint, CheckpointState, BootID, cluster, files
  <2>4. StaleInv'
    BY <1>25 DEF Crash, PluginInv, StaleInv, NoOp, cluster, files
  <2> QED BY <1>25, <2>1, <2>2, <2>3, <2>4 DEF PluginInv, Crash, OneChannel,
      SpecInv, PreparedIntact, LabelAccounted, Channels, InUse, cluster,
      files
<1>26. CASE Reboot
  <2>1. reboots' \in 0 .. MaxReboots
    BY <1>26, CDPluginAssumption DEF Reboot, PluginInv, TypeOK
  <2>2. TypeOK'
    BY <1>26, <2>1, CDPluginAssumption DEF Reboot, PluginInv, TypeOK, NoOp,
        Op, NoClaims, NoStartup, Startup, Checkpoint, CheckpointState, BootID
  <2>3. OpInv'
    BY <1>26, <2>1 DEF Reboot, PluginInv, TypeOK, OpInv, Channels,
        ChannelAllocated, NoOp, Op, NoClaims, NoStartup, Startup, Checkpoint,
        CheckpointState, BootID
  <2>4. BootInv'
    BY <1>26, <2>1 DEF Reboot, PluginInv, TypeOK, BootInv, NoOp, Op,
        NoClaims, NoStartup, Startup, Checkpoint, CheckpointState, BootID
  <2>5. StaleInv'
    BY <1>26, <2>1 DEF Reboot, PluginInv, StaleInv, NoOp, NoClaims, NoStartup
  <2>6. SpecInv'
    BY <1>26, <2>1 DEF Reboot, PluginInv, TypeOK, OpInv, BootInv, StaleInv,
        SpecInv, Channels, ChannelAllocated, NoOp, Op, NoClaims, NoStartup,
        Startup, Checkpoint, CheckpointState, BootID
  <2>7. PreparedIntact'
    BY <1>26, <2>1 DEF Reboot, PluginInv, TypeOK, OpInv, BootInv, StaleInv,
        SpecInv, PreparedIntact, Channels, ChannelAllocated, InUse, NoOp, Op,
        NoClaims, NoStartup, Startup, Checkpoint, CheckpointState, BootID
  <2>8. LabelAccounted'
    BY <1>26, <2>1 DEF Reboot, PluginInv, TypeOK, OpInv, BootInv,
        LabelAccounted, Channels, ChannelAllocated, NoOp, Op, NoClaims,
        NoStartup, Startup, Checkpoint, CheckpointState, BootID
  <2> QED BY <1>26, <2>2, <2>3, <2>4, <2>5, <2>6, <2>7, <2>8 DEF PluginInv,
      Reboot, OneChannel, Channels
<1>27. CASE StartupRead
  <2>1. TypeOK'
    BY <1>27 DEF StartupRead, PluginInv, TypeOK, Op, Startup, Checkpoint,
        NoClaims, CheckpointState, BootID, cluster, files
  <2>2. BootInv'
    BY <1>27 DEF StartupRead, PluginInv, TypeOK, BootInv, Op, Startup,
        Checkpoint, CheckpointState, BootID, cluster, files
  <2> QED BY <1>27, <2>1, <2>2 DEF PluginInv, StartupRead, OpInv, StaleInv,
      OneChannel, SpecInv, PreparedIntact, LabelAccounted, Channels,
      ChannelAllocated, InUse, NoOp, cluster, files
<1>28. CASE StartupWrite
  <2>1. \/ boot = "current" /\ cp' = cp
        \/ boot = "old" /\ cp' = NoClaims /\ op = NoOp
    BY <1>28 DEF StartupWrite, PluginInv, OpInv, BootInv, TypeOK, BootID
  <2>2. TypeOK'
    BY <1>28, <2>1 DEF StartupWrite, PluginInv, TypeOK, Op, NoClaims,
        NoStartup, Startup, Checkpoint, CheckpointState, BootID, cluster
  <2>3. OpInv'
    BY <1>28, <2>1 DEF StartupWrite, PluginInv, TypeOK, OpInv, BootInv,
        Channels, ChannelAllocated, NoOp, Op, NoClaims, NoStartup, Startup,
        Checkpoint, CheckpointState, BootID, cluster
  <2>4. BootInv'
    BY <1>28, <2>1 DEF StartupWrite, PluginInv, TypeOK, BootInv, Op,
        NoClaims, NoStartup, Startup, Checkpoint, CheckpointState, BootID,
        cluster
  <2>5. OneChannel'
    BY <1>28, <2>1 DEF StartupWrite, PluginInv, TypeOK, OpInv, BootInv,
        OneChannel, Channels, ChannelAllocated, NoOp, Op, NoClaims,
        NoStartup, Startup, Checkpoint, CheckpointState, BootID, cluster
  <2>6. SpecInv'
    BY <1>28, <2>1 DEF StartupWrite, PluginInv, TypeOK, OpInv, BootInv,
        StaleInv, SpecInv, Channels, ChannelAllocated, NoOp, Op, NoClaims,
        NoStartup, Startup, Checkpoint, CheckpointState, BootID, cluster
  <2>7. PreparedIntact'
    BY <1>28, <2>1 DEF StartupWrite, PluginInv, TypeOK, OpInv, BootInv,
        StaleInv, SpecInv, PreparedIntact, Channels, ChannelAllocated, InUse,
        NoOp, Op, NoClaims, NoStartup, Startup, Checkpoint, CheckpointState,
        BootID, cluster
  <2>8. LabelAccounted'
    BY <1>28, <2>1 DEF StartupWrite, PluginInv, TypeOK, OpInv, BootInv,
        LabelAccounted, Channels, ChannelAllocated, NoOp, Op, NoClaims,
        NoStartup, Startup, Checkpoint, CheckpointState, BootID, cluster
  <2> QED BY <1>28, <2>2, <2>3, <2>4, <2>5, <2>6, <2>7, <2>8 DEF PluginInv,
      StartupWrite, StaleInv, cluster
<1>29. ASSUME NEW c \in Claims, UnprepareFails(c) PROVE PluginInv'
  <2>1. op # NoOp
    BY <1>29 DEF UnprepareFails, At, NoOp
  <2> QED BY <1>24, <1>29, <2>1 DEF UnprepareFails, OperationFails
<1> QED BY <1>1, <1>2, <1>3, <1>4, <1>5, <1>6, <1>7, <1>8, <1>9, <1>10,
    <1>11, <1>12, <1>13, <1>14, <1>15, <1>16, <1>17, <1>18, <1>19, <1>20,
    <1>21, <1>22, <1>23, <1>24, <1>25, <1>26, <1>27, <1>28, <1>29
    DEF Next, Attempt

(* The invariant is about the variables only. *)
LEMMA StutterInd == ASSUME PluginInv, UNCHANGED vars PROVE PluginInv'
BY DEF vars, PluginInv, TypeOK, OpInv, BootInv, StaleInv, OneChannel, SpecInv,
       PreparedIntact, LabelAccounted, InUse, Channels, ChannelAllocated, Op,
       NoOp, Startup, Checkpoint

(* The plugin's invariant holds at all times: what the checkpoint says of  *)
(* a claim, what the operation that holds pulock has done for it, what the *)
(* kubelet believes and which files exist agree, whichever operations,     *)
(* cleanups, crashes and reboots interleave.                               *)
THEOREM PluginInvariant == ~Legacy => (Spec => []PluginInv)
<1> SUFFICES ASSUME ~Legacy PROVE Spec => []PluginInv
  OBVIOUS
<1>1. Init => PluginInv
  BY InitInd
<1>2. PluginInv /\ [Next]_vars => PluginInv'
  BY NextInd, StutterInd
<1> QED BY <1>1, <1>2, PTL DEF Spec

(* The IMEX channel is in use by at most one claim                         *)
(* (assertImexChannelNotAllocated), with any number of claims, domains and *)
(* aborted attempts.                                                       *)
THEOREM ChannelExclusive == ~Legacy => (Spec => []ExclusiveChannel)
<1>1. PluginInv => ExclusiveChannel
  BY DEF PluginInv, PreparedIntact, OneChannel, ExclusiveChannel
<1> QED BY <1>1, PluginInvariant, PTL

(* A claim that the kubelet holds prepared is PrepareCompleted in the      *)
(* checkpoint and has its CDI spec, in spite of the checkpoint cleanup,    *)
(* crashes between the effects of an operation, and reboots.               *)
THEOREM PreparedStaysIntact == ~Legacy => (Spec => []PreparedIntact)
<1>1. PluginInv => PreparedIntact
  BY DEF PluginInv
<1> QED BY <1>1, PluginInvariant, PTL

(* Until the node reboots, a node label always has a claim in the          *)
(* checkpoint whose Unprepare removes it (RemoveNodeLabel).                *)
THEOREM LabelIsAccounted == ~Legacy => (Spec => []LabelAccounted)
<1>1. PluginInv => LabelAccounted
  BY DEF PluginInv
<1> QED BY <1>1, PluginInvariant, PTL

=============================================================================
