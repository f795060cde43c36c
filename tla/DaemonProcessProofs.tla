------------------------ MODULE DaemonProcessProofs -------------------------
(***************************************************************************)
(* Proofs about DaemonProcess for any number of updates and crashes:       *)
(* m.handle, the mutex and the child agree, nobody waits for a child that  *)
(* is not there, and a running child has read the newest list.             *)
(***************************************************************************)
EXTENDS DaemonProcess, TLAPS

(* ProcInv without the type invariant *)
PMInv ==
    /\ handle <=> child # "none"
    /\ \A t \in Threads :
         /\ lock = t <=> Waiting(t) /\ pc[t] # "reap"
         /\ pc[t] = "reap" => t = "d" /\ child = "reaped" /\ lock = "free"
         /\ Waiting(t) => child # "none" /\ \A s \in Threads \ {t} : ~Waiting(s)

-----------------------------------------------------------------------------
(* The operations of the ProcessManager, called by the update loop or the  *)
(* watchdog.                                                               *)

(* Locations outside of wait(), and those that another goroutine's step    *)
(* leaves alone *)
Calm == {"idle", "send", "ensure", "signal", "restart", "stop", "start", "done"}

LEMMA GotoFacts ==
    ASSUME TypeOK, NEW t \in Threads, NEW l, Goto(t, l)
    PROVE  pc'[t] = l /\ \A s \in Threads \ {t} : pc'[s] = pc[s]
BY DEF TypeOK, Goto

(* A step that only moves a goroutine from one calm location to another *)
LEMMA MoveKeeps ==
    ASSUME TypeOK, PMInv, NEW t \in Threads, NEW l \in Calm \cup {"stopping"},
           pc[t] \in Calm \cup {"stopping"}, Goto(t, l),
           t = "d" => pc[t] \in Calm /\ l \in Calm,
           UNCHANGED <<lock, handle, child>>
    PROVE  PMInv'
<1>1. pc'[t] = l /\ \A s \in Threads \ {t} : pc'[s] = pc[s]
  BY GotoFacts
<1>2. \A s \in Threads : /\ Waiting(s)' <=> Waiting(s)
                         /\ pc'[s] = "reap" <=> pc[s] = "reap"
  BY <1>1 DEF Waiting, Calm
<1> QED
  BY <1>2 DEF PMInv

LEMMA FailKeeps ==
    ASSUME TypeOK, PMInv, NEW t \in Threads, pc[t] \in Calm, Fail(t),
           UNCHANGED <<lock, handle, child>>
    PROVE  PMInv'
BY MoveKeeps DEF Fail, Calm

(* start() *)
LEMMA StartKeeps ==
    ASSUME TypeOK, PMInv, NEW t \in Threads, pc[t] \in Calm, PMStart(t, "idle")
    PROVE  PMInv'
<1>1. CASE Fail(t) /\ UNCHANGED process
  BY <1>1, FailKeeps DEF process
<1>2. CASE /\ ~handle /\ handle' = TRUE /\ child' = "running" /\ lock' = lock
           /\ Goto(t, "idle")
  <2>1. pc'[t] = "idle" /\ \A s \in Threads \ {t} : pc'[s] = pc[s]
    BY <1>2, GotoFacts
  <2>2. \A s \in Threads : ~Waiting(s) /\ pc[s] # "reap"
    BY <1>2 DEF PMInv
  <2>3. \A s \in Threads : ~Waiting(s)' /\ pc'[s] # "reap"
    BY <2>1, <2>2 DEF Waiting
  <2> QED
    BY <1>2, <2>2, <2>3 DEF PMInv
<1> QED
  BY <1>1, <1>2 DEF PMStart

(* stop() up to its wait(), and the watchdog's final one *)
LEMMA StopKeeps ==
    ASSUME TypeOK, PMInv, NEW t \in Threads, pc[t] \in Calm, NEW l, Goto(t, l),
           l = "wait" \/ (t = "d" /\ l = "stopping"),
           lock = "free", lock' = t, handle, child # "reaped", UNCHANGED <<handle, child>>
    PROVE  PMInv'
<1>1. pc'[t] = l /\ \A s \in Threads \ {t} : pc'[s] = pc[s]
  BY GotoFacts
<1>2. \A s \in Threads : ~Waiting(s)
  BY DEF PMInv, Threads, Waiting
<1>3. Waiting(t)' /\ \A s \in Threads \ {t} : ~Waiting(s)'
  BY <1>1, <1>2 DEF Waiting
<1>4. \A s \in Threads : pc'[s] # "reap"
  BY <1>1, <1>2 DEF Waiting
<1> QED
  BY <1>2, <1>3, <1>4 DEF PMInv

(* wait(): the only one that waits gets the result. *)
LEMMA WaitKeeps ==
    ASSUME TypeOK, PMInv, NEW t \in Threads, NEW l \in Calm, Waiting(t), PMWait(t, l)
    PROVE  PMInv'
<1>1. pc'[t] = l /\ \A s \in Threads \ {t} : pc'[s] = pc[s]
  BY GotoFacts DEF PMWait
<1>2. \A s \in Threads \ {t} : ~Waiting(s) /\ lock # s
  BY DEF PMInv
<1>3. \A s \in Threads : ~Waiting(s)' /\ pc'[s] # "reap"
  BY <1>1, <1>2 DEF Waiting, Calm
<1>4. lock' = "free"
  BY <1>2 DEF PMWait, TypeOK
<1>5. child' = "none" /\ handle' = FALSE
  BY DEF PMWait
<1> QED
  BY <1>3, <1>4, <1>5 DEF PMInv, Threads

-----------------------------------------------------------------------------
(* Types *)

LEMMA BooleanStep ==
    ASSUME TypeOK, Next
    PROVE  /\ dnsNames' \in BOOLEAN /\ cancelled' \in BOOLEAN /\ handle' \in BOOLEAN
           /\ term' \in BOOLEAN /\ failed' \in BOOLEAN /\ removed' \in BOOLEAN
<1>1. /\ dnsNames' = dnsNames
      /\ cancelled' = cancelled \/ cancelled' = TRUE
      /\ handle' = handle \/ handle' = TRUE \/ handle' = FALSE
      /\ term' = term \/ term' = TRUE \/ term' = FALSE
      /\ failed' = failed \/ failed' = TRUE
      /\ removed' = removed \/ removed' = TRUE
  BY DEF Next, Cancel, ChildCrashes, ChildTerminates, ChildReaped, Worker, WorkerPush,
         WorkerReturns, ControllerStops, UpdateLoop, UpdateLoopReturns, UpdateReceived,
         EnsureStarted, Watchdog, WatchdogTick, WatchdogStop, PMStart, PMStop, PMWait,
         PMSignal, PMRestart, Fail, process
<1> QED
  BY <1>1, Zenon DEF TypeOK

LEMMA NumberStep ==
    ASSUME TypeOK, Next
    PROVE  /\ updates' \in 0 .. MaxUpdates /\ config' \in 0 .. MaxUpdates
           /\ loaded' \in 0 .. MaxUpdates /\ crashes' \in 0 .. MaxCrashes
<1>1. /\ \/ updates' = updates
         \/ updates' = updates + 1 /\ updates < MaxUpdates
      /\ config' \in {config, updates}
      /\ loaded' \in {loaded, config}
      /\ \/ crashes' = crashes
         \/ crashes' = crashes + 1 /\ crashes < MaxCrashes
  BY DEF Next, Cancel, ChildCrashes, ChildTerminates, ChildReaped, Worker, WorkerPush,
         WorkerReturns, ControllerStops, UpdateLoop, UpdateLoopReturns, UpdateReceived,
         EnsureStarted, Watchdog, WatchdogTick, WatchdogStop, PMStart, PMStop, PMWait,
         PMSignal, PMRestart, Fail, process
<1> QED
  BY <1>1, DaemonProcessAssumption DEF TypeOK

LEMMA TypeStep ==
    ASSUME TypeOK, Next
    PROVE  TypeOK'
<1> DEFINE Locations == {"idle", "send", "stopping", "ensure", "signal", "restart", "stop",
                         "wait", "start", "reap", "done"}
<1>1. pc' \in [Threads -> Locations]
  <2>1. \/ pc' = pc
        \/ \E t \in Threads, l \in Locations : pc' = [pc EXCEPT ![t] = l]
        \/ \E l \in Locations : pc' = [pc EXCEPT !["w"] = "idle", !["u"] = l]
    <3>1. CASE Cancel \/ ChildCrashes \/ ChildTerminates \/ ChildReaped
      BY <3>1 DEF Cancel, ChildCrashes, ChildTerminates, ChildReaped
    <3>2. CASE Worker
      BY <3>2 DEF Worker, WorkerPush, WorkerReturns, ControllerStops, Goto, Threads
    <3>3. CASE UpdateLoop
      BY <3>3 DEF UpdateLoop, UpdateLoopReturns, UpdateReceived, EnsureStarted, PMStart,
                  PMStop, PMWait, PMSignal, PMRestart, Fail, Goto, Threads
    <3>4. CASE Watchdog
      BY <3>4 DEF Watchdog, WatchdogTick, WatchdogStop, PMStart, PMStop, PMWait,
                  PMRestart, Fail, Goto, Threads
    <3> QED
      BY <3>1, <3>2, <3>3, <3>4 DEF Next
  <2> QED
    BY <2>1 DEF TypeOK
<1>2. lock' \in Threads \cup {"free"} /\ child' \in ChildState
  <2>1. lock' \in {lock, "u", "d", "free"}
    BY DEF Next, Cancel, ChildCrashes, ChildTerminates, ChildReaped, Worker, WorkerPush,
         WorkerReturns, ControllerStops, UpdateLoop, UpdateLoopReturns, UpdateReceived,
         EnsureStarted, Watchdog, WatchdogTick, WatchdogStop, PMStart, PMStop, PMWait,
         PMSignal, PMRestart, Fail, process
  <2>2. child' \in {child, "none", "running", "exited", "reaped"}
    BY DEF Next, Cancel, ChildCrashes, ChildTerminates, ChildReaped, Worker, WorkerPush,
         WorkerReturns, ControllerStops, UpdateLoop, UpdateLoopReturns, UpdateReceived,
         EnsureStarted, Watchdog, WatchdogTick, WatchdogStop, PMStart, PMStop, PMWait,
         PMSignal, PMRestart, Fail, process
  <2> QED
    BY <2>1, <2>2 DEF TypeOK, ChildState, Threads
<1> QED
  BY <1>1, <1>2, BooleanStep, NumberStep DEF TypeOK

-----------------------------------------------------------------------------
(* Every step *)

LEMMA PMStep ==
    ASSUME TypeOK, PMInv, Next
    PROVE  PMInv'
<1> USE DEF Threads, Calm
<1>1. CASE Cancel
  BY <1>1 DEF Cancel, PMInv, Waiting, process
<1>2. CASE ChildCrashes \/ ChildTerminates \/ ChildReaped
  BY <1>2 DEF ChildCrashes, ChildTerminates, ChildReaped, PMInv, Waiting
<1>3. CASE Worker
  BY <1>3, MoveKeeps DEF Worker, WorkerPush, WorkerReturns, ControllerStops, process
<1>4. CASE UpdateLoop
  <2>1. CASE UpdateLoopReturns \/ EnsureStarted
    BY <1>4, <2>1, MoveKeeps DEF UpdateLoopReturns, EnsureStarted, process
  <2>2. CASE UpdateReceived
    <3>1. /\ pc["w"] \in Calm /\ pc["u"] \in Calm /\ pc'["w"] \in Calm /\ pc'["u"] \in Calm
          /\ pc'["d"] = pc["d"] /\ UNCHANGED <<lock, handle, child>>
      BY <2>2 DEF UpdateReceived, TypeOK, process
    <3>2. \A s \in Threads : /\ Waiting(s)' <=> Waiting(s)
                             /\ pc'[s] = "reap" <=> pc[s] = "reap"
      BY <3>1 DEF Waiting
    <3> QED
      BY <3>1, <3>2 DEF PMInv
  <2>3. CASE pc["u"] = "signal" /\ PMSignal("u", "idle")
    BY <2>3, MoveKeeps DEF PMSignal
  <2>4. CASE pc["u"] = "restart" /\ PMRestart("u")
    BY <2>4, MoveKeeps DEF PMRestart, process
  <2>5. CASE pc["u"] = "stop" /\ PMStop("u")
    BY <2>5, FailKeeps, StopKeeps DEF PMStop, process
  <2>6. CASE pc["u"] = "wait" /\ PMWait("u", "start")
    BY <2>6, WaitKeeps DEF Waiting
  <2>7. CASE pc["u"] = "start" /\ PMStart("u", "idle")
    BY <2>7, StartKeeps
  <2> QED
    BY <1>4, <2>1, <2>2, <2>3, <2>4, <2>5, <2>6, <2>7 DEF UpdateLoop
<1>5. CASE Watchdog
  <2>1. CASE WatchdogTick
    <3>1. /\ pc'["d"] = "reap" /\ \A s \in Threads \ {"d"} : pc'[s] = pc[s]
          /\ lock = "free" /\ child = "reaped" /\ UNCHANGED <<lock, handle, child>>
      BY <2>1, GotoFacts DEF WatchdogTick, process
    <3>2. \A s \in Threads : lock # s
      BY <3>1
    <3>3. \A s \in Threads \ {"d"} : ~Waiting(s)
      BY <3>2 DEF PMInv
    <3>4. \A s \in Threads \ {"d"} : ~Waiting(s)' /\ pc'[s] # "reap"
      BY <3>1, <3>3 DEF Waiting
    <3> QED
      BY <3>1, <3>2, <3>4 DEF PMInv
  <2>2. CASE WatchdogStop
    BY <2>2, FailKeeps, StopKeeps DEF WatchdogStop, process
  <2>3. CASE pc["d"] = "reap" /\ PMWait("d", "restart")
    BY <2>3, WaitKeeps DEF Waiting
  <2>4. CASE pc["d"] = "restart" /\ PMRestart("d")
    BY <2>4, MoveKeeps DEF PMRestart, process
  <2>5. CASE pc["d"] = "stop" /\ PMStop("d")
    BY <2>5, FailKeeps, StopKeeps DEF PMStop, process
  <2>6. CASE pc["d"] = "wait" /\ PMWait("d", "start")
    BY <2>6, WaitKeeps DEF Waiting
  <2>7. CASE pc["d"] = "start" /\ PMStart("d", "idle")
    BY <2>7, StartKeeps
  <2>8. CASE pc["d"] = "stopping" /\ PMWait("d", "done")
    BY <2>8, WaitKeeps DEF Waiting
  <2> QED
    BY <1>5, <2>1, <2>2, <2>3, <2>4, <2>5, <2>6, <2>7, <2>8 DEF Watchdog
<1> QED
  BY <1>1, <1>2, <1>3, <1>4, <1>5 DEF Next

(* A list is taken only at "idle", and the update loop comes back there    *)
(* only when the child, if it runs, has read the file.  Whoever else       *)
(* starts a child lets it read the same file.                              *)
LEMMA LoadedStep ==
    ASSUME TypeOK, PMInv, LoadedCurrent, Next
    PROVE  LoadedCurrent'
<1> USE DEF LoadedCurrent, Threads
<1>1. CASE Cancel \/ ChildCrashes \/ ChildTerminates \/ ChildReaped
  BY <1>1 DEF Cancel, ChildCrashes, ChildTerminates, ChildReaped, process
<1>2. CASE Worker
  BY <1>2, GotoFacts DEF Worker, WorkerPush, WorkerReturns, ControllerStops, process
<1>3. CASE UpdateLoop
  <2>1. CASE UpdateReceived
    BY <2>1 DEF UpdateReceived, TypeOK
  <2>2. CASE pc["u"] = "signal" /\ PMSignal("u", "idle")
    BY <2>2 DEF PMSignal, PMInv
  <2>3. CASE pc["u"] = "start" /\ PMStart("u", "idle")
    BY <2>3, GotoFacts DEF PMStart, Fail
  <2>4. CASE \/ UpdateLoopReturns \/ EnsureStarted
             \/ PMRestart("u") \/ PMStop("u") \/ PMWait("u", "start")
    <3>1. pc'["u"] # "idle"
      BY <2>4, GotoFacts
      DEF UpdateLoopReturns, EnsureStarted, PMStop, PMWait, PMRestart, Fail
    <3> QED
      BY <3>1
  <2> QED
    BY <1>3, <2>1, <2>2, <2>3, <2>4 DEF UpdateLoop
<1>4. CASE Watchdog
  BY <1>4, GotoFacts DEF Watchdog, WatchdogTick, WatchdogStop, PMStart, PMStop, PMWait,
                         PMRestart, Fail, process
<1> QED
  BY <1>1, <1>2, <1>3, <1>4 DEF Next

-----------------------------------------------------------------------------
(* m.handle, mutex, waitResChan and child agree in every interleaving of   *)
(* the worker, the update loop, the watchdog and the child's exits, for    *)
(* any number of them: no wait() is without a child, none is taken the     *)
(* result away, and start() never overwrites a handle.                     *)
THEOREM ProcessInvariant == Spec => []ProcInv
<1>1. Init => ProcInv
  <2>1. Init => TypeOK
    <3>1. Init => /\ dnsNames \in BOOLEAN /\ cancelled \in BOOLEAN /\ handle \in BOOLEAN
                  /\ term \in BOOLEAN /\ failed \in BOOLEAN /\ removed \in BOOLEAN
      BY Zenon DEF Init
    <3>2. Init => /\ updates \in 0 .. MaxUpdates /\ config \in 0 .. MaxUpdates
                  /\ loaded \in 0 .. MaxUpdates /\ crashes \in 0 .. MaxCrashes
      BY DaemonProcessAssumption DEF Init
    <3> QED
      BY <3>1, <3>2 DEF Init, TypeOK, ChildState
  <2>2. Init => PMInv
    BY DEF Init, PMInv, Threads, Waiting
  <2> QED
    BY <2>1, <2>2 DEF PMInv, ProcInv
<1>2. ProcInv /\ [Next]_<<dnsNames, vars>> => ProcInv'
  <2>1. ASSUME ProcInv, Next PROVE ProcInv'
    BY <2>1, TypeStep, PMStep DEF PMInv, ProcInv
  <2>2. ASSUME ProcInv, UNCHANGED <<dnsNames, vars>> PROVE ProcInv'
    <3>1. TypeOK' /\ UNCHANGED <<pc, lock, handle, child>>
      BY <2>2 DEF ProcInv, TypeOK, vars
    <3> QED
      BY <2>2, <3>1 DEF ProcInv, Waiting
  <2> QED
    BY <2>1, <2>2
<1> QED
  BY <1>1, <1>2, PTL DEF Spec

(* Between two updates, a running child has read the newest list: neither  *)
(* the watchdog nor a shutdown ever leaves an old one behind, with DNS     *)
(* names (SIGUSR1) or without (Restart).                                   *)
THEOREM LoadedIsCurrent == Spec => []LoadedCurrent
<1>1. Init => LoadedCurrent
  BY DEF Init, LoadedCurrent
<1>2. ProcInv /\ LoadedCurrent /\ [Next]_<<dnsNames, vars>> => LoadedCurrent'
  <2>1. ASSUME ProcInv, LoadedCurrent, Next PROVE LoadedCurrent'
    BY <2>1, LoadedStep DEF ProcInv, PMInv
  <2>2. ASSUME LoadedCurrent, UNCHANGED <<dnsNames, vars>> PROVE LoadedCurrent'
    BY <2>2 DEF LoadedCurrent, vars
  <2> QED
    BY <2>1, <2>2
<1> QED
  BY <1>1, <1>2, ProcessInvariant, PTL DEF Spec

=============================================================================
