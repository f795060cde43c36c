--------------------------- MODULE DaemonProcess ----------------------------
(***************************************************************************)
(* One ComputeDomain daemon: the goroutines that run() starts and the      *)
(* nvidia-imex child process they share through the ProcessManager.        *)
(*                                                                         *)
(*   "w"  the controller: the work queue's worker, which sends every new   *)
(*        list of daemons over the unbuffered updatedDaemonsChan, and      *)
(*        Stop, which removes this daemon from the clique                  *)
(*   "u"  the update loop, WithDNSNames or WithIPs                         *)
(*   "d"  the watchdog                                                     *)
(*                                                                         *)
(* Every unlocked read of m.handle and every critical section of the       *)
(* ProcessManager's mutex is a step of its own.  A list of daemons is the  *)
(* number of the update that brought it; `config` is the one in the hosts  *)
(* (or nodes) file, `loaded` the one the child has read.  exec failures    *)
(* and failures to write the file are left out: they end the program.      *)
(***************************************************************************)
EXTENDS Integers

CONSTANTS
    MaxUpdates,     \* bound: updates pushed in a behaviour
    MaxCrashes      \* bound: unexpected terminations of the child

ASSUME DaemonProcessAssumption ==
    /\ MaxUpdates \in Nat
    /\ MaxCrashes \in Nat

VARIABLES
    dnsNames,   \* feature gate IMEXDaemonsWithDNSNames
    cancelled,  \* the context that run() shares
    pc,         \* where each goroutine is
    lock,       \* holder of ProcessManager's mutex
    handle,     \* m.handle # nil
    child,      \* the process behind m.handle
    term,       \* SIGTERM was sent to it
    updates,    \* lists pushed so far
    config,     \* the list in the hosts (nodes) file
    loaded,     \* the list the child has read
    crashes,    \* unexpected terminations so far
    failed,     \* a goroutine returned an error
    removed     \* Stop has run: the daemon left the clique

(* Everything but the feature gate, which never changes. *)
vars == <<cancelled, pc, lock, handle, child, term, updates, config, loaded,
          crashes, failed, removed>>

Threads == {"w", "u", "d"}

(* "reaped": the background Wait() put its result into waitResChan. *)
ChildState == {"none", "running", "exited", "reaped"}

TypeOK ==
    /\ dnsNames \in BOOLEAN
    /\ cancelled \in BOOLEAN
    /\ pc \in [Threads -> {"idle", "send", "stopping", "ensure", "signal",
                           "restart", "stop", "wait", "start", "reap",
                           "done"}]
    /\ lock \in Threads \cup {"free"}
    /\ handle \in BOOLEAN
    /\ child \in ChildState
    /\ term \in BOOLEAN
    /\ updates \in 0 .. MaxUpdates
    /\ config \in 0 .. MaxUpdates
    /\ loaded \in 0 .. MaxUpdates
    /\ crashes \in 0 .. MaxCrashes
    /\ failed \in BOOLEAN
    /\ removed \in BOOLEAN

Init ==
    /\ dnsNames \in BOOLEAN
    /\ cancelled = FALSE
    /\ pc = [t \in Threads |-> "idle"]
    /\ lock = "free"
    /\ handle = FALSE
    /\ child = "none"
    /\ term = FALSE
    /\ updates = 0 /\ config = 0 /\ loaded = 0
    /\ crashes = 0
    /\ failed = FALSE
    /\ removed = FALSE

process == <<lock, handle, child, term, loaded, crashes>>

Goto(t, l) == pc' = [pc EXCEPT ![t] = l]

(* Goroutine t returns an error: run() logs it and cancels the context. *)
Fail(t) ==
    /\ Goto(t, "done")
    /\ failed' = TRUE
    /\ cancelled' = TRUE

-----------------------------------------------------------------------------
(* The environment *)

(* SIGTERM to the daemon. *)
Cancel ==
    /\ ~cancelled
    /\ cancelled' = TRUE
    /\ UNCHANGED <<pc, process, updates, config, failed, removed>>

ChildCrashes ==
    /\ child = "running"
    /\ ~term
    /\ crashes < MaxCrashes
    /\ child' = "exited"
    /\ crashes' = crashes + 1
    /\ UNCHANGED <<cancelled, pc, lock, handle, term, updates, config, loaded,
                   failed, removed>>

ChildTerminates ==
    /\ child = "running"
    /\ term
    /\ child' = "exited"
    /\ UNCHANGED <<cancelled, pc, lock, handle, term, updates, config, loaded,
                   crashes, failed, removed>>

(* The goroutine started by start(): waitResChan <- m.handle.Wait(). *)
ChildReaped ==
    /\ child = "exited"
    /\ child' = "reaped"
    /\ UNCHANGED <<cancelled, pc, lock, handle, term, updates, config, loaded,
                   crashes, failed, removed>>

-----------------------------------------------------------------------------
(* ProcessManager, called by goroutine t.  Each operator is one step that  *)
(* ends in `next`, or in an error.                                         *)

(* start() *)
PMStart(t, next) ==
    /\ lock = "free"
    /\ \/ /\ handle
          /\ Fail(t)
          /\ UNCHANGED process
       \/ /\ ~handle
          /\ handle' = TRUE
          /\ child' = "running"
          /\ term' = FALSE
          /\ loaded' = config
          /\ Goto(t, next)
          /\ UNCHANGED <<cancelled, failed, lock, crashes>>
    /\ UNCHANGED <<updates, config, removed>>

(* stop() up to wait(): a process that was reaped cannot be signalled. *)
PMStop(t) ==
    /\ lock = "free"
    /\ \/ /\ ~handle \/ child = "reaped"
          /\ Fail(t)
          /\ UNCHANGED process
       \/ /\ handle
          /\ child # "reaped"
          /\ lock' = t
          /\ term' = TRUE
          /\ Goto(t, "wait")
          /\ UNCHANGED <<cancelled, failed, handle, child, loaded, crashes>>
    /\ UNCHANGED <<updates, config, removed>>

(* Mutant: m.handle is not reset. *)
PMWaitNoReset(t, next) ==
    /\ child = "reaped"
    /\ child' = "none"
    /\ lock' = IF lock = t THEN "free" ELSE lock
    /\ Goto(t, next)
    /\ UNCHANGED <<cancelled, handle, term, updates, config, loaded, crashes,
                   failed, removed>>

(* wait(), from stop() with the mutex held or from the watchdog without    *)
(* it, and, when t holds the mutex, its release.                           *)
PMWait(t, next) ==
    /\ child = "reaped"
    /\ child' = "none"
    /\ handle' = FALSE
    /\ lock' = IF lock = t THEN "free" ELSE lock
    /\ Goto(t, next)
    /\ UNCHANGED <<cancelled, term, updates, config, loaded, crashes, failed,
                   removed>>

(* Mutant: no signal is sent. *)
PMNoSignal(t, next) ==
    /\ lock = "free"
    /\ Goto(t, next)
    /\ UNCHANGED <<cancelled, process, updates, config, failed, removed>>

(* Signal(SIGUSR1): the child re-reads the hosts file.  An error is only   *)
(* logged.                                                                 *)
PMSignal(t, next) ==
    /\ lock = "free"
    /\ loaded' = IF handle /\ child = "running" THEN config ELSE loaded
    /\ Goto(t, next)
    /\ UNCHANGED <<cancelled, lock, handle, child, term, updates, config,
                   crashes, failed, removed>>

(* The unlocked test of m.handle at the start of Restart(). *)
PMRestart(t) ==
    /\ Goto(t, IF handle THEN "stop" ELSE "start")
    /\ UNCHANGED <<cancelled, process, updates, config, failed, removed>>

-----------------------------------------------------------------------------
(* The controller goroutine *)

(* A work item finds a changed list: the worker blocks in the send.  Run   *)
(* takes no new item once the context is done.                             *)
WorkerPush ==
    /\ pc["w"] = "idle"
    /\ ~cancelled
    /\ updates < MaxUpdates
    /\ updates' = updates + 1
    /\ Goto("w", "send")
    /\ UNCHANGED <<cancelled, process, config, failed, removed>>

(* workQueue.Run returns between two work items. *)
WorkerReturns ==
    /\ pc["w"] = "idle"
    /\ cancelled
    /\ Goto("w", "stopping")
    /\ UNCHANGED <<cancelled, process, updates, config, failed, removed>>

(* daemonInfoManager.Stop removes this daemon from the clique. *)
ControllerStops ==
    /\ pc["w"] = "stopping"
    /\ removed' = TRUE
    /\ Goto("w", "done")
    /\ UNCHANGED <<cancelled, process, updates, config, failed>>

-----------------------------------------------------------------------------
(* The update loop *)

UpdateLoopReturns ==
    /\ pc["u"] = "idle"
    /\ cancelled
    /\ Goto("u", "done")
    /\ UNCHANGED <<cancelled, process, updates, config, failed, removed>>

(* The list changes hands; UpdateDNSNameMappings or writeDaemonsConfig     *)
(* puts it into the file.                                                  *)
UpdateReceived ==
    /\ pc["u"] = "idle"
    /\ pc["w"] = "send"
    /\ config' = updates
    /\ pc' = [pc EXCEPT !["w"] = "idle",
                        !["u"] = IF dnsNames THEN "ensure" ELSE "restart"]
    /\ UNCHANGED <<cancelled, process, updates, failed, removed>>

(* EnsureStarted's unlocked test of m.handle: a child that is already      *)
(* there is sent SIGUSR1, a new one reads the file by itself.              *)
EnsureStarted ==
    /\ pc["u"] = "ensure"
    /\ Goto("u", IF handle THEN "signal" ELSE "start")
    /\ UNCHANGED <<cancelled, process, updates, config, failed, removed>>

UpdateLoop ==
    \/ UpdateLoopReturns
    \/ UpdateReceived
    \/ EnsureStarted
    \/ pc["u"] = "signal" /\ PMSignal("u", "idle")
    \/ pc["u"] = "restart" /\ PMRestart("u")
    \/ pc["u"] = "stop" /\ PMStop("u")
    \/ pc["u"] = "wait" /\ PMWait("u", "start")
    \/ pc["u"] = "start" /\ PMStart("u", "idle")

-----------------------------------------------------------------------------
(* The watchdog *)

(* Mutant: lost() looks at a child that was told to terminate. *)
WatchdogTickTerm ==
    /\ pc["d"] = "idle"
    /\ lock = "free"
    /\ handle
    /\ child = "reaped"
    /\ term
    /\ Goto("d", "reap")
    /\ UNCHANGED <<cancelled, process, updates, config, failed, removed>>

(* The ticker fires and lost() reports that the child is gone. *)
WatchdogTick ==
    /\ pc["d"] = "idle"
    /\ lock = "free"
    /\ handle
    /\ child = "reaped"
    /\ Goto("d", "reap")
    /\ UNCHANGED <<cancelled, process, updates, config, failed, removed>>

(* Mutant: stop() waits for a child that was never started. *)
WatchdogStopWaits ==
    /\ pc["d"] = "idle"
    /\ cancelled
    /\ lock = "free"
    /\ lock' = "d"
    /\ term' = TRUE
    /\ Goto("d", "stopping")
    /\ UNCHANGED <<cancelled, failed, handle, child, loaded, crashes, updates,
                   config, removed>>

(* The context is done: stop(), after which the watchdog returns. *)
WatchdogStop ==
    /\ pc["d"] = "idle"
    /\ cancelled
    /\ lock = "free"
    /\ \/ /\ ~handle \/ child = "reaped"
          /\ Fail("d")
          /\ UNCHANGED process
       \/ /\ handle
          /\ child # "reaped"
          /\ lock' = "d"
          /\ term' = TRUE
          /\ Goto("d", "stopping")
          /\ UNCHANGED <<cancelled, failed, handle, child, loaded, crashes>>
    /\ UNCHANGED <<updates, config, removed>>

Watchdog ==
    \/ WatchdogTick
    \/ pc["d"] = "reap" /\ PMWait("d", "restart")
    \/ pc["d"] = "restart" /\ PMRestart("d")
    \/ pc["d"] = "stop" /\ PMStop("d")
    \/ pc["d"] = "wait" /\ PMWait("d", "start")
    \/ pc["d"] = "start" /\ PMStart("d", "idle")
    \/ WatchdogStop
    \/ pc["d"] = "stopping" /\ PMWait("d", "done")

-----------------------------------------------------------------------------
Worker == WorkerPush \/ WorkerReturns \/ ControllerStops

(* wg.Wait() returns. *)
Terminated == \A t \in Threads : pc[t] = "done"

Next ==
    /\ \/ Cancel
       \/ ChildCrashes
       \/ ChildTerminates
       \/ ChildReaped
       \/ Worker
       \/ UpdateLoop
       \/ Watchdog
    /\ UNCHANGED dnsNames

Spec == Init /\ [][Next]_<<dnsNames, vars>>

(* Go runs every goroutine that can run, the ticker fires, and nvidia-imex *)
(* exits on SIGTERM (stop() waits for it without a timeout).  Nobody owes  *)
(* an update, a crash or a shutdown.                                       *)
Fairness ==
    /\ WF_vars(ChildTerminates)
    /\ WF_vars(ChildReaped)
    /\ WF_vars(WorkerReturns \/ ControllerStops)
    /\ WF_vars(UpdateLoop)
    /\ WF_vars(Watchdog)

FairSpec == Spec /\ Fairness

-----------------------------------------------------------------------------
(* Properties *)

(* In wait(), or about to receive from waitResChan as the watchdog is *)
Waiting(t) == pc[t] \in {"wait", "reap"} \/ (t = "d" /\ pc[t] = "stopping")

(* m.handle is set exactly while there is a child that nobody has waited   *)
(* for, and the mutex is held across steps only by a stop() that waits     *)
(* for its child: "it's critical that m.wait() is called at some point     *)
(* during each child's lifecycle" (start).  Nobody waits in vain: there is *)
(* a child, and no other goroutine takes its result from waitResChan.      *)
ProcInv ==
    /\ TypeOK
    /\ handle <=> child # "none"
    /\ \A t \in Threads :
         /\ lock = t <=> Waiting(t) /\ pc[t] # "reap"
         /\ pc[t] = "reap" => t = "d" /\ child = "reaped" /\ lock = "free"
         /\ Waiting(t) => child # "none" /\ \A s \in Threads \ {t} : ~Waiting(s)

(* Between two updates, a running child has read the newest list, however  *)
(* crashes, restarts by the watchdog, SIGUSR1 and updates are interleaved. *)
LoadedCurrent ==
    pc["u"] = "idle" /\ child = "running" => loaded = config

(* A child that terminates unexpectedly is started again (Watchdog), or    *)
(* the daemon is shutting down.                                            *)
CrashRecovery ==
    child \in {"exited", "reaped"} ~> child = "running" \/ cancelled

(* On shutdown the update loop and the watchdog return.                    *)
LoopsTerminate ==
    cancelled ~> pc["u"] = "done" /\ pc["d"] = "done"

(* run(): all tasks terminate on shutdown, after "Attempt to remove this   *)
(* daemon from the CDClique before shutting down" (Stop).  Violated: the   *)
(* worker may be left in the send to updatedDaemonsChan, whose receiver    *)
(* has returned.                                                           *)
ShutdownCompletes == cancelled ~> removed /\ Terminated

=============================================================================
