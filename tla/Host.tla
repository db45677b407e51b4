-------------------------------- MODULE Host --------------------------------
(***************************************************************************)
(* The Host (internal/app/host.go): one Worker generation at a time,       *)
(* started, stopped, replaced and rolled back under three locks.           *)
(*                                                                         *)
(*   switchMu          held by Start, Restart, a context switch, Quit,     *)
(*                     ShutdownForApp and a plugin-fault change for their  *)
(*                     whole call: the record op is that one caller;       *)
(*   workerBoundaryMu  held by requestStop and cleanupWorker: boundary;    *)
(*   mu                held for single reads and writes only: one step.    *)
(*                                                                         *)
(* Cancel takes no switchMu, so it runs beside op: cancelPc.  Every        *)
(* generation has a goroutine (run): pc; one started by Start has a        *)
(* second (runStartup), which may ask for a recovery: watch.               *)
(*                                                                         *)
(* The manager's side of the contract (internal/dshmanager/manager.go) is  *)
(* its mutation guard, its operation gate and its current context.         *)
(*                                                                         *)
(* A step of a goroutine ends where another one could tell that it did:    *)
(* code between two such points, whatever its length, is one action.       *)
(***************************************************************************)
EXTENDS Lifecycle, FiniteSets

CONSTANTS
    MaxGen,         \* bound on the generations of a behaviour
    Operations      \* the calls the environment makes

ASSUME MaxGenAssumption == MaxGen \in Nat \ {0}

\* The calls that go through applyRunContextLocked.
SwitchKind == {"switch", "mutate", "restore", "recover"}
OpKind == SwitchKind \cup {"start", "restart", "quit", "shutdown", "fault"}

ASSUME OperationsAssumption == Operations \subseteq (OpKind \cup {"cancel"})

Gen == 1..MaxGen
None == NoGeneration

VARIABLES
    machine,        \* lifecycle.Machine's status
    current,        \* Host.current
    switching,      \* Host.switching
    switchGuarded,  \* Host.managerSwitchGuarded
    shutdown,       \* Host.shutdownRequested
    exited,         \* ShutdownForApp returned nil
    op,             \* the caller that holds switchMu
    quitting,       \* Quit and ShutdownForApp calls that wait for switchMu
    cancelPc,       \* where Host.Cancel is
    cancelRun,      \* the run Host.Cancel found
    boundary,       \* workerBoundaryMu and the cleanup under it
    pc,             \* where each generation's run goroutine is
    watch,          \* where each generation's runStartup goroutine is
    cancelled,      \* runs whose context is done
    ready,          \* runs whose ready channel is closed
    failed,         \* runs whose result so far is a failure
    pending,        \* runs with a worker and no cleanupDone
    live,           \* runs with managerLive
    guarded,        \* runs with managerGuarded
    faulty,         \* generation of Host.pluginFault
    proc,           \* the process boundary of each generation's Worker
    channel,        \* the channel session of each generation
    mgrSwitching,   \* Manager.switching
    mgrCurrent      \* the generation whose Run context is Manager.current

hostVars == <<current, switching, switchGuarded, shutdown, exited>>
callVars == <<quitting, cancelPc, cancelRun>>
runVars == <<watch, cancelled, ready, failed>>
workerVars == <<pending, live, faulty, proc, channel, mgrCurrent>>
guardVars == <<guarded, mgrSwitching>>
vars == <<machine, hostVars, op, callVars, boundary, pc, runVars, workerVars,
          guardVars>>

\* The run goroutine: resolving and spawning, waiting for readiness, committing
\* the context, serving, asking for and doing the cleanup, and finish.
RunPc == {"unborn", "starting", "waiting", "committing", "running", "cleanup",
          "cleaning", "finish", "complete", "fail", "stop", "release", "done"}

\* Where a holder of switchMu can be: in requestStop, in cleanupWorker, in
\* applyRunContextLocked, or in a call's own code.
StopPc == {"stopPick", "stopLock", "stopGuard"}
CleanPc == {"clean", "cleaning", "cleaned", "cleanFailed"}
SwitchPc == {"swBegin", "swGuard", "swResolve", "swStop", "swStopWait",
             "swPrepare", "swWait", "swDrain", "swDecide", "swEnd", "swRelease"}
OpPc == {"idle", "start", "startWait", "restart", "restartWait", "shutdown",
         "shutdownWait", "fault", "faultWrite"}
            \cup StopPc \cup CleanPc \cup SwitchPc

\* Where the holder of switchMu has a run of its own to deal with.
WithRun == CleanPc \cup {"stopLock", "stopGuard", "startWait", "restartWait",
                        "shutdownWait", "swStop", "swStopWait", "swWait", "swDrain"}

NewOp(kind, at) == [kind |-> kind, pc |-> at, run |-> None, rollback |-> FALSE,
                    ctx |-> "live", caller |-> "live"]
IdleOp == NewOp("none", "idle")

Held(holder, run, step) == [holder |-> holder, run |-> run, step |-> step,
                            failed |-> FALSE]
FreeBoundary == Held("free", None, "none")

Init ==
    /\ machine = NewMachine
    /\ current = None
    /\ switching = FALSE
    /\ switchGuarded = FALSE
    /\ shutdown = FALSE
    /\ exited = FALSE
    /\ op = IdleOp
    /\ quitting = {}
    /\ cancelPc = "idle"
    /\ cancelRun = None
    /\ boundary = FreeBoundary
    /\ pc = [g \in Gen |-> "unborn"]
    /\ watch = [g \in Gen |-> "none"]
    /\ cancelled = {}
    /\ ready = {}
    /\ failed = {}
    /\ pending = {}
    /\ live = {}
    /\ guarded = {}
    /\ faulty = None
    /\ proc = [g \in Gen |-> "none"]
    /\ channel = [g \in Gen |-> "open"]
    /\ mgrSwitching = FALSE
    /\ mgrCurrent = None

-----------------------------------------------------------------------------
(* Reading the state.                                                      *)

Done(g) == pc[g] = "done"

\* Manager.operationGate: CommitHealthy and a plugin-fault change hold it.
GateFree == op.pc # "faultWrite" /\ \A g \in Gen : pc[g] # "committing"

\* BeginStart for a new run; a start past the bound is refused the way a start
\* of an active Machine is.
CanStartRun == CanBeginStart(machine) /\ machine.gen < MaxGen
NextGen == machine.gen + 1

\* The holder of switchMu goes on, with its run or another one, or returns.
OpGoto(to) == op' = [op EXCEPT !.pc = to]
OpPick(to, g) == op' = [op EXCEPT !.pc = to, !.run = g]
OpReturn == op' = IdleOp

\* beginRunLocked: a new generation becomes the Host's current run.
BeginRun(watched) ==
    /\ machine' = BeginStart(machine)
    /\ current' = NextGen
    /\ pc' = [pc EXCEPT ![NextGen] = "starting"]
    /\ watch' = [watch EXCEPT ![NextGen] = IF watched THEN "ready" ELSE "none"]

-----------------------------------------------------------------------------
(* The manager's mutation guard on behalf of a stopping run.               *)

\* beginManagerStopGuard returns at once for a run that has a guard and for a
\* switch that has one.
HasStopGuard(g) == g \in guarded \/ (switching /\ switchGuarded)

\* BeginRunContextSwitch refuses a second guard.
CanTakeStopGuard(g) == ~HasStopGuard(g) /\ ~switching /\ ~mgrSwitching

\* A guard of its own comes only once the operation gate is free.
BeginManagerStopGuard(g) ==
    IF CanTakeStopGuard(g)
    THEN /\ GateFree
         /\ mgrSwitching' = TRUE
         /\ guarded' = guarded \cup {g}
    ELSE UNCHANGED guardVars

StopGuardAvailable(g) == HasStopGuard(g) \/ CanTakeStopGuard(g)

\* Mutant: the guard ends even for a run that never took it.
ReleaseAnyGuard(g) ==
    /\ guarded' = guarded \ {g}
    /\ mgrSwitching' = FALSE

\* releaseManagerStopGuard: takeManagerGuarded, then EndRunContextSwitch.
ReleaseManagerStopGuard(g) ==
    /\ guarded' = guarded \ {g}
    /\ mgrSwitching' = (mgrSwitching /\ g \notin guarded)

-----------------------------------------------------------------------------
(* The goroutine of a generation (Host.run).                               *)

Goto(g, to) == pc' = [pc EXCEPT ![g] = to]

\* The run goes on to cleanupWorker or to finish with the result it has.
Result(g, to, fails) ==
    /\ Goto(g, to)
    /\ failed' = IF fails THEN failed \cup {g} ELSE failed

\* startWorker: the phases, the resolution and the checks end in a process in
\* its own boundary, in a failure (a status that left Starting is one too), or,
\* at either checkCancelled, in neither.
RunStartWorker(g) ==
    /\ pc[g] = "starting"
    /\ \/ g \in cancelled /\ Result(g, "finish", FALSE) /\ UNCHANGED <<pending, proc>>
       \/ Result(g, "finish", TRUE) /\ UNCHANGED <<pending, proc>>
       \/ /\ g \notin cancelled
          /\ CanSetPhase(machine, g)
          /\ proc' = [proc EXCEPT ![g] = "alive"]
          /\ pending' = pending \cup {g}
          /\ Result(g, "waiting", FALSE)
    /\ UNCHANGED <<machine, hostVars, op, callVars, boundary, watch, cancelled,
                   ready, live, faulty, channel, mgrCurrent, guardVars>>

\* Mutant: readiness is published before the context is committed.
RunWaitReadyEarly(g) ==
    /\ pc[g] = "waiting"
    /\ \/ Result(g, "cleanup", TRUE) /\ UNCHANGED machine
       \/ /\ CanMarkReady(machine, g)
          /\ machine' = MarkReady(machine)
          /\ GateFree
          /\ Result(g, "committing", FALSE)
    /\ UNCHANGED <<hostVars, op, callVars, boundary, watch, cancelled, ready,
                   workerVars, guardVars>>

\* waitReady, probeUntilReady and waitWebBoot, then CommitHealthy up to the
\* operation gate.  A cancellation ends the wait without a failure, or with one
\* when it interrupts the probe (startChannel returns the context's error); the
\* process's exit, a rejected origin, a boot error and the deadline are failures.
RunWaitReady(g) ==
    /\ pc[g] = "waiting"
    /\ \/ g \in cancelled /\ Result(g, "cleanup", FALSE)
       \/ Result(g, "cleanup", TRUE)
       \/ /\ g \notin cancelled
          /\ CanSetPhase(machine, g)
          /\ GateFree
          /\ Result(g, "committing", FALSE)
    /\ UNCHANGED <<machine, hostVars, op, callVars, boundary, watch, cancelled,
                   ready, workerVars, guardVars>>

\* commitReady with the gate held.  CommitHealthy refuses when another context
\* is current; otherwise the context is current whether or not the version
\* record could be saved, and MarkReady publishes the generation or is refused.
RunCommitReady(g) ==
    /\ pc[g] = "committing"
    /\ IF mgrCurrent \notin {None, g}
       THEN /\ Result(g, "cleanup", g \notin cancelled)
            /\ UNCHANGED <<machine, ready, live, mgrCurrent>>
       ELSE /\ mgrCurrent' = g
            /\ live' = live \cup {g}
            /\ IF CanMarkReady(machine, g)
               THEN /\ machine' = MarkReady(machine)
                    /\ ready' = ready \cup {g}
                    /\ Result(g, "running", FALSE)
               ELSE /\ Result(g, "cleanup", g \notin cancelled)
                    /\ UNCHANGED <<machine, ready>>
    /\ UNCHANGED <<hostVars, op, callVars, boundary, watch, cancelled, pending,
                   faulty, proc, channel, guardVars>>

\* Mutant: a serving run ends only with its process.
RunServeExitOnly(g) ==
    /\ pc[g] = "running"
    /\ proc[g] = "exited" /\ Result(g, "cleanup", TRUE)
    /\ UNCHANGED <<machine, hostVars, op, callVars, boundary, watch, cancelled,
                   ready, workerVars, guardVars>>

\* run's last select: a stop request, or an exit nobody asked for.
RunServe(g) ==
    /\ pc[g] = "running"
    /\ \/ g \in cancelled /\ Result(g, "cleanup", FALSE)
       \/ proc[g] = "exited" /\ Result(g, "cleanup", TRUE)
    /\ UNCHANGED <<machine, hostVars, op, callVars, boundary, watch, cancelled,
                   ready, workerVars, guardVars>>

\* The Worker's process ends by itself; descendants may stay in the boundary.
WorkerExit(g) ==
    /\ proc[g] = "alive"
    /\ proc' = [proc EXCEPT ![g] = "exited"]
    /\ UNCHANGED <<machine, hostVars, op, callVars, boundary, pc, runVars,
                   pending, live, faulty, channel, mgrCurrent, guardVars>>

-----------------------------------------------------------------------------
(* cleanupWorker, called by the run itself or by the holder of switchMu.    *)

\* recordPluginFault: a failed start offers its plugins whatever its cleanup
\* did; a Worker lost after readiness only once its cleanup is verified.
RecordPluginFault(g, ok) ==
    faulty' = IF g \in failed /\ (ok \/ g \notin ready) THEN g ELSE faulty

\* The run asks for the boundary and the guard; without the guard it gives up
\* with a failure and leaves its Worker to a later attempt.
RunCleanupBegin(g) ==
    /\ pc[g] = "cleanup"
    /\ boundary.holder = "free"
    /\ \/ /\ StopGuardAvailable(g)
          /\ BeginManagerStopGuard(g)
          /\ boundary' = Held("run", g, "detach")
          /\ Result(g, "cleaning", FALSE)
          /\ UNCHANGED faulty
       \/ /\ ~StopGuardAvailable(g)
          /\ Result(g, "finish", TRUE)
          /\ RecordPluginFault(g, FALSE)
          /\ UNCHANGED <<boundary, guardVars>>
    /\ UNCHANGED <<machine, hostVars, op, callVars, watch, cancelled, ready,
                   pending, live, proc, channel, mgrCurrent>>

OpCleanupBegin ==
    /\ op.pc = "clean"
    /\ boundary.holder = "free"
    /\ \/ /\ StopGuardAvailable(op.run)
          /\ BeginManagerStopGuard(op.run)
          /\ boundary' = Held("op", op.run, "detach")
          /\ OpGoto("cleaning")
       \/ /\ ~StopGuardAvailable(op.run)
          /\ OpGoto("cleanFailed")
          /\ UNCHANGED <<boundary, guardVars>>
    /\ UNCHANGED <<machine, hostVars, callVars, pc, runVars, workerVars>>

\* closeChannel: the session closes once and every later Close repeats the
\* first one's error.
CloseResult(g) ==
    IF channel[g] = "open" THEN {"closed", "stuck"} ELSE {channel[g]}

\* clearCurrent and closeChannel, each with its failure remembered.
CleanupDetach ==
    LET g == boundary.run IN
    /\ boundary.step = "detach"
    /\ \E cleared \in IF g \in live THEN BOOLEAN ELSE {TRUE},
          closing \in CloseResult(g) :
          /\ live' = IF cleared THEN live \ {g} ELSE live
          /\ mgrCurrent' = IF cleared /\ g \in live THEN None ELSE mgrCurrent
          /\ channel' = [channel EXCEPT ![g] = closing]
          /\ boundary' = [boundary EXCEPT
                            !.step = "drain",
                            !.failed = ~cleared \/ closing = "stuck"]
    /\ UNCHANGED <<machine, hostVars, op, callVars, pc, runVars, pending,
                   faulty, proc, guardVars>>

\* Mutant: only the process boundary counts.
CleanupOkByBoundary(empty, clean) == empty /\ clean

\* The boundary counts as cleaned up only if nothing on the way failed.
CleanupOk(empty, clean) == empty /\ clean /\ ~boundary.failed

\* The graceful and the forced stop, WaitEmpty and Close.  The boundary is
\* reported empty or not; a stop or a close that failed is remembered too.
CleanupDrain ==
    LET g == boundary.run IN
    /\ boundary.step = "drain"
    /\ \E empty, clean \in BOOLEAN :
          LET ok == CleanupOk(empty, clean) IN
          /\ proc' = IF empty THEN [proc EXCEPT ![g] = "none"] ELSE proc
          /\ pending' = IF ok THEN pending \ {g} ELSE pending
          /\ IF boundary.holder = "run"
             THEN /\ Result(g, "finish", ~ok)
                  /\ RecordPluginFault(g, ok)
                  /\ UNCHANGED op
             ELSE /\ OpGoto(IF ok THEN "cleaned" ELSE "cleanFailed")
                  /\ UNCHANGED <<pc, failed, faulty>>
    /\ boundary' = FreeBoundary
    /\ UNCHANGED <<machine, hostVars, callVars, watch, cancelled, ready, live,
                   channel, mgrCurrent, guardVars>>

-----------------------------------------------------------------------------
(* finish: the result of a generation reaches the status first, then the   *)
(* guard and Host.current, each under a lock of its own.                   *)

\* The snapshot decides which transition finish asks for.
RunFinish(g) ==
    /\ pc[g] = "finish"
    /\ \/ machine.gen # g /\ Goto(g, "done")
       \/ machine.gen = g /\ machine.state = "Stopping" /\ Goto(g, "complete")
       \/ /\ machine.gen = g /\ machine.state # "Stopping"
          /\ Goto(g, IF g \in failed THEN "fail" ELSE "stop")
    /\ UNCHANGED <<machine, hostVars, op, callVars, boundary, runVars,
                   workerVars, guardVars>>

\* The transition, when the Machine still accepts it; an error is dropped.
FinishedStatus(g) ==
    CASE pc[g] = "complete" /\ CanCompleteStop(machine, g) ->
             CompleteStop(machine, g \in failed)
      [] pc[g] = "fail" /\ CanFail(machine, g) -> Fail(machine)
      [] pc[g] = "stop" /\ CanBeginStop(machine, g) ->
             CompleteStop(BeginStop(machine), FALSE)
      [] OTHER -> machine

RunFinishStatus(g) ==
    /\ pc[g] \in {"complete", "fail", "stop"}
    /\ machine' = FinishedStatus(g)
    /\ Goto(g, "release")
    /\ UNCHANGED <<hostVars, op, callVars, boundary, runVars, workerVars,
                   guardVars>>

\* Mutant: finish always lets the run go.
NeverKeepOwner(g) == FALSE

\* A failed run with a pending cleanup stays current: it owns the cleanup.
KeepCleanupOwner(g) == g \in failed /\ g \in pending

\* The guard, Host.current and signalReady; then run's deferred function ends
\* the context, closes the channel and closes done.
RunFinishRelease(g) ==
    /\ pc[g] = "release"
    /\ IF g \in pending
       THEN UNCHANGED guardVars
       ELSE ReleaseManagerStopGuard(g)
    /\ current' = IF current = g /\ ~KeepCleanupOwner(g) THEN None ELSE current
    /\ ready' = ready \cup {g}
    /\ cancelled' = cancelled \cup {g}
    /\ failed' = failed \ {g}
    /\ \E closing \in IF g \in pending THEN CloseResult(g) ELSE {"closed"} :
          channel' = [channel EXCEPT ![g] = closing]
    /\ Goto(g, "done")
    /\ UNCHANGED <<machine, switching, switchGuarded, shutdown, exited, op,
                   callVars, boundary, watch, pending, live, faulty, proc,
                   mgrCurrent>>

-----------------------------------------------------------------------------
(* Calls that take switchMu.  Only the holder's own steps change op.       *)

\* The lock is free and a caller gets it.
OpTake(kind, first) ==
    /\ op.kind = "none"
    /\ kind \in Operations
    /\ ~exited
    /\ op' = NewOp(kind, first)

\* Start; Restart, and RestartGeneration for a Ready generation that asks for
\* itself; a change of a failed profile's plugins; a switch, a switch with a
\* plugin change, or the restore of a version point.
Call ==
    /\ \/ OpTake("start", "start")
       \/ OpTake("restart", "restart")
       \/ OpTake("fault", "fault")
       \/ \E kind \in SwitchKind \ {"recover"} : OpTake(kind, "swBegin")
    /\ UNCHANGED <<machine, hostVars, callVars, boundary, pc, runVars,
                   workerVars, guardVars>>

\* start with a current run: its cleanup is retried when it is done, and its end
\* is waited for when only its status is final.
StartOver(g) ==
    \/ Done(g) /\ g \in pending /\ OpPick("clean", g)
    \/ ~Done(g) /\ machine.state \in {"Failed", "Stopped"} /\ OpPick("startWait", g)
    \/ /\ IF Done(g) THEN g \notin pending
          ELSE machine.state \notin {"Failed", "Stopped"}
       /\ OpReturn

\* start's loop body, under mu: begin a run, look at the current one, or refuse.
Start ==
    /\ op.pc = "start"
    /\ \/ /\ ~shutdown /\ current = None /\ CanStartRun
          /\ BeginRun(TRUE)
          /\ OpReturn
       \/ /\ \/ ~shutdown /\ current # None /\ StartOver(current)
             \/ (shutdown \/ (current = None /\ ~CanStartRun)) /\ OpReturn
          /\ UNCHANGED <<machine, current, pc, watch>>
    /\ UNCHANGED <<switching, switchGuarded, shutdown, exited, callVars,
                   boundary, cancelled, ready, failed, workerVars, guardVars>>

\* runReleaseWait: the finished generation releases itself or start returns.
StartWait ==
    /\ op.pc = "startWait"
    /\ IF Done(op.run) THEN OpGoto("start") ELSE OpReturn
    /\ UNCHANGED <<machine, hostVars, callVars, boundary, pc, runVars,
                   workerVars, guardVars>>

\* Mutant: start goes on although its cleanup failed.
StartCleanedAnyway ==
    /\ op.kind \in {"start", "restart"}
    /\ op.pc \in {"cleaned", "cleanFailed"}
    /\ ReleaseManagerStopGuard(op.run)
    /\ current' = IF current = op.run THEN None ELSE current
    /\ OpGoto("start")
    /\ UNCHANGED <<machine, switching, switchGuarded, shutdown, exited,
                   callVars, boundary, pc, runVars, workerVars>>

\* start after its cleanup of a run that could not be cleaned up before.
StartCleaned ==
    /\ op.kind \in {"start", "restart"}
    /\ \/ /\ op.pc = "cleaned"
          /\ ReleaseManagerStopGuard(op.run)
          /\ current' = IF current = op.run THEN None ELSE current
          /\ OpGoto("start")
       \/ /\ op.pc = "cleanFailed"
          /\ OpReturn
          /\ UNCHANGED <<current, guardVars>>
    /\ UNCHANGED <<machine, switching, switchGuarded, shutdown, exited,
                   callVars, boundary, pc, runVars, workerVars>>

\* restartLocked up to requestStop.
Restart ==
    /\ op.pc = "restart"
    /\ \/ shutdown /\ OpReturn
       \/ ~shutdown /\ current = None /\ OpGoto("start")
       \/ ~shutdown /\ current # None /\ OpPick("stopPick", current)
    /\ UNCHANGED <<machine, hostVars, callVars, boundary, pc, runVars,
                   workerVars, guardVars>>

\* What the callers of requestStop do next.
AfterStop ==
    \/ op.kind = "restart" /\ OpGoto("restartWait")
    \/ op.kind = "quit" /\ OpReturn
    \/ op.kind = "shutdown" /\ OpGoto("shutdownWait")

\* requestStop reads the active run a second time.
OpStopPick ==
    /\ op.pc = "stopPick"
    /\ \/ current = None /\ AfterStop
       \/ current # None /\ OpPick("stopLock", current)
    /\ UNCHANGED <<machine, hostVars, callVars, boundary, pc, runVars,
                   workerVars, guardVars>>

\* requestStop under workerBoundaryMu: a refused BeginStop returns at once, an
\* accepted one cancels the run before it waits for the manager's guard.
OpStopLock ==
    /\ op.pc = "stopLock"
    /\ boundary.holder = "free"
    /\ IF CanBeginStop(machine, op.run)
       THEN /\ machine' = BeginStop(machine)
            /\ cancelled' = cancelled \cup {op.run}
            /\ boundary' = Held("op", op.run, "none")
            /\ OpGoto("stopGuard")
       ELSE AfterStop /\ UNCHANGED <<machine, cancelled, boundary>>
    /\ UNCHANGED <<hostVars, callVars, pc, watch, ready, failed, workerVars,
                   guardVars>>

\* Mutant: requestStop returns without unlocking the boundary.
OpStopGuardLocked ==
    /\ op.pc = "stopGuard"
    /\ BeginManagerStopGuard(op.run)
    /\ UNCHANGED boundary
    /\ AfterStop
    /\ UNCHANGED <<machine, hostVars, callVars, pc, runVars, workerVars>>

OpStopGuard ==
    /\ op.pc = "stopGuard"
    /\ BeginManagerStopGuard(op.run)
    /\ boundary' = FreeBoundary
    /\ AfterStop
    /\ UNCHANGED <<machine, hostVars, callVars, pc, runVars, workerVars>>

\* restartLocked after requestStop: the run ends or the timer fires.
RestartWait ==
    /\ op.pc = "restartWait"
    /\ \/ /\ Done(op.run)
          /\ IF op.run \in pending \/ shutdown THEN OpReturn ELSE OpGoto("start")
       \/ ~Done(op.run) /\ OpReturn
    /\ UNCHANGED <<machine, hostVars, callVars, boundary, pc, runVars,
                   workerVars, guardVars>>

\* actOnFaultPlugins: only the failure the Host is still in offers its plugins;
\* then the manager's gate and requireNoCurrentRunContext.
FaultBegin ==
    /\ op.pc = "fault"
    /\ IF /\ ~shutdown
          /\ machine.state = "Failed"
          /\ faulty = machine.gen
       THEN /\ GateFree
            /\ IF mgrCurrent = None THEN OpGoto("faultWrite") ELSE OpReturn
       ELSE OpReturn
    /\ UNCHANGED <<machine, hostVars, callVars, boundary, pc, runVars,
                   workerVars, guardVars>>

\* The write to the profile is over.
FaultEnd ==
    /\ op.pc = "faultWrite"
    /\ OpReturn
    /\ UNCHANGED <<machine, hostVars, callVars, boundary, pc, runVars,
                   workerVars, guardVars>>

-----------------------------------------------------------------------------
(* Quit and ShutdownForApp.                                                *)

\* versionCancel is installed shortly before BeginRunContextSwitch and until
\* the switch is over; the rollback installs its own.
CancelVersionOperation ==
    IF op.kind \in SwitchKind /\ op.pc \notin {"swBegin", "swRelease"}
    THEN \/ op' = [op EXCEPT !.ctx = "cancelled"]
         \/ op.pc = "swGuard" /\ UNCHANGED op
    ELSE UNCHANGED op

\* Both raise shutdownRequested before they wait for switchMu.
QuitCall ==
    /\ "quit" \in Operations \ quitting
    /\ ~exited
    /\ shutdown' = TRUE
    /\ CancelVersionOperation
    /\ quitting' = quitting \cup {"quit"}
    /\ UNCHANGED <<machine, current, switching, switchGuarded, exited, cancelPc,
                   cancelRun, boundary, pc, runVars, workerVars, guardVars>>

ShutdownCall ==
    /\ "shutdown" \in Operations \ quitting
    /\ ~exited
    /\ shutdown' = TRUE
    /\ quitting' = quitting \cup {"shutdown"}
    /\ UNCHANGED <<machine, current, switching, switchGuarded, exited, op,
                   cancelPc, cancelRun, boundary, pc, runVars, workerVars,
                   guardVars>>

\* Quit under switchMu is one requestStop.
QuitLocked(kind) ==
    /\ kind \in quitting
    /\ OpTake(kind, IF kind = "quit" THEN "stopPick" ELSE "shutdown")
    /\ quitting' = quitting \ {kind}
    /\ UNCHANGED <<machine, hostVars, cancelPc, cancelRun, boundary, pc,
                   runVars, workerVars, guardVars>>

\* ShutdownForApp returned nil.
ShutdownComplete ==
    /\ exited' = TRUE
    /\ OpReturn
    /\ UNCHANGED machine

\* Mutant: a run that is done counts as cleaned up.
ShutdownDoneAnyway(g) == ShutdownComplete

\* The branch for a run that is done: shutdownPendingRun begins with BeginStop.
ShutdownDone(g) ==
    IF g \in pending
    THEN /\ OpPick("clean", g)
         /\ machine' = IF CanBeginStop(machine, g) THEN BeginStop(machine)
                       ELSE machine
         /\ UNCHANGED exited
    ELSE ShutdownComplete

ShutdownRun ==
    /\ op.pc = "shutdown"
    /\ \/ current = None /\ ShutdownComplete
       \/ current # None /\ Done(current) /\ ShutdownDone(current)
       \/ /\ current # None /\ ~Done(current)
          /\ OpPick("stopPick", current)
          /\ UNCHANGED <<machine, exited>>
    /\ UNCHANGED <<current, switching, switchGuarded, shutdown, callVars,
                   boundary, pc, runVars, workerVars, guardVars>>

\* Mutant: a shutdown that times out leaves shutdownRequested raised.
ShutdownWaitSticky ==
    /\ op.pc = "shutdownWait"
    /\ \/ Done(op.run) /\ ShutdownDone(op.run)
       \/ ~Done(op.run) /\ OpReturn /\ UNCHANGED <<machine, exited>>
    /\ UNCHANGED <<current, switching, switchGuarded, shutdown, callVars,
                   boundary, pc, runVars, workerVars, guardVars>>

\* A shutdown that times out takes shutdownRequested back.
ShutdownWait ==
    /\ op.pc = "shutdownWait"
    /\ \/ Done(op.run) /\ ShutdownDone(op.run) /\ UNCHANGED shutdown
       \/ /\ ~Done(op.run)
          /\ shutdown' = FALSE
          /\ OpReturn
          /\ UNCHANGED <<machine, exited>>
    /\ UNCHANGED <<current, switching, switchGuarded, callVars, boundary, pc,
                   runVars, workerVars, guardVars>>

\* shutdownPendingRun after its cleanup: the stop completes, or finish keeps
\* the run as the cleanup's owner and shutdownRequested is taken back.
ShutdownCleaned ==
    /\ op.kind = "shutdown"
    /\ \/ /\ op.pc = "cleaned"
          /\ ReleaseManagerStopGuard(op.run)
          /\ IF CanCompleteStop(machine, op.run)
             THEN /\ machine' = CompleteStop(machine, FALSE)
                  /\ current' = IF current = op.run THEN None ELSE current
                  /\ exited' = TRUE
                  /\ UNCHANGED shutdown
             ELSE shutdown' = FALSE /\ UNCHANGED <<machine, current, exited>>
       \/ /\ op.pc = "cleanFailed"
          /\ machine' = CASE CanCompleteStop(machine, op.run) ->
                                CompleteStop(machine, TRUE)
                          [] CanFail(machine, op.run) -> Fail(machine)
                          [] OTHER -> machine
          /\ shutdown' = FALSE
          /\ UNCHANGED <<current, exited, guardVars>>
    /\ OpReturn
    /\ UNCHANGED <<switching, switchGuarded, callVars, boundary, pc, runVars,
                   workerVars>>

-----------------------------------------------------------------------------
(* Cancel: no switchMu, so its steps interleave with the holder's.         *)

\* cancelVersionOperation, and requestStop as far as its look at switching.
Cancel ==
    /\ "cancel" \in Operations
    /\ ~exited
    /\ cancelPc = "idle"
    /\ CancelVersionOperation
    /\ cancelPc' = IF switching THEN "idle" ELSE "pick"
    /\ UNCHANGED <<machine, hostVars, quitting, cancelRun, boundary, pc,
                   runVars, workerVars, guardVars>>

CancelPick ==
    /\ cancelPc = "pick"
    /\ cancelRun' = current
    /\ cancelPc' = IF current = None THEN "idle" ELSE "lock"
    /\ UNCHANGED <<machine, hostVars, op, quitting, boundary, pc, runVars,
                   workerVars, guardVars>>

CancelLock ==
    /\ cancelPc = "lock"
    /\ boundary.holder = "free"
    /\ IF CanBeginStop(machine, cancelRun)
       THEN /\ machine' = BeginStop(machine)
            /\ cancelled' = cancelled \cup {cancelRun}
            /\ boundary' = Held("cancel", cancelRun, "none")
            /\ cancelPc' = "guard"
            /\ UNCHANGED cancelRun
       ELSE /\ cancelPc' = "idle"
            /\ cancelRun' = None
            /\ UNCHANGED <<machine, cancelled, boundary>>
    /\ UNCHANGED <<hostVars, op, quitting, pc, watch, ready, failed, workerVars,
                   guardVars>>

CancelGuard ==
    /\ cancelPc = "guard"
    /\ BeginManagerStopGuard(cancelRun)
    /\ boundary' = FreeBoundary
    /\ cancelPc' = "idle"
    /\ cancelRun' = None
    /\ UNCHANGED <<machine, hostVars, op, quitting, pc, runVars, workerVars>>

-----------------------------------------------------------------------------
(* applyRunContextLocked: a switch, a switch with a plugin change, the      *)
(* restore of a version point, or the recovery of a failed startup.         *)

\* runStartup's request, once it gets the lock.
RecoverCall(g) ==
    /\ watch[g] = "recover"
    /\ OpTake("recover", "swBegin")
    /\ watch' = [watch EXCEPT ![g] = "none"]
    /\ UNCHANGED <<machine, hostVars, callVars, boundary, pc, cancelled, ready,
                   failed, workerVars, guardVars>>

\* Mutant: a recovery begins whatever the status has become.
SwitchBeginStale ==
    /\ op.pc = "swBegin"
    /\ IF shutdown
       THEN OpReturn /\ UNCHANGED switching
       ELSE OpGoto("swGuard") /\ switching' = TRUE
    /\ UNCHANGED <<machine, current, switchGuarded, shutdown, exited, callVars,
                   boundary, pc, runVars, workerVars, guardVars>>

\* The early returns, then Host.switching.
SwitchBegin ==
    /\ op.pc = "swBegin"
    /\ IF \/ shutdown
          \/ op.kind = "recover" /\ machine.state # "Failed"
          \/ op.kind = "mutate" /\ (machine.state # "Ready" \/ mgrCurrent = None)
       THEN OpReturn /\ UNCHANGED switching
       ELSE OpGoto("swGuard") /\ switching' = TRUE
    /\ UNCHANGED <<machine, current, switchGuarded, shutdown, exited, callVars,
                   boundary, pc, runVars, workerVars, guardVars>>

\* BeginRunContextSwitch fails for a done context and for a guard already held.
SwitchGuard ==
    /\ op.pc = "swGuard"
    /\ IF op.ctx = "cancelled" \/ mgrSwitching
       THEN /\ OpReturn
            /\ switching' = FALSE
            /\ UNCHANGED <<switchGuarded, mgrSwitching>>
       ELSE /\ GateFree
            /\ mgrSwitching' = TRUE
            /\ switchGuarded' = TRUE
            /\ OpGoto("swResolve")
            /\ UNCHANGED switching
    /\ UNCHANGED <<machine, current, shutdown, exited, callVars, boundary, pc,
                   runVars, workerVars, guarded>>

\* A recovery is a failed candidate already; the others still make their own.
ToCandidate == IF op.kind = "recover" THEN "swDecide" ELSE "swPrepare"

\* The active run is read once.  A target that does not resolve ends the switch
\* before it touches a Worker; without one it counts as a failed candidate.
SwitchResolve ==
    /\ op.pc = "swResolve"
    /\ \/ op.kind \in {"switch", "mutate"}
          /\ OpGoto(IF current # None THEN "swEnd" ELSE "swDecide")
       \/ current # None /\ OpPick("swStop", current)
       \/ current = None /\ OpGoto(ToCandidate)
    /\ UNCHANGED <<machine, hostVars, callVars, boundary, pc, runVars,
                   workerVars, guardVars>>

\* stopRun, without the boundary lock: the stop and the cancellation.
SwitchStop ==
    /\ op.pc = "swStop"
    /\ IF CanBeginStop(machine, op.run)
       THEN /\ machine' = BeginStop(machine)
            /\ cancelled' = cancelled \cup {op.run}
            /\ OpGoto("swStopWait")
       ELSE OpGoto("swEnd") /\ UNCHANGED <<machine, cancelled>>
    /\ UNCHANGED <<hostVars, callVars, boundary, pc, watch, ready, failed,
                   workerVars, guardVars>>

\* The old generation is gone; a stop that ended in Failed ends the switch.
AfterOldRun(status) == IF status.state = "Failed" THEN "swEnd" ELSE ToCandidate

\* stopRun waits for the run; its context's end leaves the run behind.
SwitchStopWait ==
    /\ op.pc = "swStopWait"
    /\ \/ /\ Done(op.run)
          /\ OpGoto(IF op.run \in pending THEN "clean" ELSE AfterOldRun(machine))
       \/ ~Done(op.run) /\ OpGoto("swEnd")
    /\ UNCHANGED <<machine, hostVars, callVars, boundary, pc, runVars,
                   workerVars, guardVars>>

\* Mutant: stopRun lets the old run go although its cleanup failed.
SwitchCleanedAnyway ==
    /\ op.kind \in SwitchKind
    /\ op.pc \in {"cleaned", "cleanFailed"}
    /\ machine' = IF CanBeginStop(machine, op.run)
                  THEN CompleteStop(BeginStop(machine), FALSE) ELSE machine
    /\ current' = IF current = op.run THEN None ELSE current
    /\ OpGoto(AfterOldRun(machine'))
    /\ UNCHANGED <<switching, switchGuarded, shutdown, exited, callVars,
                   boundary, pc, runVars, workerVars, guardVars>>

\* stopRun after its own cleanup of a run that had failed to clean up.
SwitchCleaned ==
    /\ op.kind \in SwitchKind
    /\ \/ /\ op.pc = "cleaned"
          /\ machine' = IF CanBeginStop(machine, op.run)
                        THEN CompleteStop(BeginStop(machine), FALSE) ELSE machine
          /\ current' = IF current = op.run THEN None ELSE current
          /\ OpGoto(AfterOldRun(machine'))
       \/ /\ op.pc = "cleanFailed"
          /\ OpGoto("swEnd")
          /\ UNCHANGED <<machine, current>>
    /\ UNCHANGED <<switching, switchGuarded, shutdown, exited, callVars,
                   boundary, pc, runVars, workerVars, guardVars>>

\* waitForRun follows the new run; a rollback does so under a context of its own.
OpFollow(rollback) ==
    op' = [op EXCEPT !.pc = "swWait", !.run = NextGen, !.rollback = rollback,
                     !.ctx = IF rollback THEN "live" ELSE @]

\* Mutant: a run the Host still owns does not stop a new one.
RunOverOwned(rollback, otherwise) ==
    IF CanStartRun
    THEN /\ BeginRun(FALSE)
         /\ OpFollow(rollback)
    ELSE OpGoto(otherwise) /\ UNCHANGED <<machine, current, pc, watch>>

\* runResolvedContext: a new generation unless the Host still owns one, or the
\* Machine refuses it.
RunResolvedContext(rollback, otherwise) ==
    IF current = None /\ CanStartRun
    THEN /\ BeginRun(FALSE)
         /\ OpFollow(rollback)
    ELSE OpGoto(otherwise) /\ UNCHANGED <<machine, current, pc, watch>>

\* RecoverVersionPoint, the plugin change or PrepareRunContext, each of which
\* may fail; then the candidate.
SwitchPrepare ==
    /\ op.pc = "swPrepare"
    /\ \/ RunResolvedContext(FALSE, "swDecide")
       \/ OpGoto("swDecide") /\ UNCHANGED <<machine, current, pc, watch>>
    /\ UNCHANGED <<switching, switchGuarded, shutdown, exited, callVars,
                   boundary, cancelled, ready, failed, workerVars, guardVars>>

\* waitForRun: ready is closed by readiness and by finish, and the status read
\* after it decides; the end of the context cancels the run.
SwitchWait ==
    /\ op.pc = "swWait"
    /\ \/ /\ op.run \in ready
          /\ OpGoto(IF machine.state = "Ready" \/ op.rollback
                    THEN "swEnd" ELSE "swDecide")
          /\ UNCHANGED cancelled
       \/ /\ cancelled' = cancelled \cup {op.run}
          /\ OpGoto("swDrain")
    /\ UNCHANGED <<machine, hostVars, callVars, boundary, pc, watch, ready,
                   failed, workerVars, guardVars>>

\* waitForRun after the cancellation: the run ends or the timer fires.
SwitchDrain ==
    /\ op.pc = "swDrain"
    /\ OpGoto(IF op.rollback THEN "swEnd" ELSE "swDecide")
    /\ UNCHANGED <<machine, hostVars, callVars, boundary, pc, runVars,
                   workerVars, guardVars>>

\* The failed candidate: rollback is left out for a cancelled caller, for a
\* restore, by preference and for want of a point, and refused while the
\* candidate's cleanup is pending.  Its context outlives the caller's.
MayRollBack ==
    /\ op.caller = "live"
    /\ op.kind # "restore"
    /\ current \notin pending

SwitchDecide ==
    /\ op.pc = "swDecide"
    /\ \/ OpGoto("swEnd") /\ UNCHANGED <<machine, current, pc, watch>>
       \/ MayRollBack /\ RunResolvedContext(TRUE, "swEnd")
    /\ UNCHANGED <<switching, switchGuarded, shutdown, exited, callVars,
                   boundary, cancelled, ready, failed, workerVars, guardVars>>

\* The request that asked for the switch is cancelled by its own caller.
CallerCancel ==
    /\ op.kind \in SwitchKind \ {"recover"}
    /\ op.pc \notin {"swBegin", "swRelease"}
    /\ op.caller = "live"
    /\ op' = [op EXCEPT !.caller = "cancelled", !.ctx = "cancelled"]
    /\ UNCHANGED <<machine, hostVars, callVars, boundary, pc, runVars,
                   workerVars, guardVars>>

\* The deferred function: a run whose cleanup is pending in a stopping or
\* failed Host inherits the guard; otherwise the guard ends here.
KeepGuard ==
    /\ current \in pending
    /\ current \in cancelled \/ machine.state \in {"Stopping", "Failed"}

SwitchEnd ==
    /\ op.pc = "swEnd"
    /\ IF KeepGuard
       THEN guarded' = guarded \cup {current} /\ UNCHANGED mgrSwitching
       ELSE mgrSwitching' = FALSE /\ UNCHANGED guarded
    /\ OpGoto("swRelease")
    /\ UNCHANGED <<machine, hostVars, callVars, boundary, pc, runVars,
                   workerVars>>

SwitchRelease ==
    /\ op.pc = "swRelease"
    /\ switchGuarded' = FALSE
    /\ switching' = FALSE
    /\ OpReturn
    /\ UNCHANGED <<machine, current, shutdown, exited, callVars, boundary, pc,
                   runVars, workerVars, guardVars>>

-----------------------------------------------------------------------------
(* runStartup: the second goroutine of a generation Start began.           *)

WatchReady(g) ==
    /\ watch[g] = "ready"
    /\ g \in ready
    /\ watch' = [watch EXCEPT ![g] = IF machine.state = "Ready" THEN "none" ELSE "done"]
    /\ UNCHANGED <<machine, hostVars, op, callVars, boundary, pc, cancelled,
                   ready, failed, workerVars, guardVars>>

\* A failed start asks for the recovery when a configured and a known-good
\* context exist.
WatchDone(g) ==
    /\ watch[g] \in {"ready", "done"}
    /\ Done(g)
    /\ \/ watch' = [watch EXCEPT ![g] = "none"]
       \/ /\ machine.state = "Failed" /\ g \notin pending /\ ~shutdown
          /\ watch' = [watch EXCEPT ![g] = "recover"]
    /\ UNCHANGED <<machine, hostVars, op, callVars, boundary, pc, cancelled,
                   ready, failed, workerVars, guardVars>>

-----------------------------------------------------------------------------
RunStep(g) ==
    \/ RunStartWorker(g) \/ RunWaitReady(g) \/ RunCommitReady(g) \/ RunServe(g)
    \/ RunCleanupBegin(g)
    \/ RunFinish(g) \/ RunFinishStatus(g) \/ RunFinishRelease(g)

CleanupStep == CleanupDetach \/ CleanupDrain

OpStep ==
    \/ Start \/ StartWait \/ StartCleaned
    \/ Restart \/ OpStopPick \/ OpStopLock \/ OpStopGuard \/ RestartWait
    \/ FaultBegin \/ FaultEnd
    \/ ShutdownRun \/ ShutdownWait \/ ShutdownCleaned
    \/ SwitchBegin \/ SwitchGuard \/ SwitchResolve \/ SwitchStop
    \/ SwitchStopWait \/ SwitchCleaned \/ SwitchPrepare \/ SwitchWait
    \/ SwitchDrain \/ SwitchDecide \/ SwitchEnd \/ SwitchRelease
    \/ OpCleanupBegin

CancelStep == CancelPick \/ CancelLock \/ CancelGuard

WatchStep(g) == WatchReady(g) \/ WatchDone(g)

\* What the environment does: calls, cancellations, exits of a process.
Environment ==
    \/ Call \/ CallerCancel \/ Cancel
    \/ QuitCall \/ ShutdownCall
    \/ \E g \in Gen : WorkerExit(g)

Next ==
    \/ \E g \in Gen : RunStep(g) \/ WatchStep(g) \/ RecoverCall(g)
    \/ CleanupStep
    \/ OpStep
    \/ CancelStep
    \/ \E kind \in {"quit", "shutdown"} : QuitLocked(kind)
    \/ Environment

\* Every goroutine that can take a step takes one: the Go scheduler runs every
\* goroutine that is not blocked, and every wait of the code on the outside has
\* a timeout.  A sync.Mutex hands itself to a waiter it has starved, so whoever
\* waits for switchMu or workerBoundaryMu gets it however often others take it.
\* No call, cancellation or exit of a process is ever forced.
Fairness ==
    /\ \A g \in Gen : /\ WF_vars(RunStep(g))
                      /\ WF_vars(WatchStep(g))
                      /\ SF_vars(RunCleanupBegin(g))
                      /\ SF_vars(RecoverCall(g))
    /\ WF_vars(CleanupStep)
    /\ WF_vars(OpStep)
    /\ SF_vars(OpStopLock \/ OpCleanupBegin)
    /\ WF_vars(CancelStep)
    /\ SF_vars(QuitLocked("quit")) /\ SF_vars(QuitLocked("shutdown"))

Spec == Init /\ [][Next]_vars /\ Fairness

-----------------------------------------------------------------------------
(* Properties.                                                             *)

MachineTyped == machine \in [state : State, gen : 0..MaxGen]

HostTyped ==
    /\ current \in 0..MaxGen
    /\ switching \in BOOLEAN /\ switchGuarded \in BOOLEAN
    /\ shutdown \in BOOLEAN /\ exited \in BOOLEAN

\* A call of this kind, at this step, with this run.
OpAt(kind, at, run) ==
    /\ at = "idle" <=> kind = "none"
    /\ at \in {"start", "startWait"} => kind \in {"start", "restart"}
    /\ at \in {"restart", "restartWait"} => kind = "restart"
    /\ at \in {"shutdown", "shutdownWait"} => kind = "shutdown"
    /\ at \in {"fault", "faultWrite"} => kind = "fault"
    /\ at \in StopPc => kind \in {"restart", "quit", "shutdown"}
    /\ at \in CleanPc => kind \in SwitchKind \cup {"start", "restart", "shutdown"}
    /\ at \in SwitchPc => kind \in SwitchKind
    /\ at \in WithRun \/ (at = "stopPick" /\ kind # "quit") => run \in Gen

OpTyped ==
    /\ op \in [kind : OpKind \cup {"none"}, pc : OpPc, run : 0..MaxGen,
               rollback : BOOLEAN, ctx : {"live", "cancelled"},
               caller : {"live", "cancelled"}]
    /\ OpAt(op.kind, op.pc, op.run)

CallTyped ==
    /\ quitting \in SUBSET {"quit", "shutdown"}
    /\ cancelPc \in {"idle", "pick", "lock", "guard"}
    /\ cancelRun \in 0..MaxGen
    /\ cancelPc \in {"lock", "guard"} => cancelRun \in Gen

BoundaryTyped ==
    boundary \in [holder : {"free", "cancel", "op", "run"}, run : 0..MaxGen,
                  step : {"none", "detach", "drain"}, failed : BOOLEAN]

RunTyped ==
    /\ pc \in [Gen -> RunPc]
    /\ watch \in [Gen -> {"none", "ready", "done", "recover"}]
    /\ cancelled \in SUBSET Gen /\ ready \in SUBSET Gen /\ failed \in SUBSET Gen

WorkerTyped ==
    /\ pending \in SUBSET Gen /\ live \in SUBSET Gen
    /\ faulty \in 0..MaxGen
    /\ proc \in [Gen -> {"none", "alive", "exited"}]
    /\ channel \in [Gen -> {"open", "closed", "stuck"}]
    /\ mgrCurrent \in 0..MaxGen

GuardTyped == guarded \in SUBSET Gen /\ mgrSwitching \in BOOLEAN

\* Whoever holds workerBoundaryMu is where the code holds it, and for its run.
LocksAgree ==
    /\ boundary.holder = "op" <=> op.pc \in {"stopGuard", "cleaning"}
    /\ boundary.holder = "op" => boundary.run = op.run
    /\ boundary.holder = "cancel" <=> cancelPc = "guard"
    /\ boundary.holder = "cancel" => boundary.run = cancelRun
    /\ \A g \in Gen : pc[g] = "cleaning" <=>
                         boundary.holder = "run" /\ boundary.run = g
    /\ boundary.step # "none" <=> boundary.holder = "run" \/ op.pc = "cleaning"
    /\ boundary.step # "none" => boundary.run # None

\* Generations are born in the order the Machine counts them.
BornInOrder == \A g \in Gen : pc[g] = "unborn" <=> g > machine.gen

\* Every variable has its type, generations are born in order, and the two locks
\* agree with where their holders are: the holder of switchMu is at a step of
\* the call it makes, and workerBoundaryMu is held for exactly the run its
\* holder works on (switchMu, workerBoundaryMu, Machine.BeginStart).
TypeOK ==
    /\ MachineTyped /\ HostTyped /\ OpTyped /\ CallTyped /\ BoundaryTyped
    /\ RunTyped /\ WorkerTyped /\ GuardTyped /\ BornInOrder /\ LocksAgree

\* A Worker whose process boundary nobody has verified empty.
Occupied(g) == proc[g] # "none"

\* Candidate, rollback and previous Worker generations never overlap: at most
\* one process boundary is occupied, however starts, stops, switches and failed
\* cleanups interleave (Restart, cleanupWorker, beginResolvedRun).
NoOverlap ==
    \A g, h \in Gen : Occupied(g) /\ Occupied(h) => g = h

\* An occupied boundary always belongs to the run the Host calls current, so
\* some later call can still reach and clean it (finish, keepCleanupOwner).
WorkerIsOwned ==
    \A g \in Gen : Occupied(g) => current = g

\* The manager's current Run context is that of a run the Host still owns:
\* finish lets a run go only after clearCurrent (commitReady, clearCurrent).
CurrentContextIsOwned ==
    mgrCurrent # None => current = mgrCurrent /\ mgrCurrent \in live

\* The manager's mutation guard has exactly one owner, a switch or one run, and
\* is never held for nobody (beginManagerStopGuard, EndRunContextSwitch).
GuardHasOneOwner ==
    /\ \A g, h \in guarded : g = h
    /\ mgrSwitching <=> (guarded # {} \/ (switchGuarded /\ op.pc # "swRelease"))

\* A Ready status stands on a committed context until its cleanup starts: it is
\* neither published early nor left behind by another run's cleanup
\* (commitReady, MarkReady, clearCurrent).
ReadyIsCommitted ==
    machine.state = "Ready" /\ pc[machine.gen] \in {"waiting", "committing", "running"}
        => mgrCurrent = machine.gen

\* Once ShutdownForApp has returned nil no Worker is left behind and none is on
\* its way (ShutdownForApp, switchMu).
ShutdownLeavesNoWorker ==
    exited => \A g \in Gen : ~Occupied(g) /\ pc[g] \in {"unborn", "done"}

\* A new generation begins only when every earlier one has no Worker or a
\* verified cleanup (start, beginResolvedRun, BeginStart).
HandoverAfterCleanup ==
    [][machine'.gen # machine.gen => pending = {}]_vars

\* A startup recovery that waited for switchMu never touches a generation that
\* has begun or become Ready in the meantime (applyRunContextLocked's check of
\* startupFailure against the status, runStartup).
RecoverySparesNewer ==
    op.kind = "recover" /\ op.pc \in {"swGuard", "swResolve", "swStop"}
        => machine.state \notin {"Starting", "Ready"}

\* A generation whose context is done ends, whatever its cleanup meets.
StopEnds ==
    \A g \in Gen : g \in cancelled ~> Done(g)

\* Every call gives switchMu back: the three locks, the gate and the guard
\* never leave a caller waiting for good.
CallsReturn ==
    op.kind # "none" ~> op.kind = "none"

\* An application shutdown that was asked for is answered: it completes, or it
\* gives the Host back to its user (ShutdownForApp, shutdownComplete).
ShutdownAnswers ==
    "shutdown" \in quitting ~> exited \/ ~shutdown

\* The Host implements the contract of WorkerOwnership: its owner is the current
\* run, whose Worker is down once its boundary was verified empty.
Stage ==
    IF current = None THEN "idle"
    ELSE IF pc[current] = "starting" THEN "starting"
    ELSE IF Occupied(current) THEN "up" ELSE "down"

Ownership == INSTANCE WorkerOwnership
             WITH gen <- machine.gen, owner <- current, stage <- Stage,
                  published <- mgrCurrent

\* Generations are admitted, launched, published, retracted, vacated and
\* released in the contract's order, one at a time (beginRunLocked, run,
\* cleanupWorker, finish).
ImplementsOwnership == Ownership!Spec

-----------------------------------------------------------------------------
(* What the repository says of the Host and the code does not keep.        *)

\* A stop converges on one cleanup owner (the comment on Machine.BeginStop): a
\* Stopping status belongs to a run that will still complete it.  requestStop
\* may reach BeginStop after finish has let the failed run go, and then nobody
\* ever calls CompleteStop.
StoppingHasOwner ==
    machine.state = "Stopping" =>
        current = machine.gen \/ ~Done(machine.gen)

\* The manager's mutation guard is kept until the boundary is verified empty
\* and closed (the comment in applyRunContextLocked): a cleanup that is under
\* way is always under a guard.  A cleanup that borrowed the switch's guard
\* loses it when the switch ends while the status is still Starting or Ready.
GuardCoversCleanup ==
    boundary.step # "none" => mgrSwitching

\* No Worker can be reading a profile whose plugins are changed (the comment on
\* actOnFaultPlugins).  A start that failed with its cleanup unverified offers
\* its plugins while its Worker is still there.
NoWriteUnderWorker ==
    op.pc = "faultWrite" => \A g \in Gen : ~Occupied(g)

\* A cancelled start is a failed start, not readiness (docs/architecture.md).
\* waitForRun cancels the run's context without a BeginStop, and commitReady
\* does not look at the context again before MarkReady.
NoReadyAfterCancel ==
    [][machine.state = "Starting" /\ machine'.state = "Ready"
        => machine.gen \notin cancelled]_vars
=============================================================================
