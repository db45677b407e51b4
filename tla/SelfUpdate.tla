----------------------------- MODULE SelfUpdate -----------------------------
(***************************************************************************)
(* The daemon's update coordinator (desktopapp/update.go) over the staging *)
(* area and the installer handoff of internal/selfupdate.                  *)
(*                                                                         *)
(* One goroutine at a time runs an operation: busy is taken with a         *)
(* compare-and-swap.  A channel switch is not an operation: it waits until *)
(* busy is free and then works without it.  A release is named by the      *)
(* channel that offered it; a backend is an index, because a switch makes  *)
(* a new one while goroutines may still hold the old one.                  *)
(***************************************************************************)
EXTENDS Naturals, FiniteSets

CONSTANTS
    Channels,           \* the feeds an installation can follow
    Runners,            \* goroutines an operation may run in
    Switchers,          \* concurrent SetChannel callers
    MaxSwitches         \* bound: channel switches that reach the swap

VARIABLES
    phase,              \* updateRunner.state.Phase
    release,            \* updateRunner.pending
    busy,               \* updateRunner.busy
    exitClaimed,        \* updateRunner.exitPending
    started,            \* updateRunner.startCancel # nil
    active,             \* the runner activeCancel belongs to
    backend,            \* index of updateRunner.backend
    channel,            \* backend index -> installerBackend.channel
    staged,             \* backend index -> the release staged (and pending)
    disk,               \* the payload under the staging name
    armed,              \* Trigger calls that have read the phase
    op,                 \* what each runner is doing
    sw,                 \* what each SetChannel call is doing
    quits,              \* the exit's handoff called quit
    overlapped          \* history: an operation began inside a switch

updateVars == <<phase, release, busy, exitClaimed, started, active, backend, channel,
                staged, disk, armed, op, sw, quits, overlapped>>

None == "none"
Releases == Channels \cup {None}
Backends == 1..(MaxSwitches + 1)
Phases == {"idle", "checking", "available", "downloading", "verifying", "ready",
           "installing", "uptodate", "error"}
Rest == [at |-> None, auto |-> FALSE, exit |-> FALSE, be |-> 1, rel |-> None,
         dead |-> FALSE, ctxDone |-> FALSE]
SwRest == [at |-> None, to |-> None, be |-> 1]
Ops == [at : {None, "check", "checking", "found", "download", "begin", "downloading",
              "verifying", "staged", "install", "rechecked", "installing"},
        auto : BOOLEAN, exit : BOOLEAN, be : Backends, rel : Releases, dead : BOOLEAN,
        ctxDone : BOOLEAN]
Switches == [at : {None, "wait", "discard", "swap", "reset", "trigger"}, to : Releases,
             be : Backends]

TypeOK ==
    /\ phase \in Phases /\ release \in Releases /\ disk \in Releases
    /\ busy \in BOOLEAN /\ exitClaimed \in BOOLEAN /\ started \in BOOLEAN
    /\ quits \in BOOLEAN /\ overlapped \in BOOLEAN
    /\ active \in Runners \cup {None}
    /\ backend \in Backends
    /\ channel \in [Backends -> Releases] /\ staged \in [Backends -> Releases]
    /\ armed \subseteq BOOLEAN
    /\ op \in [Runners -> Ops]
    /\ sw \in [Switchers -> Switches]

Init ==
    /\ phase = "idle" /\ release = None /\ disk = None
    /\ busy = FALSE /\ exitClaimed = FALSE /\ started = FALSE
    /\ active = None /\ backend = 1
    /\ \E c \in Channels : channel = [b \in Backends |-> IF b = 1 THEN c ELSE None]
    /\ staged = [b \in Backends |-> None]
    /\ armed = {} /\ op = [r \in Runners |-> Rest]
    /\ sw = [s \in Switchers |-> SwRest]
    /\ quits = FALSE /\ overlapped = FALSE

Switching == \E s \in Switchers : sw[s].at \in {"discard", "swap", "reset"}

(***************************************************************************)
(* The single flight                                                       *)
(***************************************************************************)
\* A free goroutine takes busy and begins at a step.
FreeRunner == CHOOSE r \in Runners : op[r].at = None

Begin(at, auto, exit) ==
    LET r == FreeRunner IN
        /\ ~busy
        /\ busy' = TRUE
        /\ op' = [op EXCEPT ![r] = [Rest EXCEPT !.at = at, !.auto = auto, !.exit = exit]]
        /\ overlapped' = (overlapped \/ Switching)

\* Mutant: a failed handoff returns before quit.
EndSilent(r) ==
    /\ op' = [op EXCEPT ![r] = Rest]
    /\ busy' = FALSE
    /\ active' = IF active = r THEN None ELSE active
    /\ exitClaimed' = (exitClaimed /\ ~op[r].exit)
    /\ quits' = (quits \/ (op[r].exit /\ phase' # "error"))

\* The deferred calls of the goroutine; an exit calls quit whatever happened.
End(r) ==
    /\ op' = [op EXCEPT ![r] = Rest]
    /\ busy' = FALSE
    /\ active' = IF active = r THEN None ELSE active
    /\ exitClaimed' = (exitClaimed /\ ~op[r].exit)
    /\ quits' = (quits \/ op[r].exit)

Fail(r) == phase' = "error" /\ End(r)

Stay(r, at) == op' = [op EXCEPT ![r].at = at] /\ UNCHANGED <<busy, active, exitClaimed, quits>>

\* A Trigger reads the phase and takes busy in two steps; what it read may be
\* stale by then.
TriggerRead ==
    /\ phase \notin {"ready", "installing"}
    /\ \E auto \in BOOLEAN : (auto => started) /\ armed' = armed \cup {auto}
    /\ UNCHANGED <<phase, release, busy, exitClaimed, started, active, backend, channel,
                   staged, disk, op, sw, quits, overlapped>>

Trigger ==
    /\ \E auto \in armed :
        /\ armed' = armed \ {auto}
        /\ \/ Begin("check", auto, FALSE)
           \/ busy /\ UNCHANGED <<busy, op, overlapped>>
    /\ UNCHANGED <<phase, release, exitClaimed, started, active, backend, channel, staged,
                   disk, sw, quits>>

\* Mutant: the download does not take the single flight.
ActionDownloadFree ==
    /\ phase = "available"
    /\ op' = [op EXCEPT ![FreeRunner] = [Rest EXCEPT !.at = "download"]]
    /\ overlapped' = (overlapped \/ Switching)
    /\ busy' = TRUE
    /\ UNCHANGED <<phase, release, exitClaimed, started, active, backend, channel, staged,
                   disk, armed, sw, quits>>

ActionDownload ==
    /\ phase = "available"
    /\ Begin("download", FALSE, FALSE)
    /\ UNCHANGED <<phase, release, exitClaimed, started, active, backend, channel, staged,
                   disk, armed, sw, quits>>

ActionInstall ==
    /\ phase = "ready"
    /\ Begin("install", FALSE, FALSE)
    /\ UNCHANGED <<phase, release, exitClaimed, started, active, backend, channel, staged,
                   disk, armed, sw, quits>>

\* Stop cancels the running download and, with the start context, every
\* automatic operation.
Cancelled ==
    [r \in Runners |-> [op[r] EXCEPT
        !.dead = @ \/ r = active \/ (started /\ op[r].auto),
        !.ctxDone = @ \/ (started /\ op[r].auto)]]

InstallOnExit ==
    /\ ~exitClaimed /\ ~busy /\ phase = "ready"
    /\ op' = [Cancelled EXCEPT ![FreeRunner] = [Rest EXCEPT !.at = "install", !.exit = TRUE]]
    /\ busy' = TRUE /\ exitClaimed' = TRUE /\ quits' = FALSE
    /\ overlapped' = (overlapped \/ Switching)
    /\ started' = FALSE /\ active' = None
    /\ UNCHANGED <<phase, release, backend, channel, staged, disk, armed, sw>>

Stop ==
    /\ op' = Cancelled /\ started' = FALSE /\ active' = None
    /\ UNCHANGED <<phase, release, busy, exitClaimed, backend, channel, staged, disk,
                   armed, sw, quits, overlapped>>

Start ==
    /\ ~started /\ started' = TRUE
    /\ UNCHANGED <<phase, release, busy, exitClaimed, active, backend, channel, staged, disk,
                   armed, op, sw, quits, overlapped>>

(***************************************************************************)
(* The operations                                                          *)
(***************************************************************************)
Quiet == UNCHANGED <<started, backend, channel, armed, sw, overlapped>>

\* runCheck publishes "checking" and asks the backend the runner holds then.
CheckBegins(r) ==
    /\ op[r].at = "check"
    /\ phase' = "checking"
    /\ op' = [op EXCEPT ![r].at = "checking", ![r].be = backend]
    /\ UNCHANGED <<release, busy, exitClaimed, active, staged, disk, quits>> /\ Quiet

\* The feed offers nothing, a release of its own channel that ValidateRelease
\* accepts, or something Check refuses.
CheckEnds(r) ==
    /\ op[r].at = "checking"
    /\ \/ Fail(r) /\ UNCHANGED release
       \/ phase' = "uptodate" /\ End(r) /\ UNCHANGED release
       \/ release' = channel[op[r].be] /\ Stay(r, "found") /\ UNCHANGED phase
    /\ UNCHANGED <<staged, disk>> /\ Quiet

Found(r) ==
    /\ op[r].at = "found"
    /\ phase' = "available"
    /\ IF op[r].auto THEN Stay(r, "download") ELSE End(r)
    /\ UNCHANGED <<release, staged, disk>> /\ Quiet

\* runDownload registers its cancellation and copies the remembered release.
DownloadBegins(r) ==
    /\ op[r].at = "download"
    /\ IF release = None
       THEN Fail(r)
       ELSE /\ op' = [op EXCEPT ![r].at = "begin", ![r].rel = release, ![r].dead = op[r].ctxDone]
            /\ active' = r
            /\ UNCHANGED <<phase, busy, exitClaimed, quits>>
    /\ UNCHANGED <<release, staged, disk>> /\ Quiet

StageBegins(r) ==
    /\ op[r].at = "begin"
    /\ phase' = "downloading"
    /\ op' = [op EXCEPT ![r].at = "downloading", ![r].be = backend]
    /\ UNCHANGED <<release, busy, exitClaimed, active, staged, disk, quits>> /\ Quiet

\* A cancelled download is silent when the whole operation was cancelled.
Downloads(r) ==
    /\ op[r].at = "downloading"
    /\ \/ Fail(r)
       \/ op[r].dead /\ op[r].ctxDone /\ End(r) /\ UNCHANGED phase
       \/ phase' = "verifying" /\ Stay(r, "verifying")
    /\ UNCHANGED <<release, staged, disk>> /\ Quiet

\* Staging.Stage publishes the copy by rename once its digest matched and
\* prepares it afterwards; only a prepared copy is remembered.
Verifies(r) ==
    /\ op[r].at = "verifying"
    /\ \/ Fail(r) /\ disk' \in {disk, op[r].rel} /\ UNCHANGED staged
       \/ /\ disk' = op[r].rel
          /\ staged' = [staged EXCEPT ![op[r].be] = op[r].rel]
          /\ Stay(r, "staged") /\ UNCHANGED phase
    /\ UNCHANGED release /\ Quiet

Ready(r) ==
    /\ op[r].at = "staged"
    /\ phase' = "ready" /\ End(r)
    /\ UNCHANGED <<release, staged, disk>> /\ Quiet

\* runInstall authenticates the staged bytes again before anything is stopped.
Recheck(r) ==
    /\ op[r].at = "install"
    /\ \/ Fail(r)
       \/ /\ staged[backend] # None /\ disk = staged[backend]
          /\ Stay(r, "rechecked") /\ UNCHANGED phase
    /\ UNCHANGED <<release, staged, disk>> /\ Quiet

StopUI(r) ==
    /\ op[r].at = "rechecked"
    /\ \/ Fail(r)
       \/ /\ phase' = "installing"
          /\ op' = [op EXCEPT ![r].at = "installing", ![r].be = backend]
          /\ UNCHANGED <<busy, active, exitClaimed, quits>>
    /\ UNCHANGED <<release, staged, disk>> /\ Quiet

\* The installer could not start, failed, outlived its budget, or finished.
Install(r) ==
    /\ op[r].at = "installing"
    /\ \/ Fail(r)
       \/ /\ staged[op[r].be] # None /\ disk # None
          /\ End(r) /\ UNCHANGED phase
    /\ UNCHANGED <<release, staged, disk>> /\ Quiet

(***************************************************************************)
(* SetChannel                                                              *)
(***************************************************************************)
SwitchBegins(s, c) ==
    /\ sw[s].at = None
    /\ phase # "installing" /\ c # channel[backend]
    /\ sw' = [sw EXCEPT ![s] = [at |-> "wait", to |-> c, be |-> backend]]
    /\ op' = Cancelled /\ started' = FALSE /\ active' = None
    /\ UNCHANGED <<phase, release, busy, exitClaimed, backend, channel, staged, disk, armed,
                   quits, overlapped>>

\* Mutant: the switch does not wait for the running operation.
SwitchIdleAnyway(s) ==
    /\ sw[s].at = "wait"
    /\ backend <= MaxSwitches /\ sw' = [sw EXCEPT ![s].at = "discard"]
    /\ UNCHANGED <<phase, release, busy, exitClaimed, started, active, backend, channel,
                   staged, disk, armed, op, quits, overlapped>>

\* waitIdle sees busy free, or gives up after updateSwitchTimeout.
SwitchIdle(s) ==
    /\ sw[s].at = "wait"
    /\ \/ ~busy /\ backend <= MaxSwitches /\ sw' = [sw EXCEPT ![s].at = "discard"]
       \/ busy /\ sw' = [sw EXCEPT ![s] = SwRest]
    /\ UNCHANGED <<phase, release, busy, exitClaimed, started, active, backend, channel,
                   staged, disk, armed, op, quits, overlapped>>

\* Discard forgets what the old backend staged; a failed removal is logged.
Discard(s) ==
    /\ sw[s].at = "discard"
    /\ staged' = [staged EXCEPT ![sw[s].be] = None]
    /\ disk' \in {disk, None}
    /\ sw' = [sw EXCEPT ![s].at = "swap"]
    /\ UNCHANGED <<phase, release, busy, exitClaimed, started, active, backend, channel,
                   armed, op, quits, overlapped>>

Swap(s) ==
    /\ sw[s].at = "swap" /\ backend <= MaxSwitches
    /\ backend' = backend + 1
    /\ channel' = [channel EXCEPT ![backend + 1] = sw[s].to]
    /\ release' = None
    /\ sw' = [sw EXCEPT ![s].at = "reset"]
    /\ UNCHANGED <<phase, busy, exitClaimed, started, active, staged, disk, armed, op, quits,
                   overlapped>>

Reset(s) ==
    /\ sw[s].at = "reset"
    /\ phase' = "idle"
    /\ sw' = [sw EXCEPT ![s].at = "trigger"]
    /\ UNCHANGED <<release, busy, exitClaimed, started, active, backend, channel, staged,
                   disk, armed, op, quits, overlapped>>

\* The new channel is checked; the result waits for the user.
CheckNew(s) ==
    /\ sw[s].at = "trigger"
    /\ sw' = [sw EXCEPT ![s] = SwRest]
    /\ IF phase \in {"ready", "installing"} THEN UNCHANGED armed ELSE armed' = armed \cup {FALSE}
    /\ UNCHANGED <<phase, release, busy, exitClaimed, started, active, backend, channel,
                   staged, disk, op, quits, overlapped>>

RunnerNext(r) ==
    \/ CheckBegins(r) \/ CheckEnds(r) \/ Found(r)
    \/ DownloadBegins(r) \/ StageBegins(r) \/ Downloads(r) \/ Verifies(r) \/ Ready(r)
    \/ Recheck(r) \/ StopUI(r) \/ Install(r)

SwitchNext(s) ==
    \/ \E c \in Channels : SwitchBegins(s, c)
    \/ SwitchIdle(s) \/ Discard(s) \/ Swap(s) \/ Reset(s) \/ CheckNew(s)

Next ==
    \/ TriggerRead \/ Trigger \/ ActionDownload \/ ActionInstall \/ InstallOnExit
    \/ Stop \/ Start
    \/ \E r \in Runners : RunnerNext(r)
    \/ \E s \in Switchers : SwitchNext(s)

Spec == Init /\ [][Next]_updateVars

(***************************************************************************)
(* Properties                                                              *)
(***************************************************************************)
\* Two update operations never run at once, whichever of the timer, the About
\* page, a channel switch and the exit began them (update.go:195-197).
OneOperation ==
    /\ Cardinality({r \in Runners : op[r].at # None}) <= 1
    /\ (\E r \in Runners : op[r].at # None) => busy

\* A release reported ready is the staged release of the channel that is
\* followed now, however checks, downloads, cancellations and switches
\* interleaved, as long as no operation began inside a switch
\* (update.go:640-692).
ReadyIsThisChannel ==
    phase = "ready" /\ ~overlapped /\ ~Switching =>
        staged[backend] = channel[backend] /\ disk = channel[backend]

ExitQuitsStep == exitClaimed /\ ~exitClaimed' => quits'

\* An exit that claimed a ready update always goes on to quit, also when the
\* recheck, the UI stop or the installer fails (update.go:508-510).
ExitQuits == [][ExitQuitsStep]_updateVars

\* What Discard promises: "a download from the previous channel cannot become
\* an installation" (update.go:106-107).
PreviousChannelNeverInstalls ==
    phase = "installing" => staged[backend] \in {channel[backend], None}
============================================================================
