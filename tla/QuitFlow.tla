------------------------------- MODULE QuitFlow -------------------------------
(***************************************************************************)
(* How the daemon quits: the confirmation, the managed quit flow, the      *)
(* window ledger, the drain of the control plane and the application's     *)
(* shutdown hook.  Requests come from the tray and the UI (confirmed),     *)
(* from the installer's stop handshake (HostService.Quit over /control)    *)
(* and from a lost IPC listener.  A request's goroutine becomes the flow's *)
(* cleanup goroutine when Begin accepts it.  Stopping the Worker itself is *)
(* Host's; here cleanup succeeds or fails.                                 *)
(***************************************************************************)
EXTENDS Naturals, FiniteSets

CONSTANTS
    Requests,   \* quit requests that may be under way together
    Calls       \* mutable control calls that may be under way together

VARIABLES
    at, asked,                          \* per request
    confirmBusy, exitPending,           \* quitConfirmation, updateRunner
    quitting, inProgress,               \* WindowLedger, QuitFlow
    draining, call, tracked, revoked,  \* Server
    shutdown, shuttingDown              \* OnShutdown

control == <<call, tracked, revoked>>
vars == <<at, asked, confirmBusy, exitPending, quitting, inProgress, draining,
          control, shutdown, shuttingDown>>

Init ==
    /\ at = [r \in Requests |-> "idle"] /\ asked = {}
    /\ confirmBusy = FALSE /\ exitPending = FALSE
    /\ quitting = FALSE /\ inProgress = FALSE
    /\ draining = FALSE
    /\ call = [c \in Calls |-> "idle"] /\ tracked = {} /\ revoked = {}
    /\ shutdown = "none" /\ shuttingDown = FALSE

\* Nothing runs any more once the process has exited.
Goto(r, label) == shutdown # "exited" /\ at' = [at EXCEPT ![r] = label]
CallAt(c, label) == shutdown # "exited" /\ call' = [call EXCEPT ![c] = label]

\* The request's goroutine returns; a confirmed one reopens the confirmation.
Return(r, label) ==
    /\ Goto(r, label)
    /\ confirmBusy' = IF r \in asked THEN FALSE ELSE confirmBusy
    /\ asked' = asked \ {r}

----------------------------------------------------------------------------
(* Asking *)

\* quitConfirmation.confirm: one question at a time.
Confirm(r) ==
    /\ at[r] = "idle" /\ ~confirmBusy
    /\ confirmBusy' = TRUE
    /\ asked' = asked \cup {r}
    /\ Goto(r, "inspecting")
    /\ UNCHANGED <<exitPending, quitting, inProgress, draining, control, shutdown, shuttingDown>>

\* Bridge.InspectQuit: running or scheduled tasks, or no answer, put the
\* question to the user; without tasks the quit proceeds.
Inspect(r) ==
    /\ at[r] = "inspecting"
    /\ Goto(r, "asking") \/ Goto(r, "guard")
    /\ UNCHANGED <<asked, confirmBusy, exitPending, quitting, inProgress, draining, control,
                   shutdown, shuttingDown>>

\* Mutant: a refused question is never released.
AnswerForgets(r) ==
    /\ at[r] = "asking"
    /\ Goto(r, "guard") \/ Goto(r, "idle")
    /\ UNCHANGED <<asked, confirmBusy, exitPending, quitting, inProgress, draining, control,
                   shutdown, shuttingDown>>

Answer(r) ==
    /\ at[r] = "asking"
    /\ \/ Goto(r, "guard") /\ UNCHANGED <<asked, confirmBusy>>
       \/ Return(r, "idle")
    /\ UNCHANGED <<exitPending, quitting, inProgress, draining, control, shutdown, shuttingDown>>

\* quitDSHWork: nothing while a quit is under way; a ready update takes the
\* exit over (InstallOnExit) and quits after its handoff, without draining.
Guard(r) ==
    /\ at[r] = "guard"
    /\ IF shuttingDown \/ inProgress \/ quitting \/ exitPending
       THEN Return(r, "idle") /\ UNCHANGED exitPending
       ELSE \/ /\ Goto(r, "drain") /\ UNCHANGED <<asked, confirmBusy, exitPending>>
            \/ /\ Return(r, "installing") /\ exitPending' = TRUE
    /\ UNCHANGED <<quitting, inProgress, draining, control, shutdown, shuttingDown>>

InstallOnExit(r) ==
    /\ at[r] = "installing"
    /\ Goto(r, "handler")
    /\ exitPending' = FALSE
    /\ UNCHANGED <<asked, confirmBusy, quitting, inProgress, draining, control, shutdown, shuttingDown>>

\* HostService.Quit over /control, and the lost IPC listener: no confirmation.
RemoteQuit(r) ==
    /\ at[r] = "idle"
    /\ Goto(r, "drain") \/ Goto(r, "handler")
    /\ UNCHANGED <<asked, confirmBusy, exitPending, quitting, inProgress, draining, control,
                   shutdown, shuttingDown>>

----------------------------------------------------------------------------
(* The quit handler, the flow and its cleanup *)

\* beginDrain: whoever sets the flag then cancels the calls under way.
Drain(r) ==
    /\ at[r] = "drain"
    /\ draining' = TRUE
    /\ Goto(r, IF draining THEN "handler" ELSE "cancel")
    /\ UNCHANGED <<asked, confirmBusy, exitPending, quitting, inProgress, control, shutdown,
                   shuttingDown>>

CancelCalls(r) ==
    /\ at[r] = "cancel"
    /\ revoked' = revoked \cup tracked
    /\ Goto(r, "handler")
    /\ UNCHANGED <<asked, confirmBusy, exitPending, quitting, inProgress, draining, call, tracked,
                   shutdown, shuttingDown>>

\* SetQuitHandler's function: the ledger first, then the flow.
BeginQuit(r) ==
    /\ at[r] = "handler"
    /\ quitting' = TRUE
    /\ Goto(r, "begin")
    /\ UNCHANGED <<asked, confirmBusy, exitPending, inProgress, draining, control, shutdown,
                   shuttingDown>>

\* Mutant: Begin without the duplicate suppression.
BeginAgain(r) ==
    /\ at[r] = "begin"
    /\ inProgress' = TRUE
    /\ Return(r, "cleaning")
    /\ UNCHANGED <<exitPending, quitting, draining, control, shutdown, shuttingDown>>

\* QuitFlow.Begin: a second request while one is under way is ignored.
Begin(r) ==
    /\ at[r] = "begin"
    /\ inProgress' = TRUE
    /\ Return(r, IF inProgress THEN "idle" ELSE "cleaning")
    /\ UNCHANGED <<exitPending, quitting, draining, control, shutdown, shuttingDown>>

\* Cleanup (pet service, then Host.ShutdownForApp) ends; onFailure looks once
\* whether the application is shutting down.
Cleaned(r) ==
    /\ at[r] = "cleaning"
    /\ \/ Goto(r, "quit")
       \/ Goto(r, IF shuttingDown THEN "release" ELSE "reset")
    /\ UNCHANGED <<asked, confirmBusy, exitPending, quitting, inProgress, draining, control,
                   shutdown, shuttingDown>>

ResetDrain(r) ==
    /\ at[r] = "reset"
    /\ draining' = FALSE
    /\ Goto(r, "reopen")
    /\ UNCHANGED <<asked, confirmBusy, exitPending, quitting, inProgress, control, shutdown,
                   shuttingDown>>

CancelQuit(r) ==
    /\ at[r] = "reopen"
    /\ quitting' = FALSE
    /\ Goto(r, "release")
    /\ UNCHANGED <<asked, confirmBusy, exitPending, inProgress, draining, control, shutdown,
                   shuttingDown>>

\* Only after onFailure, which opens Settings, does the flow end.
Release(r) ==
    /\ at[r] = "release"
    /\ inProgress' = FALSE
    /\ Goto(r, "idle")
    /\ UNCHANGED <<asked, confirmBusy, exitPending, quitting, draining, control, shutdown,
                   shuttingDown>>

\* desktop.Quit, which runs the shutdown hook; inProgress stays.
Quit(r) ==
    /\ at[r] = "quit"
    /\ shutdown' = IF shutdown = "none" THEN "drain" ELSE shutdown
    /\ Goto(r, "done")
    /\ UNCHANGED <<asked, confirmBusy, exitPending, quitting, inProgress, draining, control,
                   shuttingDown>>

----------------------------------------------------------------------------
(* OnShutdown: also entered on its own, when the session ends. *)

SessionEnds ==
    /\ shutdown = "none"
    /\ shutdown' = "drain"
    /\ UNCHANGED <<at, asked, confirmBusy, exitPending, quitting, inProgress, draining, control,
                   shuttingDown>>

OnShutdown ==
    /\ \/ /\ shutdown = "drain"
          /\ draining' = TRUE
          /\ shutdown' = IF draining THEN "flag" ELSE "cancel"
          /\ UNCHANGED <<revoked, shuttingDown, quitting>>
       \/ /\ shutdown = "cancel"
          /\ revoked' = revoked \cup tracked
          /\ shutdown' = "flag"
          /\ UNCHANGED <<draining, shuttingDown, quitting>>
       \/ /\ shutdown = "flag"
          /\ shuttingDown' = TRUE
          /\ shutdown' = "hide"
          /\ UNCHANGED <<draining, revoked, quitting>>
       \/ /\ shutdown = "hide"
          /\ quitting' = TRUE
          /\ shutdown' = "cleanup"
          /\ UNCHANGED <<draining, revoked, shuttingDown>>
       \/ /\ shutdown = "cleanup"
          /\ \A r \in Requests : at[r] # "cleaning"   \* Host.shutdownMu
          /\ shutdown' = "exited"
          /\ UNCHANGED <<draining, revoked, shuttingDown, quitting>>
    /\ UNCHANGED <<at, asked, confirmBusy, exitPending, inProgress, call, tracked>>

----------------------------------------------------------------------------
(* A mutable call: ServeHTTP's check, invoke's check, trackCall, the method *)

Refused(c) == draining /\ call[c] \in {"admitted", "idle"}

Admit(c) ==
    /\ call[c] = "idle" /\ ~Refused(c)
    /\ CallAt(c, "admitted")
    /\ UNCHANGED <<at, asked, confirmBusy, exitPending, quitting, inProgress, draining, tracked,
                   revoked, shutdown, shuttingDown>>

Invoke(c) ==
    /\ call[c] = "admitted"
    /\ CallAt(c, IF Refused(c) THEN "idle" ELSE "checked")
    /\ UNCHANGED <<at, asked, confirmBusy, exitPending, quitting, inProgress, draining, tracked,
                   revoked, shutdown, shuttingDown>>

\* Mutant: the flag is not read again when the call is registered.
TrackCallUnchecked(c) ==
    /\ call[c] = "checked"
    /\ CallAt(c, "running")
    /\ tracked' = tracked \cup {c}
    /\ UNCHANGED <<at, asked, confirmBusy, exitPending, quitting, inProgress, draining,
                   revoked, shutdown, shuttingDown>>

\* Registered and the flag read under activeMu.
TrackCall(c) ==
    /\ call[c] = "checked"
    /\ CallAt(c, "running")
    /\ tracked' = tracked \cup {c}
    /\ revoked' = IF draining THEN revoked \cup {c} ELSE revoked
    /\ UNCHANGED <<at, asked, confirmBusy, exitPending, quitting, inProgress, draining,
                   shutdown, shuttingDown>>

CallReturns(c) ==
    /\ call[c] = "running"
    /\ CallAt(c, "idle")
    /\ tracked' = tracked \ {c}
    /\ revoked' = revoked \ {c}
    /\ UNCHANGED <<at, asked, confirmBusy, exitPending, quitting, inProgress, draining,
                   shutdown, shuttingDown>>

----------------------------------------------------------------------------
RequestStep(r) ==
    \/ Inspect(r) \/ Answer(r) \/ Guard(r) \/ InstallOnExit(r) \/ Drain(r) \/ CancelCalls(r)
    \/ BeginQuit(r) \/ Begin(r) \/ Cleaned(r) \/ ResetDrain(r) \/ CancelQuit(r) \/ Release(r)
    \/ Quit(r)

Next ==
    \/ \E r \in Requests : Confirm(r) \/ RemoteQuit(r) \/ RequestStep(r)
    \/ SessionEnds \/ OnShutdown
    \/ \E c \in Calls : Admit(c) \/ Invoke(c) \/ TrackCall(c) \/ CallReturns(c)

Spec == Init /\ [][Next]_vars

----------------------------------------------------------------------------
(* Properties *)

Labels == {"idle", "inspecting", "asking", "guard", "installing", "drain", "cancel", "handler",
           "begin", "cleaning", "reset", "reopen", "release", "quit", "done"}

TypeOK ==
    /\ at \in [Requests -> Labels] /\ asked \subseteq Requests
    /\ confirmBusy \in BOOLEAN /\ exitPending \in BOOLEAN /\ quitting \in BOOLEAN
    /\ inProgress \in BOOLEAN /\ draining \in BOOLEAN /\ shuttingDown \in BOOLEAN
    /\ call \in [Calls -> {"idle", "admitted", "checked", "running"}]
    /\ tracked \subseteq Calls /\ revoked \subseteq tracked
    /\ shutdown \in {"none", "drain", "cancel", "flag", "hide", "cleanup", "exited"}

\* The flow runs one cleanup at a time, and none besides the one whose success
\* already quits: shutting the Worker down twice at once would race its own
\* verification (quit_flow.go:54-60).
OneCleanup ==
    Cardinality({r \in Requests :
        at[r] \in {"cleaning", "reset", "reopen", "release", "quit", "done"}}) <= 1

\* Once the drain has passed over the tracked calls no mutable call keeps
\* running uncancelled, whichever side of the flag its registration fell on
\* (server.go:190-199, 216-227).
DrainCancels ==
    (/\ draining
     /\ \A r \in Requests : at[r] # "cancel"
     /\ shutdown # "cancel")
        => tracked \subseteq revoked

\* One question at a time, and the question is free again unless somebody is
\* still on the way through it: no answer, refusal or update handoff leaves it
\* taken (quit_confirm.go:19-43).
ConfirmationReleased ==
    /\ confirmBusy <=> asked # {}
    /\ Cardinality(asked) <= 1
    /\ \A r \in asked : at[r] \in {"inspecting", "asking", "guard", "drain", "cancel",
                                   "handler", "begin"}

\* When no quit is under way the daemon is usable again: a failed cleanup has
\* reopened the windows and the control plane and the quit can be retried
\* (quit_flow.go:7-8, window_policy.go:52-53, server.go:207-209).
QuitReleased ==
    (shutdown = "none" /\ \A r \in Requests : at[r] = "idle") => ~quitting /\ ~draining

============================================================================
