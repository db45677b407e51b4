----------------------------- MODULE Acquisition -----------------------------
(***************************************************************************)
(* Acquisitions: the ManagerService's runtime, Node and plugin operations  *)
(* (internal/app/manager_service.go), the source selection they share      *)
(* (internal/acquisition), the plugin command of the Manager and the       *)
(* record of where a plugin came from (internal/dshmanager/manager.go).    *)
(*                                                                         *)
(* One slot holds the cancel function of the runtime operation under way.  *)
(* An operation publishes its progress and, once the Manager has returned, *)
(* one terminal status.  The operation gate serializes the Manager's work. *)
(***************************************************************************)
EXTENDS Naturals, FiniteSets

CONSTANTS
    RuntimeOps,     \* calls of InstallRuntime, InstallLatestNode, RefreshDSHReleases
    PluginOps,      \* calls of InstallPlugin, UpgradePlugin and RemovePlugin
    HasMirror       \* a mirror is configured

VARIABLES
    job,            \* each call
    runtimeCancel,  \* ManagerService.runtimeCancel: the call it cancels
    cancelCall,     \* a CancelRuntime that has read the slot
    opGate,         \* the call that holds the Manager's operation gate
    statuses,       \* what each call has published: progress, terminal states
    staging,        \* calls with a staging directory on disk
    plugin,         \* where the installed plugin came from, or Absent
    provenance,     \* the Manager's record of it
    provenanceFile  \* the profile's provenance.json

acquisitionVars == <<job, runtimeCancel, cancelCall, opGate, statuses, staging, plugin,
                     provenance, provenanceFile>>

Ops == RuntimeOps \cup PluginOps
Nobody == "nobody"
Absent == <<"none", "none">>
\* InstallLatestNode goes like an InstallRuntime that needs no Node first, and a
\* local or Git source like a private registry; "add" stands for an update too.
RuntimeKinds == {"dsh", "refresh"}
Sources == {"public", "private"}
NewJob == [at |-> "new", kind |-> "none", source |-> "public", route |-> "official", node |-> FALSE,
           ctx |-> TRUE, accept |-> FALSE, result |-> "none"]

Init ==
    /\ job = [o \in Ops |-> NewJob]
    /\ runtimeCancel = Nobody /\ cancelCall = Nobody /\ opGate = Nobody
    /\ statuses = [o \in Ops |-> [late |-> FALSE, terminals |-> {}, count |-> 0]]
    /\ staging = {}
    /\ plugin \in {Absent, <<"public", "official">>}
    /\ provenance = plugin /\ provenanceFile = plugin

\* RefreshDSHReleases reports by its return value only.
Reports(o) == job[o].kind # "refresh"
Progress(o) == [statuses EXCEPT ![o].late = @ \/ (statuses[o].count > 0)]
Terminal(o, s) == [statuses EXCEPT ![o].terminals = @ \cup {s}, ![o].count = @ + 1]
To(o, at) == job' = [job EXCEPT ![o].at = at]
Fails(o) == job' = [job EXCEPT ![o].at = "returned",
                               ![o].result = IF job[o].ctx THEN "failed" ELSE "canceled"]

-----------------------------------------------------------------------------
(* ManagerService                                                          *)

\* Mutant: the slot is taken over.
BeginRuntimeAnyway(o, kind) ==
    /\ job[o].at = "new"
    /\ runtimeCancel' = o
    /\ job' = [job EXCEPT ![o].at = "gate", ![o].kind = kind]
    /\ UNCHANGED <<cancelCall, opGate, statuses, staging, plugin, provenance, provenanceFile>>

\* beginRuntimeOperation: one runtime operation at a time, the next is refused.
BeginRuntimeOperation(o, kind) ==
    /\ job[o].at = "new"
    /\ IF runtimeCancel = Nobody
       THEN /\ runtimeCancel' = o
            /\ job' = [job EXCEPT ![o].at = "gate", ![o].kind = kind]
       ELSE /\ To(o, "refused")
            /\ UNCHANGED runtimeCancel
    /\ UNCHANGED <<cancelCall, opGate, statuses, staging, plugin, provenance, provenanceFile>>

\* InstallPlugin, UpgradePlugin, RemovePlugin: an active status at once.
BeginPlugin(o, kind, source, accept) ==
    /\ job[o].at = "new"
    /\ job' = [job EXCEPT ![o].at = "gate", ![o].kind = kind, ![o].source = source,
                          ![o].accept = accept]
    /\ statuses' = Progress(o)
    /\ UNCHANGED <<runtimeCancel, cancelCall, opGate, staging, plugin, provenance,
                   provenanceFile>>

\* CancelRuntime reads the slot and calls what it read.
CancelReads ==
    /\ cancelCall = Nobody /\ runtimeCancel # Nobody
    /\ cancelCall' = runtimeCancel
    /\ UNCHANGED <<job, runtimeCancel, opGate, statuses, staging, plugin, provenance,
                   provenanceFile>>
CancelRuntime ==
    /\ cancelCall # Nobody
    /\ job' = IF job[cancelCall].at = "done" THEN job ELSE [job EXCEPT ![cancelCall].ctx = FALSE]
    /\ cancelCall' = Nobody
    /\ UNCHANGED <<runtimeCancel, opGate, statuses, staging, plugin, provenance, provenanceFile>>

\* Mutant: an adapter's terminal state is published too.
ObservedAll(o, s) == IF s = "active" THEN Progress(o) ELSE Terminal(o, s)

\* publishObservedPreparation: an adapter's terminal state is withheld, for the
\* Manager may still fail.
Observed(o, s) == IF s = "active" THEN Progress(o) ELSE statuses

\* publishTerminalPreparation, then the slot is given back.
Finish(o) ==
    /\ job[o].at = "returned"
    /\ job' = [job EXCEPT ![o] = [NewJob EXCEPT !.at = "done", !.kind = job[o].kind,
                                                !.result = job[o].result]]
    /\ statuses' = IF Reports(o) THEN Terminal(o, job[o].result) ELSE statuses
    /\ runtimeCancel' = IF o \in RuntimeOps THEN Nobody ELSE runtimeCancel
    /\ UNCHANGED <<cancelCall, opGate, staging, plugin, provenance, provenanceFile>>

-----------------------------------------------------------------------------
(* The Manager's work, under the gate.                                     *)

TakesGate(o) ==
    /\ job[o].at = "gate" /\ opGate = Nobody
    /\ opGate' = o
    /\ \E needsNode \in IF job[o].kind = "dsh" THEN BOOLEAN ELSE {FALSE} :
          job' = [job EXCEPT ![o].node = needsNode,
                             ![o].at = IF job[o].kind = "remove" \/ job[o].source # "public"
                                       THEN "command" ELSE "stage"]
    /\ UNCHANGED <<runtimeCancel, cancelCall, statuses, staging, plugin, provenance,
                   provenanceFile>>

\* Cancelled while it waits, or another operation is busy.
GateRefuses(o) ==
    /\ job[o].at = "gate"
    /\ Fails(o)
    /\ UNCHANGED <<runtimeCancel, cancelCall, opGate, statuses, staging, plugin, provenance,
                   provenanceFile>>

Releases(o) == opGate' = Nobody

\* Acquire, before an attempt: cancelled, or a staging directory of its own.
Stage(o) ==
    /\ job[o].at = "stage"
    /\ \/ /\ job[o].ctx
          /\ To(o, "attempt")
          /\ staging' = staging \cup {o}
          /\ statuses' = IF o \in RuntimeOps /\ Reports(o) THEN Observed(o, "active") ELSE statuses
          /\ UNCHANGED opGate
       \/ Fails(o) /\ Releases(o) /\ UNCHANGED <<staging, statuses>>
    /\ UNCHANGED <<runtimeCancel, cancelCall, plugin, provenance, provenanceFile>>

\* A failed attempt is cleaned up; only an unreachable official source leads on
\* to the mirror.
AttemptFails(o, reachability) ==
    /\ job[o].at = "attempt"
    /\ staging' = staging \ {o}
    /\ IF reachability /\ job[o].ctx /\ job[o].route = "official" /\ HasMirror
       THEN job' = [job EXCEPT ![o].at = "stage", ![o].route = "mirror"] /\ UNCHANGED opGate
       ELSE Fails(o) /\ Releases(o)
    /\ statuses' = IF o \in RuntimeOps /\ Reports(o)
                   THEN Observed(o, IF reachability THEN "active" ELSE "failed") ELSE statuses
    /\ UNCHANGED <<runtimeCancel, cancelCall, plugin, provenance, provenanceFile>>

\* The attempt succeeds; a runtime adapter says "installed".  A nested Node
\* acquisition goes on with the DSH package.
AttemptSucceeds(o) ==
    /\ job[o].at = "attempt"
    /\ staging' = staging \ {o}
    /\ statuses' = IF o \in RuntimeOps /\ Reports(o) THEN Observed(o, "succeeded") ELSE statuses
    /\ job' = IF job[o].node THEN [job EXCEPT ![o].at = "stage", ![o].route = "official", ![o].node = FALSE]
              ELSE [job EXCEPT ![o].at = IF o \in PluginOps THEN "record" ELSE "save"]
    /\ plugin' = IF o \in PluginOps THEN <<"public", job[o].route>> ELSE plugin
    /\ UNCHANGED <<runtimeCancel, cancelCall, opGate, provenance, provenanceFile>>

\* Verification and saving of a runtime or Node, either of which may fail.
RuntimeSaved(o, ok) ==
    /\ job[o].at = "save"
    /\ IF ok THEN job' = [job EXCEPT ![o].at = "returned", ![o].result = "succeeded"] ELSE Fails(o)
    /\ Releases(o)
    /\ UNCHANGED <<runtimeCancel, cancelCall, statuses, staging, plugin, provenance,
                   provenanceFile>>

-----------------------------------------------------------------------------
(* runPluginCommand                                                        *)

\* A removal, a custom registry or a source that is no registry: one command.
Command(o, ok) ==
    /\ job[o].at = "command"
    /\ IF ok /\ job[o].ctx
       THEN /\ plugin' = IF job[o].kind = "remove" THEN Absent ELSE <<job[o].source, "none">>
            /\ IF job[o].kind = "remove"
               THEN /\ job' = [job EXCEPT ![o].at = "returned", ![o].result = "succeeded"]
                    /\ Releases(o)
               ELSE To(o, "record") /\ UNCHANGED opGate
       ELSE /\ Fails(o) /\ Releases(o)
            /\ plugin' \in {plugin, IF job[o].kind = "remove" THEN Absent ELSE <<job[o].source, "none">>}
    /\ UNCHANGED <<runtimeCancel, cancelCall, statuses, staging, provenance, provenanceFile>>

\* DSH refuses an incompatible plugin.  A user who accepted that gets the
\* exemption and one more run of the whole command, official source first.
Incompatible(o, allowed) ==
    /\ o \in PluginOps /\ job[o].at \in {"attempt", "command"}
    /\ staging' = staging \ {o}
    /\ IF job[o].accept /\ allowed /\ job[o].ctx
       THEN /\ job' = [job EXCEPT ![o].accept = FALSE, ![o].route = "official",
                                  ![o].at = IF job[o].at = "command" THEN "command" ELSE "stage"]
            /\ UNCHANGED opGate
       ELSE Fails(o) /\ Releases(o)
    /\ UNCHANGED <<runtimeCancel, cancelCall, statuses, plugin, provenance, provenanceFile>>

\* Mutant: the route that was tried first is written down.
SourceOfFirst(o) == <<job[o].source, IF job[o].source = "public" THEN "official" ELSE "none">>

\* The route that succeeded, for the public registry only.
SourceOf(o) == <<job[o].source, IF job[o].source = "public" THEN job[o].route ELSE "none">>

\* recordPluginProvenance: saved, then published; a failed save fails the
\* operation although the plugin has changed.
RecordProvenance(o, ok) ==
    /\ job[o].at = "record"
    /\ IF ok /\ job[o].ctx
       THEN /\ provenanceFile' = SourceOf(o) /\ provenance' = SourceOf(o)
            /\ job' = [job EXCEPT ![o].at = "returned", ![o].result = "succeeded"]
       ELSE Fails(o) /\ UNCHANGED <<provenance, provenanceFile>>
    /\ Releases(o)
    /\ UNCHANGED <<runtimeCancel, cancelCall, statuses, staging, plugin>>

\* The caller's context ends: a closed window, a timeout, the daemon's drain; for
\* a runtime operation that is what CancelRuntime does.
ContextEnds(o) ==
    /\ o \in PluginOps /\ job[o].at \notin {"new", "refused", "returned", "done"} /\ job[o].ctx
    /\ job' = [job EXCEPT ![o].ctx = FALSE]
    /\ UNCHANGED <<runtimeCancel, cancelCall, opGate, statuses, staging, plugin, provenance,
                   provenanceFile>>

Next ==
    \/ \E o \in RuntimeOps, k \in RuntimeKinds : BeginRuntimeOperation(o, k)
    \/ \E o \in PluginOps, k \in {"add", "remove"}, s \in Sources, a \in BOOLEAN :
          BeginPlugin(o, k, s, a)
    \/ CancelReads \/ CancelRuntime
    \/ \E o \in Ops : \/ TakesGate(o) \/ GateRefuses(o) \/ Stage(o) \/ AttemptSucceeds(o)
                      \/ ContextEnds(o) \/ Finish(o)
    \/ \E o \in Ops, b \in BOOLEAN : \/ AttemptFails(o, b) \/ RuntimeSaved(o, b) \/ Command(o, b)
                                     \/ Incompatible(o, b) \/ RecordProvenance(o, b)

Spec == Init /\ [][Next]_acquisitionVars

-----------------------------------------------------------------------------
(* Properties                                                              *)

\* The slot is the runtime operation's that is under way, the gate that of the
\* call at work, and a staging directory belongs to an attempt.
AcquisitionTypeOK ==
    /\ \A o \in RuntimeOps :
          runtimeCancel = o <=> job[o].at \notin {"new", "refused", "done"}
    /\ \A o \in Ops : opGate = o <=> job[o].at \notin {"new", "refused", "gate", "returned", "done"}
    /\ staging = {o \in Ops : job[o].at = "attempt"}

\* An operation has one terminal status, the last of its statuses, and it says
\* what the Manager returned: not what an adapter saw before a verification or
\* a save failed (manager_service.go:250-263).
OneTerminal ==
    \A o \in Ops :
        /\ ~statuses[o].late
        /\ statuses[o].count <= 1
        /\ statuses[o].count = 1 => job[o].at = "done" /\ statuses[o].terminals = {job[o].result}
        /\ job[o].at = "done" /\ Reports(o) => statuses[o].count = 1

\* A plugin whose operation succeeded has its true source on record, also when a
\* mirror stood in for the official registry, when the command ran twice, and
\* however runtime operations and cancellations interleaved
\* (manager.go:1213-1275).
SourceIsTrue ==
    opGate = Nobody /\ plugin # Absent =>
        \/ provenance = plugin /\ provenanceFile = plugin
        \/ \E o \in PluginOps : job[o].result \in {"failed", "canceled"}
=============================================================================
