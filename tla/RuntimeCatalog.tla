--------------------------- MODULE RuntimeCatalog ---------------------------
(***************************************************************************)
(* The Manager's catalogue of runtimes, Node installations and data        *)
(* directories (internal/dshmanager/manager.go), the Windows adapters that *)
(* install and remove their files (internal/platform/windows), and the     *)
(* launches of the Host that resolve against it.                           *)
(*                                                                         *)
(* Every operation that changes the catalogue holds the operation gate: it *)
(* reads the whole state, saves it with its change and then publishes the  *)
(* change in memory.  ResolveLaunch takes no gate, yet refreshes a version *)
(* it observes through the same three steps.  A context switch first       *)
(* raises the mutation guard, then waits for the gate to be free.          *)
(***************************************************************************)
EXTENDS Naturals, FiniteSets

CONSTANTS
    Managed,        \* runtimes dsh-work installs, named by their version
    System,         \* the one runtime it only observes
    Nodes,          \* the managed Node releases
    Directories,    \* data directories of the user
    Contexts,       \* Run contexts: runtime, node (0: system), directory (0: own)
    MaxInstalls, MaxOperations, MaxCatalogCrashes, MaxDrifts

VARIABLES
    mem,            \* the Manager's fields that State carries
    saved,          \* state.json
    current,        \* Manager.current
    switching,      \* Manager.switching
    gop,            \* the operation that holds the gate
    launches,       \* ResolveLaunch of the Host and of the automation runtimes
    hostOp,         \* the start, switch or stop the Host has under way
    rtFiles,        \* what each managed runtime directory holds; 0: nothing
    rtBackup,       \* RuntimeInstaller.pendingBackups: the tree set aside
    nodeFiles,      \* managed Node directories
    systemVersion,  \* the version the system runtime reports
    kept,           \* managed runtimes registered and not removed since
    overlapped,     \* two savers held snapshots of the state at once
    unprotected,    \* a context was selected that no guard had protected: see ResolveLaunch
    gens, ops, catalogCrashes

catalogVars == <<mem, saved, current, switching, gop, launches, hostOp, rtFiles,
                 rtBackup, nodeFiles, systemVersion, kept, overlapped, unprotected,
                 gens, ops, catalogCrashes>>

Runtimes == Managed \cup {System}
NoContext == [rt |-> 0, node |-> 0, dir |-> 0]
Launchers == {"host", "automation"}
Version(v) == IF v = System THEN systemVersion ELSE v

\* New: the development or system runtime comes with the configuration.
BaseCatalog ==
    [rt |-> [v \in Runtimes |-> IF v = System THEN 1 ELSE 0], nodes |-> {},
     dirs |-> {}, rel |-> {}, conf |-> CHOOSE c \in Contexts : c.rt = System,
     known |-> NoContext]

IdleGop == [kind |-> "idle", pc |-> "idle", id |-> 0, node |-> 0, rel |-> {},
            snap |-> BaseCatalog, before |-> 0, local |-> FALSE, known |-> FALSE]
IdleLaunch == [pc |-> "idle", target |-> NoContext, seen |-> 0, snap |-> BaseCatalog]
IdleHost == [kind |-> "idle", pc |-> "idle", target |-> NoContext]

Init ==
    /\ mem = BaseCatalog
    /\ saved = BaseCatalog
    /\ current = NoContext
    /\ switching = FALSE
    /\ gop = IdleGop
    /\ launches = [l \in Launchers |-> IdleLaunch]
    /\ hostOp = IdleHost
    /\ rtFiles = [v \in Managed |-> 0]
    /\ rtBackup = [v \in Managed |-> 0]
    /\ nodeFiles = {}
    /\ systemVersion = 1
    /\ kept = {}
    /\ overlapped = FALSE
    /\ unprotected = FALSE
    /\ gens = 0
    /\ ops = 0
    /\ catalogCrashes = 0

Registered(c) == {v \in Runtimes : c.rt[v] # 0}
Present(v) == IF v = System THEN TRUE ELSE rtFiles[v] # 0
Selected == {mem.conf, current, mem.known} \ {NoContext}

\* A saver that has read the state and not yet published its change.
Holding(l) == launches[l].pc \in {"save", "publish"}
GateHolding == gop.pc \in {"save", "publish"}

GateFree == gop.pc = "idle"
Hold(op) ==
    /\ GateFree
    /\ ops < MaxOperations
    /\ ops' = ops + 1
    /\ gop' = op

-----------------------------------------------------------------------------
(* The gated operations and their guards.                                  *)

UnchangedButGop == UNCHANGED <<mem, saved, current, switching, launches, hostOp, rtFiles,
                               rtBackup, nodeFiles, systemVersion, kept, overlapped,
                               gens, catalogCrashes, unprotected>>

\* RefreshDSHReleases: fetches without the gate, saves with it, and is the one
\* operation that ignores the mutation guard.
RefreshDSHReleases(R) ==
    /\ Hold([IdleGop EXCEPT !.kind = "releases", !.pc = "read", !.rel = R])
    /\ UnchangedButGop

RegisterRuntime ==
    /\ ~switching
    /\ Hold([IdleGop EXCEPT !.kind = "register", !.pc = "read", !.id = System])
    /\ UnchangedButGop

RegisterDataDirectory(d) ==
    /\ ~switching
    /\ Hold([IdleGop EXCEPT !.kind = "adddir", !.pc = "read", !.id = d])
    /\ UnchangedButGop

\* RemoveDataDirectory
RemoveDataDirectory(d) ==
    /\ ~switching
    /\ d \in mem.dirs
    /\ \A c \in Selected : c.dir # d
    /\ Hold([IdleGop EXCEPT !.kind = "deldir", !.pc = "read", !.id = d])
    /\ UnchangedButGop

\* Mutant: the selection is not looked at.
RemoveRuntimeUnchecked(v) ==
    /\ ~switching
    /\ v \in Registered(mem)
    /\ Hold([IdleGop EXCEPT !.kind = "delrt", !.pc = "files", !.id = v])
    /\ UnchangedButGop

\* RemoveRuntime: no selected context may run on it.
RemoveRuntime(v) ==
    /\ ~switching
    /\ v \in Registered(mem)
    /\ \A c \in Selected : c.rt # v
    /\ Hold([IdleGop EXCEPT !.kind = "delrt", !.pc = "files", !.id = v])
    /\ UnchangedButGop

RemoveNode(n) ==
    /\ ~switching
    /\ n \in mem.nodes
    /\ \A c \in Selected : c.node # n
    /\ Hold([IdleGop EXCEPT !.kind = "delnode", !.pc = "files", !.id = n])
    /\ UnchangedButGop

InstallLatestNode(n) ==
    /\ ~switching
    /\ Hold([IdleGop EXCEPT !.kind = "node", !.pc = "fetch", !.node = n])
    /\ UnchangedButGop

\* A configured runtime whose files are missing may be acquired; everything
\* else that is selected is protected.
RuntimeInUse(v) ==
    \/ \E c \in {current, mem.known} : c.rt = v
    \/ mem.conf.rt = v /\ v \in Registered(mem) /\ Present(v)

\* InstallRuntimeWithProgress, up to the adapter call.
InstallRuntime(v) ==
    /\ ~switching
    /\ v \in mem.rel
    /\ ~RuntimeInUse(v)
    /\ gens < MaxInstalls
    /\ Hold([IdleGop EXCEPT !.kind = "install", !.pc = "toolchain", !.id = v,
                            !.before = rtFiles[v]])
    /\ UnchangedButGop

\* SetConfigured: only the CLI calls it, in a process that runs no Host.
SetConfigured(c) ==
    /\ ~switching /\ current = NoContext /\ hostOp = IdleHost
    /\ c.rt \in Registered(mem) /\ Present(c.rt)
    /\ c.node \in nodeFiles \cup {0} /\ c.dir \in mem.dirs \cup {0}
    /\ \A l \in Launchers : launches[l].pc = "idle"
    /\ Hold([IdleGop EXCEPT !.kind = "configure", !.pc = "read",
                            !.id = c.rt, !.node = c.node])
    /\ UnchangedButGop

-----------------------------------------------------------------------------
(* The adapters: the files of a Node installation and of a runtime.        *)

UnchangedButFiles == UNCHANGED <<mem, saved, current, switching, launches, hostOp,
                                 systemVersion, kept, overlapped, ops, catalogCrashes, unprotected>>
GopEnds == gop' = IdleGop

\* RequiresNodeAcquisition and resolveManagedNode: a system toolchain, a
\* verified managed Node, or one more acquisition first.
Toolchain ==
    /\ gop.kind = "install" /\ gop.pc = "toolchain"
    /\ \/ gop' = [gop EXCEPT !.pc = "package"]
       \/ \E n \in Nodes :
            /\ mem.nodes \cap nodeFiles = {}
            /\ gop' = [gop EXCEPT !.pc = "fetch", !.node = n]
       \/ GopEnds
    /\ UNCHANGED <<rtFiles, rtBackup, nodeFiles, gens>>
    /\ UnchangedButFiles

\* ManagedNodeInstaller.Install: an intact installation is taken as it is, a
\* download is staged and renamed into place; then the Manager looks at the
\* catalogue for it.
NodeInstalled ==
    /\ gop.pc = "fetch"
    /\ \/ /\ nodeFiles' = nodeFiles \cup {gop.node}
          /\ gop' = [gop EXCEPT !.pc = "nodecheck", !.known = gop.node \in mem.nodes]
       \/ GopEnds /\ UNCHANGED nodeFiles
    /\ UNCHANGED <<rtFiles, rtBackup, gens>>
    /\ UnchangedButFiles

\* cleanupCandidate: cancelled, invalid or not the requested release.
NodeRefused ==
    /\ gop.pc = "nodecheck"
    /\ nodeFiles' = IF gop.known THEN nodeFiles ELSE nodeFiles \ {gop.node}
    /\ GopEnds
    /\ UNCHANGED <<rtFiles, rtBackup, gens>>
    /\ UnchangedButFiles

NodeAccepted ==
    /\ gop.pc = "nodecheck"
    /\ gop' = [gop EXCEPT !.pc = "read"]
    /\ UNCHANGED <<rtFiles, rtBackup, nodeFiles, gens>>
    /\ UnchangedButFiles

\* installDSH: a directory that verifies is used as it is, else a package is
\* acquired into staging, official source first, and verified there.
Package ==
    /\ gop.pc = "package"
    /\ \/ /\ rtFiles[gop.id] # 0
          /\ gop' = [gop EXCEPT !.pc = "candidate", !.local = TRUE]
       \/ gop' = [gop EXCEPT !.pc = "aside"]
       \/ GopEnds
    /\ UNCHANGED <<rtFiles, rtBackup, nodeFiles, gens>>
    /\ UnchangedButFiles

\* commitManagedRuntime, first rename: the old tree goes aside.
SetAside ==
    /\ gop.pc = "aside"
    /\ \/ /\ gop' = [gop EXCEPT !.pc = "commit"]
          /\ rtBackup' = [rtBackup EXCEPT ![gop.id] = rtFiles[gop.id]]
          /\ rtFiles' = [rtFiles EXCEPT ![gop.id] = 0]
       \/ GopEnds /\ UNCHANGED <<rtFiles, rtBackup>>
    /\ UNCHANGED <<nodeFiles, gens>>
    /\ UnchangedButFiles

\* commitManagedRuntime, second rename: the candidate takes the place, or the
\* old tree comes back.
CommitFiles ==
    /\ gop.pc = "commit"
    /\ \/ /\ gens' = gens + 1
          /\ rtFiles' = [rtFiles EXCEPT ![gop.id] = gens + 1]
          /\ gop' = [gop EXCEPT !.pc = "candidate"]
          /\ UNCHANGED rtBackup
       \/ /\ rtFiles' = [rtFiles EXCEPT ![gop.id] = rtBackup[gop.id]]
          /\ rtBackup' = [rtBackup EXCEPT ![gop.id] = 0]
          /\ GopEnds
          /\ UNCHANGED gens
    /\ UNCHANGED nodeFiles
    /\ UnchangedButFiles

\* Mutant: the candidate is deleted and the tree set aside stays there.
DiscardOnly(v) ==
    IF gop.local THEN UNCHANGED <<rtFiles, rtBackup>>
    ELSE /\ rtFiles' = [rtFiles EXCEPT ![v] = 0]
         /\ UNCHANGED rtBackup

\* RuntimeInstaller.Discard: nothing of a tree that was there before; else the
\* candidate goes and the tree set aside returns.
Discard(v) ==
    IF gop.local THEN UNCHANGED <<rtFiles, rtBackup>>
    ELSE /\ rtFiles' = [rtFiles EXCEPT ![v] = rtBackup[v]]
         /\ rtBackup' = [rtBackup EXCEPT ![v] = 0]

\* A wrong version, a cancellation or a failed verification.
CandidateRefused ==
    /\ gop.pc = "candidate"
    /\ Discard(gop.id)
    /\ GopEnds
    /\ UNCHANGED <<nodeFiles, gens>>
    /\ UnchangedButFiles

CandidateVerified ==
    /\ gop.pc = "candidate"
    /\ gop' = [gop EXCEPT !.pc = "read"]
    /\ UNCHANGED <<rtFiles, rtBackup, nodeFiles, gens>>
    /\ UnchangedButFiles

\* RuntimeInstaller.Finalize: the tree set aside goes; a failure leaves it.
FinalizeFiles ==
    /\ gop.pc = "finalize"
    /\ rtBackup' = [rtBackup EXCEPT ![gop.id] = 0]
    /\ GopEnds
    /\ UNCHANGED <<rtFiles, nodeFiles, gens>>
    /\ UnchangedButFiles

\* RuntimeInstaller.Remove and ManagedNodeInstaller.Remove.  A runtime that is
\* already gone counts as removed; a Node installation without its manifest is
\* refused.
RemoveFiles ==
    /\ gop.pc = "files"
    /\ \/ /\ gop.kind = "delrt"
          /\ rtFiles' = [v \in Managed |-> IF v = gop.id THEN 0 ELSE rtFiles[v]]
          /\ gop' = [gop EXCEPT !.pc = "read"]
          /\ UNCHANGED nodeFiles
       \/ /\ gop.kind = "delnode"
          /\ gop.id \in nodeFiles
          /\ nodeFiles' = nodeFiles \ {gop.id}
          /\ gop' = [gop EXCEPT !.pc = "read"]
          /\ UNCHANGED rtFiles
       \/ GopEnds /\ UNCHANGED <<rtFiles, nodeFiles>>
    /\ UNCHANGED <<rtBackup, gens>>
    /\ UnchangedButFiles

-----------------------------------------------------------------------------
(* Read the state, save it with the change, publish the change.            *)

\* installLatestNode, called for itself or within an installation.
InstallsNode == gop.kind \in {"node", "install"} /\ gop.node # 0

Changed(s) ==
    CASE gop.kind = "releases" -> [s EXCEPT !.rel = gop.rel]
      [] InstallsNode -> [s EXCEPT !.nodes = @ \cup {gop.node}]
      [] gop.kind \in {"register", "install"} /\ gop.node = 0 ->
            [s EXCEPT !.rt[gop.id] = Version(gop.id)]
      [] gop.kind = "adddir" -> [s EXCEPT !.dirs = @ \cup {gop.id}]
      [] gop.kind = "deldir" -> [s EXCEPT !.dirs = @ \ {gop.id}]
      [] gop.kind = "delrt" -> [s EXCEPT !.rt[gop.id] = 0]
      [] gop.kind = "delnode" -> [s EXCEPT !.nodes = @ \ {gop.id}]
      [] OTHER -> [s EXCEPT !.conf = CHOOSE c \in Contexts :
                                        c.rt = gop.id /\ c.node = gop.node]

\* Mutant: memory changes before the save that may fail.
OpReadsEarly ==
    /\ gop.pc = "read"
    /\ gop' = [gop EXCEPT !.pc = "save", !.snap = Changed(mem)]
    /\ mem' = Changed(mem)
    /\ overlapped' = (overlapped \/ \E l \in Launchers : Holding(l))
    /\ UNCHANGED <<saved, current, switching, launches, hostOp, rtFiles, rtBackup,
                   nodeFiles, systemVersion, kept, gens, ops, catalogCrashes, unprotected>>

OpReads ==
    /\ gop.pc = "read"
    /\ gop' = [gop EXCEPT !.pc = "save", !.snap = Changed(mem)]
    /\ overlapped' = (overlapped \/ \E l \in Launchers : Holding(l))
    /\ UNCHANGED <<mem, saved, current, switching, launches, hostOp, rtFiles, rtBackup,
                   nodeFiles, systemVersion, kept, gens, ops, catalogCrashes, unprotected>>

OpSaves ==
    /\ gop.pc = "save"
    /\ saved' = gop.snap
    /\ gop' = [gop EXCEPT !.pc = "publish"]
    /\ UNCHANGED <<mem, current, switching, launches, hostOp, rtFiles, rtBackup, nodeFiles,
                   systemVersion, kept, overlapped, gens, ops, catalogCrashes, unprotected>>

\* saveState fails: an installation takes its candidate back, every other
\* operation just returns.
OpSaveFails ==
    /\ gop.pc = "save"
    /\ IF gop.kind = "install" /\ gop.node = 0
       THEN Discard(gop.id) /\ UNCHANGED nodeFiles
       ELSE /\ nodeFiles' = IF InstallsNode /\ ~gop.known
                            THEN nodeFiles \ {gop.node} ELSE nodeFiles
            /\ UNCHANGED <<rtFiles, rtBackup>>
    /\ GopEnds
    /\ UNCHANGED gens
    /\ UnchangedButFiles

OpPublishes ==
    /\ gop.pc = "publish"
    /\ LET s == gop.snap
           field == CASE gop.kind = "releases" -> [mem EXCEPT !.rel = s.rel]
                      [] InstallsNode \/ gop.kind = "delnode" -> [mem EXCEPT !.nodes = s.nodes]
                      [] gop.kind \in {"adddir", "deldir"} -> [mem EXCEPT !.dirs = s.dirs]
                      [] gop.kind = "configure" -> [mem EXCEPT !.conf = s.conf]
                      [] OTHER -> [mem EXCEPT !.rt = s.rt]
       IN  mem' = field
    /\ kept' = IF gop.kind = "install" /\ gop.node = 0 THEN kept \cup {gop.id}
               ELSE IF gop.kind = "delrt" THEN kept \ {gop.id} ELSE kept
    /\ gop' = IF gop.kind # "install" THEN IdleGop
              ELSE IF gop.node # 0 THEN [gop EXCEPT !.pc = "package", !.node = 0]
              ELSE [gop EXCEPT !.pc = "finalize"]
    /\ UNCHANGED <<saved, current, switching, launches, hostOp, rtFiles, rtBackup, nodeFiles,
                   systemVersion, overlapped, gens, ops, catalogCrashes, unprotected>>

-----------------------------------------------------------------------------
(* ResolveLaunch, which holds nothing.                                     *)

UnchangedButLaunch == UNCHANGED <<current, switching, gop, rtFiles, rtBackup, nodeFiles,
                                  systemVersion, kept, gens, ops, catalogCrashes>>

LaunchTo(l, pc) == launches' = [launches EXCEPT ![l].pc = pc]

\* A runtime whose installation is under way: its candidate may yet be discarded.
Installing(v) == gop.kind = "install" /\ gop.pc # "finalize" /\ gop.id = v

\* The catalogue entry, the executable and the Node of the target.  The launch asks for no
\* guard, so the files it finds may be a candidate's.
ResolveLaunch(l) ==
    /\ launches[l].pc = "resolve"
    /\ LET c == launches[l].target IN
       IF /\ c.rt \in Registered(mem) /\ Present(c.rt)
          /\ c.node \in (mem.nodes \cap nodeFiles) \cup {0}
          /\ c.dir \in mem.dirs \cup {0}
       THEN /\ launches' = [launches EXCEPT ![l].pc = "verify", ![l].seen = mem.rt[c.rt]]
            /\ unprotected' = (unprotected \/ Installing(c.rt))
       ELSE LaunchTo(l, "failed") /\ UNCHANGED unprotected
    /\ UNCHANGED <<mem, saved, hostOp, overlapped>>
    /\ UnchangedButLaunch

\* verifyRuntimeWithEnvironment and observeRuntimeVersion
Observe(l) ==
    /\ launches[l].pc = "verify"
    /\ LET v == launches[l].target.rt IN
       IF ~Present(v) THEN LaunchTo(l, "failed")
       ELSE IF launches[l].seen = Version(v) THEN LaunchTo(l, "resolved")
       ELSE LaunchTo(l, "read")
    /\ UNCHANGED <<mem, saved, hostOp, overlapped, unprotected>>
    /\ UnchangedButLaunch

\* registerRuntime, without the gate.
LaunchReads(l) ==
    /\ launches[l].pc = "read"
    /\ LET v == launches[l].target.rt IN
       launches' = [launches EXCEPT ![l].pc = "save",
                                    ![l].snap = [mem EXCEPT !.rt[v] = Version(v)]]
    /\ overlapped' = (overlapped \/ GateHolding \/ \E k \in Launchers : Holding(k))
    /\ UNCHANGED <<mem, saved, hostOp, unprotected>>
    /\ UnchangedButLaunch

LaunchSaves(l) ==
    /\ launches[l].pc = "save"
    /\ \/ LaunchTo(l, "publish") /\ saved' = launches[l].snap
       \/ LaunchTo(l, "failed") /\ UNCHANGED saved
    /\ UNCHANGED <<mem, hostOp, overlapped, unprotected>>
    /\ UnchangedButLaunch

LaunchPublishes(l) ==
    /\ launches[l].pc = "publish"
    /\ mem' = [mem EXCEPT !.rt = launches[l].snap.rt]
    /\ LaunchTo(l, "resolved")
    /\ UNCHANGED <<saved, hostOp, overlapped, unprotected>>
    /\ UnchangedButLaunch

\* The browser and computer runtimes resolve the current context for its Node.
AutomationResolves ==
    /\ launches["automation"].pc = "idle"
    /\ current # NoContext
    /\ ops < MaxOperations /\ ops' = ops + 1
    /\ launches' = [launches EXCEPT !["automation"] = [IdleLaunch EXCEPT
                        !.pc = "resolve", !.target = current]]
    /\ UNCHANGED <<mem, saved, current, switching, gop, hostOp, rtFiles, rtBackup, nodeFiles,
                   systemVersion, kept, overlapped, gens, catalogCrashes, unprotected>>

AutomationReturns ==
    /\ launches["automation"].pc \in {"resolved", "failed"}
    /\ launches' = [launches EXCEPT !["automation"] = IdleLaunch]
    /\ UNCHANGED <<mem, saved, hostOp, overlapped, unprotected>>
    /\ UnchangedButLaunch

-----------------------------------------------------------------------------
(* The Host: start the configured context, switch, stop.                   *)

UnchangedButHost == UNCHANGED <<gop, rtFiles, rtBackup, nodeFiles, systemVersion, kept,
                                gens, catalogCrashes, unprotected>>

HostLaunch(c) == launches' = [launches EXCEPT !["host"] = [IdleLaunch EXCEPT
                                 !.pc = "resolve", !.target = c]]

\* The process of SetConfigured runs no Host.
NoCLI == gop.kind # "configure"

HostStarts ==
    /\ hostOp = IdleHost /\ current = NoContext /\ NoCLI
    /\ ops < MaxOperations /\ ops' = ops + 1
    /\ hostOp' = [kind |-> "start", pc |-> "launch", target |-> mem.conf]
    /\ HostLaunch(mem.conf)
    /\ UNCHANGED <<mem, saved, current, switching, overlapped>>
    /\ UnchangedButHost

\* Mutant: the guard goes up and the switch goes on at once.
BeginSwitchUndrained(c) ==
    /\ hostOp = IdleHost /\ ~switching /\ NoCLI
    /\ ops < MaxOperations /\ ops' = ops + 1
    /\ switching' = TRUE
    /\ hostOp' = [kind |-> "switch", pc |-> "launch", target |-> c]
    /\ HostLaunch(c)
    /\ UNCHANGED <<mem, saved, current, overlapped>>
    /\ UnchangedButHost

\* BeginRunContextSwitch: raise the mutation guard, ...
BeginRunContextSwitch(c) ==
    /\ hostOp = IdleHost /\ ~switching /\ NoCLI
    /\ ops < MaxOperations /\ ops' = ops + 1
    /\ switching' = TRUE
    /\ hostOp' = [kind |-> "switch", pc |-> "drain", target |-> c]
    /\ UNCHANGED <<mem, saved, current, launches, overlapped>>
    /\ UnchangedButHost

\* ... then wait for the operation that may hold the gate, or give up.
Drain ==
    /\ hostOp.pc = "drain"
    /\ \/ /\ GateFree
          /\ hostOp' = [hostOp EXCEPT !.pc = "launch"]
          /\ HostLaunch(hostOp.target)
          /\ UNCHANGED switching
       \/ /\ switching' = FALSE
          /\ hostOp' = IdleHost
          /\ UNCHANGED launches
    /\ UNCHANGED <<mem, saved, current, overlapped, ops>>
    /\ UnchangedButHost

\* stopRun: the current context is cleared under the gate, before the
\* candidate starts.
ClearCurrent ==
    /\ hostOp.kind = "switch" /\ hostOp.pc = "launch"
    /\ launches["host"].pc = "resolved"
    /\ GateFree
    /\ hostOp' = [hostOp EXCEPT !.pc = "run"]
    /\ current' = NoContext
    /\ UNCHANGED <<mem, saved, switching, launches, overlapped, ops>>
    /\ UnchangedButHost

Committing == \/ hostOp.kind = "switch" /\ hostOp.pc = "run"
              \/ hostOp.kind = "start" /\ launches["host"].pc = "resolved"

\* commitVersionHealthy: current and configured change whatever the save says.
CommitHealthy(ok, verified) ==
    /\ Committing
    /\ GateFree
    /\ LET c == hostOp.target
           s == [mem EXCEPT !.conf = c, !.known = IF verified THEN c ELSE @]
       IN  /\ saved' = IF ok THEN s ELSE saved
           /\ mem' = IF ok THEN s ELSE [mem EXCEPT !.conf = c]
           /\ current' = c
    /\ overlapped' = (overlapped \/ \E l \in Launchers : Holding(l))
    /\ switching' = FALSE
    /\ hostOp' = IdleHost
    /\ launches' = [launches EXCEPT !["host"] = IdleLaunch]
    /\ UNCHANGED ops
    /\ UnchangedButHost

\* The candidate did not start.  RecordSwitchAttempt may make it the configured
\* context when nothing is current; the guard is released.
LaunchFails(configure) ==
    /\ \/ Committing
       \/ hostOp.pc = "launch" /\ launches["host"].pc = "failed"
    /\ configure => hostOp.kind = "switch" /\ current = NoContext
    /\ LET s == [mem EXCEPT !.conf = IF configure THEN hostOp.target ELSE @] IN
       IF hostOp.kind = "switch" THEN saved' = s /\ mem' = s
       ELSE UNCHANGED <<saved, mem>>
    /\ overlapped' = (overlapped \/ GateHolding \/ \E l \in Launchers : Holding(l))
    /\ switching' = FALSE
    /\ hostOp' = IdleHost
    /\ launches' = [launches EXCEPT !["host"] = IdleLaunch]
    /\ UNCHANGED <<current, ops>>
    /\ UnchangedButHost

\* The Worker ends: the stop guard, ClearCurrent, and the guard again.
HostStops ==
    /\ hostOp = IdleHost /\ current # NoContext /\ GateFree
    /\ current' = NoContext
    /\ UNCHANGED <<mem, saved, switching, launches, hostOp, overlapped, ops>>
    /\ UnchangedButHost

\* The user updates the system runtime (external).
Drift ==
    /\ systemVersion < 1 + MaxDrifts
    /\ systemVersion' = systemVersion + 1
    /\ UNCHANGED <<mem, saved, current, switching, gop, launches, hostOp, rtFiles, rtBackup,
                   nodeFiles, kept, overlapped, gens, ops, catalogCrashes, unprotected>>

\* The process dies and New reads state.json again: the known-good context is
\* the last-running point's, what was set aside is forgotten on disk.
CrashCatalog ==
    /\ catalogCrashes < MaxCatalogCrashes
    /\ catalogCrashes' = catalogCrashes + 1
    /\ mem' = [saved EXCEPT !.rt[System] = IF @ = 0 THEN 1 ELSE @]
    /\ current' = NoContext
    /\ switching' = FALSE
    /\ gop' = IdleGop
    /\ launches' = [l \in Launchers |-> IdleLaunch]
    /\ hostOp' = IdleHost
    /\ rtBackup' = [v \in Managed |-> 0]
    /\ kept' = Registered(saved) \ {System}
    /\ overlapped' = FALSE
    /\ unprotected' = (unprotected \/ saved.known # mem.known)
    /\ UNCHANGED <<saved, rtFiles, nodeFiles, systemVersion, gens, ops>>

Next ==
    \/ \E R \in SUBSET Managed : RefreshDSHReleases(R)
    \/ RegisterRuntime
    \/ \E d \in Directories : RegisterDataDirectory(d) \/ RemoveDataDirectory(d)
    \/ \E v \in Managed : RemoveRuntime(v) \/ InstallRuntime(v)
    \/ \E n \in Nodes : RemoveNode(n) \/ InstallLatestNode(n)
    \/ \E c \in Contexts : SetConfigured(c) \/ BeginRunContextSwitch(c)
    \/ Toolchain \/ NodeInstalled \/ NodeRefused \/ NodeAccepted
    \/ Package \/ SetAside \/ CommitFiles \/ CandidateRefused \/ CandidateVerified
    \/ FinalizeFiles \/ RemoveFiles
    \/ OpReads \/ OpSaves \/ OpSaveFails \/ OpPublishes
    \/ \E l \in Launchers : \/ ResolveLaunch(l) \/ Observe(l) \/ LaunchReads(l)
                            \/ LaunchSaves(l) \/ LaunchPublishes(l)
    \/ AutomationResolves \/ AutomationReturns
    \/ HostStarts \/ Drain \/ ClearCurrent \/ HostStops \/ Drift \/ CrashCatalog
    \/ \E ok, verified \in BOOLEAN : CommitHealthy(ok, verified)
    \/ \E configure \in BOOLEAN : LaunchFails(configure)

Spec == Init /\ [][Next]_catalogVars

-----------------------------------------------------------------------------
(* Properties.                                                             *)

Catalog(c) == <<c.rt, c.nodes, c.dirs, c.rel>>
AtRest == GateFree /\ \A l \in Launchers : ~Holding(l)

\* State is well typed, only a switch raises the mutation guard, and an
\* operation that was let in before the guard went up is over once the switch
\* has drained the gate - but for the release refresh, which asks for no guard.
CatalogTypeOK ==
    /\ current \in Contexts \cup {NoContext}
    /\ mem.conf \in Contexts /\ mem.known \in Contexts \cup {NoContext}
    /\ nodeFiles \subseteq Nodes
    /\ switching = (hostOp.kind = "switch")
    /\ hostOp.kind = "switch" /\ hostOp.pc \in {"launch", "run"} =>
          gop.kind \in {"idle", "releases"}

\* The runtime and the Node of the current and of the known-good context are there.
InUseIsPresent ==
    \A c \in {current, mem.known} \ {NoContext} :
        Present(c.rt) /\ c.node \in nodeFiles \cup {0}

\* They stay there whatever the Manager installs and removes, as long as no launch ever
\* resolved on a candidate and no restart read back an older known-good context.
SelectedKeepsFiles == ~unprotected => InUseIsPresent

FailedInstallStep ==
    gop.kind = "install" /\ gop.pc # "finalize" /\ gop' = IdleGop /\ catalogCrashes' = catalogCrashes
        => rtFiles'[gop.id] = gop.before /\ rtBackup'[gop.id] = 0

\* An installation that does not register its candidate leaves the directory
\* as it found it: no candidate without an entry, no tree lost aside.
FailedInstallRestores == [][FailedInstallStep]_catalogVars

\* When no two savers ever held the state at once, the catalogue in memory is
\* the one in state.json and no registered runtime is lost from it.
CatalogIsSaved ==
    ~overlapped /\ AtRest => /\ Catalog(mem) = Catalog(saved)
                             /\ kept \subseteq Registered(mem)

\* Manager operations are serialized: what one registered, another never
\* undoes.
InstalledStaysRegistered == AtRest => kept \subseteq Registered(mem)
=============================================================================
