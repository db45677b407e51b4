------------------------------ MODULE MCDesktop ------------------------------
(*****************************************************************************)
(* Components of the desktop application that share no variable, checked in  *)
(* one run: part chooses the component that runs, and the others hold no     *)
(* state. Each is a module of its own with its own actions and properties;   *)
(* this module only puts them side by side, so that one run explores the     *)
(* behaviours of each of them. The properties are those of the components.   *)
(*****************************************************************************)
EXTENDS Naturals, Sequences, FiniteSets, TLC

CONSTANTS
    Requests, Calls, Channels, Runners, Switchers, MaxSwitches, Publishers, MaxValues,
    MaxTimers, Surfaces, Instances, Sessions, Keys, MaxRemembered, MaxReports,
    QueueLimit, FocusQueue, MaxUICommands, MaxFocusEvents, MaxLaunches, Callers,
    MaxSets, MaxCrashes, Roots, Datas, DefaultRoot, DefaultData, Daemons, Clis, Purges,
    MaxSaves, MaxKills, Openers, MaxGenerations, MaxRuns, MaxNavigations, MaxRetries,
    Procs, Root, MaxOutput, MaxHostStops, SourceKeys, OwnKeys, SourceSpaces, OwnSpaces,
    FreshIds, MaxImports,
    MaxFailures, First, CloneNames, RestoredNames, Files, MaxProfileOps,
    MaxProfileCrashes, RuntimeOps, PluginOps, HasMirror, Frames

\* The tree of a Worker has a root, and the bounds are numbers.
ASSUME JobAssumption == Root \in Procs /\ MaxOutput \in Nat /\ MaxHostStops \in Nat
\* "none" stands for no channel and for no goroutine; there is a goroutine to run on.
ASSUME UpdateAssumption ==
    Runners # {} /\ MaxSwitches \in Nat /\ "none" \notin Channels /\ "none" \notin Runners
\* "nobody" stands for no setter that holds a lock.
ASSUME SettingsAssumption == "nobody" \notin Callers
\* The application's data and the user's lie in different places, at first in the default
\* ones; a process is a daemon, an offline command or a purge, and "nobody" is none of them.
ASSUME StorageAssumption ==
    /\ DefaultRoot \in Roots /\ DefaultData \in Datas /\ Roots \cap Datas = {}
    /\ "nobody" \notin Roots \cup Datas \cup Daemons \cup Clis \cup Purges
    /\ Daemons \cap Clis = {} /\ Daemons \cap Purges = {} /\ Clis \cap Purges = {}
    /\ MaxSaves \in Nat /\ MaxKills \in Nat
\* The names a clone or a restored profile is given are numbered.
ASSUME StoreAssumption == CloneNames \subseteq Nat /\ RestoredNames \subseteq Nat
\* What the managed profile has of the source's keys is some of them; workspaces have an id,
\* a path and sessions, the managed profile's an id each; and an unused id can always be
\* generated.
ASSUME ImportAssumption ==
    /\ IsFiniteSet(SourceKeys) /\ OwnKeys \subseteq SourceKeys
    /\ \A s \in {SourceSpaces, OwnSpaces} :
          s \in Seq([id : {s[i].id : i \in DOMAIN s}, path : {s[i].path : i \in DOMAIN s},
                    sess : {s[i].sess : i \in DOMAIN s}])
    /\ \A i, j \in DOMAIN OwnSpaces : OwnSpaces[i].id = OwnSpaces[j].id => i = j
    /\ IsFiniteSet(FreshIds) /\ Cardinality(FreshIds) > Len(OwnSpaces) + Len(SourceSpaces)
\* The bounds of the publisher are numbers.
ASSUME PublishAssumption == MaxValues \in Nat /\ MaxTimers \in Nat
\* A Worker lists a finite number of conversations, each once; ids and times are ordered
\* like numbers.
ASSUME ActivityAssumption ==
    /\ MaxGenerations \in Nat /\ MaxRuns \in Nat /\ MaxNavigations \in Nat /\ MaxRetries \in Nat
    /\ \A frame \in Frames :
          /\ IsFiniteSet(frame)
          /\ \A a \in frame : a.id \in Nat /\ a.updatedAt \in Nat
          /\ \A a, b \in frame : a.id = b.id => a = b
\* A page has a finite number of conversations; "nobody" is no page and no window, "none"
\* no interaction and no conversation; the router remembers one event at least.
ASSUME AskAssumption ==
    /\ IsFiniteSet(Surfaces) /\ IsFiniteSet(Sessions)
    /\ "nobody" \notin Surfaces \cup Instances /\ "none" \notin Keys \cup Sessions
    /\ MaxRemembered \in Nat \ {0} /\ MaxReports \in Nat
\* A queue holds one command or one report at least.
ASSUME UIAssumption ==
    /\ QueueLimit \in Nat \ {0} /\ FocusQueue \in Nat \ {0}
    /\ MaxUICommands \in Nat /\ MaxFocusEvents \in Nat /\ MaxLaunches \in Nat
\* A call is of a runtime or of a plugin, and "nobody" is none.
ASSUME AcquireAssumption ==
    RuntimeOps \cap PluginOps = {} /\ "nobody" \notin RuntimeOps \cup PluginOps

VARIABLES
    part,    \* the component that runs
    at, asked, confirmBusy, exitPending, quitting, inProgress, draining, call, tracked,
    revoked, shutdown, shuttingDown,
    phase, release, busy, exitClaimed, started, active, backend, channel, staged, disk,
    armed, op, sw, quits, overlapped,
    recent, hasPublished, pendingValue, timer, timerID, outbox, drainingOut, closed,
    firing, accepted, drainer, published,
    pages, owners, changes, dispatching, handing, focusedOn, allowed, seen, seenOrder,
    seenNext, seenCount, screen, reports,
    appStarted, protocolPending, launch, wanted, launches, exists, visible, uiQuitting,
    noticeBusy, acknowledged, notice, petReady, queued, emitted, uiCommands,
    nativeFocus, focusQ, sending, reported, focusClosed, focusEvents,
    prefs, savedPrefs, muBy, importPending, pubBy, shown, applied, selected, calls,
    sets, crashes, lastWrite,
    config, content, lockFile, lock, proc, boundary, saves, kills, purged,
    outdated,
    bridgeGen, client, online, activities, navError, navBy, navID, navSeq, navTimers,
    opens, streamRuns, doneRun, lifeOp,
    jobProc, inJob, jobHandle, processHandle, pipesClosed, exitWait, outReaders,
    eventsClosed, outQueued, closeMu, boundaryClosed, boundaryOwner, ownerKind,
    verified, asker, hostAlive, startCtx, hostStops,
    creds, rows, spaces, sessions, temps, skipped, extras, plugins, step, offered,
    report, imports, importCrashes, importFailures,
    dirs, vault, legacy, pop, restore, chosen, pswitch, points, records, pickable, made,
    litter, uids, profileOps, profileCrashes,
    job, runtimeCancel, cancelCall, opGate, statuses, staging, plugin, provenance,
    provenanceFile

quitVars == <<at, asked, confirmBusy, exitPending, quitting, inProgress, draining, call,
              tracked, revoked, shutdown, shuttingDown>>
updateVars == <<phase, release, busy, exitClaimed, started, active, backend, channel,
                staged, disk, armed, op, sw, quits, overlapped>>
publishVars == <<recent, hasPublished, pendingValue, timer, timerID, outbox,
                 drainingOut, closed, firing, accepted, drainer, published>>
askVars == <<pages, owners, changes, dispatching, handing, focusedOn, allowed, seen,
             seenOrder, seenNext, seenCount, screen, reports>>
uiVars == <<appStarted, protocolPending, launch, wanted, launches, exists, visible,
            uiQuitting, noticeBusy, acknowledged, notice, petReady, queued, emitted,
            uiCommands, nativeFocus, focusQ, sending, reported, focusClosed, focusEvents>>
settingsVars == <<prefs, savedPrefs, muBy, importPending, pubBy, shown, applied,
                  selected, calls, sets, crashes, lastWrite>>
storageVars == <<config, content, lockFile, lock, proc, boundary, saves, kills, purged,
                 outdated>>
activityVars == <<bridgeGen, client, online, activities, navError, navBy, navID, navSeq,
                  navTimers, opens, streamRuns, doneRun, lifeOp>>
jobVars == <<jobProc, inJob, jobHandle, processHandle, pipesClosed, exitWait,
             outReaders, eventsClosed, outQueued, closeMu, boundaryClosed,
             boundaryOwner, ownerKind, verified, asker, hostAlive, startCtx, hostStops>>
importVars == <<creds, rows, spaces, sessions, temps, skipped, extras, plugins, step,
                offered, report, imports, importCrashes, importFailures>>
storeVars == <<dirs, vault, legacy, pop, restore, chosen, pswitch, points, records,
               pickable, made, litter, uids, profileOps, profileCrashes>>
acquireVars == <<job, runtimeCancel, cancelCall, opGate, statuses, staging, plugin,
                 provenance, provenanceFile>>

\* The workspaces of an import: two of the source share a folder with one of the
\* own, and one has an id the own one uses for another folder.
ImportedSpaces == <<[id |-> 1, path |-> "p", sess |-> {"a"}],
                    [id |-> 2, path |-> "q", sess |-> {"b"}],
                    [id |-> 3, path |-> "q", sess |-> {"c"}]>>
ManagedSpaces == <<[id |-> 1, path |-> "r", sess |-> {"d"}],
                   [id |-> 4, path |-> "q", sess |-> {"e"}]>>

\* The snapshots a Worker sends: none at work, one that waits for the user beside
\* one that runs, and one with a failed job beside one that runs and one that ended.
Conversation(id, running, outcome, interaction, jobs) ==
    [id |-> id, running |-> running, outcome |-> outcome, interaction |-> interaction,
     goalBlocked |-> FALSE, jobs |-> jobs, phase |-> "working", updatedAt |-> 1,
     liveCompletion |-> TRUE]
SomeFrames ==
    { {},
      { Conversation(1, TRUE, "", "none", {}),
        Conversation(2, FALSE, "completed", "approval", {}) },
      { Conversation(1, TRUE, "error", "none", {}),
        Conversation(2, FALSE, "completed", "none", {"failed", "running"}),
        Conversation(3, FALSE, "aborted", "none", {}) } }

Quit == INSTANCE QuitFlow
Update == INSTANCE SelfUpdate
Publish == INSTANCE Publishing
Ask == INSTANCE Interactions
UI == INSTANCE DesktopUI
Prefs == INSTANCE Settings
Storage == INSTANCE StorageMove
Activity == INSTANCE ActivityBridge
Job == INSTANCE JobWorker
Import == INSTANCE ProfileImport
Store == INSTANCE ProfileStore
Acquire == INSTANCE Acquisition

\* A component that does not run has no state: its variables hold this value.
Rest == "rest"

QuitRests == /\ at = Rest /\ asked = Rest /\ confirmBusy = Rest /\ exitPending = Rest
             /\ quitting = Rest /\ inProgress = Rest /\ draining = Rest /\ call = Rest
             /\ tracked = Rest /\ revoked = Rest /\ shutdown = Rest
             /\ shuttingDown = Rest
UpdateRests == /\ phase = Rest /\ release = Rest /\ busy = Rest /\ exitClaimed = Rest
               /\ started = Rest /\ active = Rest /\ backend = Rest /\ channel = Rest
               /\ staged = Rest /\ disk = Rest /\ armed = Rest /\ op = Rest /\ sw = Rest
               /\ quits = Rest /\ overlapped = Rest
PublishRests == /\ recent = Rest /\ hasPublished = Rest /\ pendingValue = Rest
                /\ timer = Rest /\ timerID = Rest /\ outbox = Rest /\ drainingOut = Rest
                /\ closed = Rest /\ firing = Rest /\ accepted = Rest /\ drainer = Rest
                /\ published = Rest
AskRests == /\ pages = Rest /\ owners = Rest /\ changes = Rest /\ dispatching = Rest
            /\ handing = Rest /\ focusedOn = Rest /\ allowed = Rest /\ seen = Rest
            /\ seenOrder = Rest /\ seenNext = Rest /\ seenCount = Rest /\ screen = Rest
            /\ reports = Rest
UIRests == /\ appStarted = Rest /\ protocolPending = Rest /\ launch = Rest
           /\ wanted = Rest /\ launches = Rest /\ exists = Rest /\ visible = Rest
           /\ uiQuitting = Rest /\ noticeBusy = Rest /\ acknowledged = Rest
           /\ notice = Rest /\ petReady = Rest /\ queued = Rest /\ emitted = Rest
           /\ uiCommands = Rest /\ nativeFocus = Rest /\ focusQ = Rest /\ sending = Rest
           /\ reported = Rest /\ focusClosed = Rest /\ focusEvents = Rest
PrefsRests == /\ prefs = Rest /\ savedPrefs = Rest /\ muBy = Rest
              /\ importPending = Rest /\ pubBy = Rest /\ shown = Rest /\ applied = Rest
              /\ selected = Rest /\ calls = Rest /\ sets = Rest /\ crashes = Rest
              /\ lastWrite = Rest
StorageRests == /\ config = Rest /\ content = Rest /\ lockFile = Rest /\ lock = Rest
                /\ proc = Rest /\ boundary = Rest /\ saves = Rest /\ kills = Rest
                /\ purged = Rest /\ outdated = Rest
ActivityRests == /\ bridgeGen = Rest /\ client = Rest /\ online = Rest
                 /\ activities = Rest /\ navError = Rest /\ navBy = Rest /\ navID = Rest
                 /\ navSeq = Rest /\ navTimers = Rest /\ opens = Rest
                 /\ streamRuns = Rest /\ doneRun = Rest /\ lifeOp = Rest
JobRests == /\ jobProc = Rest /\ inJob = Rest /\ jobHandle = Rest
            /\ processHandle = Rest /\ pipesClosed = Rest /\ exitWait = Rest
            /\ outReaders = Rest /\ eventsClosed = Rest /\ outQueued = Rest
            /\ closeMu = Rest /\ boundaryClosed = Rest /\ boundaryOwner = Rest
            /\ ownerKind = Rest /\ verified = Rest /\ asker = Rest /\ hostAlive = Rest
            /\ startCtx = Rest /\ hostStops = Rest
ImportRests == /\ creds = Rest /\ rows = Rest /\ spaces = Rest /\ sessions = Rest
               /\ temps = Rest /\ skipped = Rest /\ extras = Rest /\ plugins = Rest
               /\ step = Rest /\ offered = Rest /\ report = Rest /\ imports = Rest
               /\ importCrashes = Rest /\ importFailures = Rest
StoreRests == /\ dirs = Rest /\ vault = Rest /\ legacy = Rest /\ pop = Rest
              /\ restore = Rest /\ chosen = Rest /\ pswitch = Rest /\ points = Rest
              /\ records = Rest /\ pickable = Rest /\ made = Rest /\ litter = Rest
              /\ uids = Rest /\ profileOps = Rest /\ profileCrashes = Rest
AcquireRests == /\ job = Rest /\ runtimeCancel = Rest /\ cancelCall = Rest
                /\ opGate = Rest /\ statuses = Rest /\ staging = Rest /\ plugin = Rest
                /\ provenance = Rest /\ provenanceFile = Rest

DesktopInit ==
    /\ part \in {"quit", "update", "publish", "ask", "ui", "settings", "storage",
                 "activity", "job", "import", "store", "acquire"}
    /\ IF part = "quit" THEN Quit!Init ELSE QuitRests
    /\ IF part = "update" THEN Update!Init ELSE UpdateRests
    /\ IF part = "publish" THEN Publish!Init ELSE PublishRests
    /\ IF part = "ask" THEN Ask!Init ELSE AskRests
    /\ IF part = "ui" THEN UI!Init ELSE UIRests
    /\ IF part = "settings" THEN Prefs!Init ELSE PrefsRests
    /\ IF part = "storage" THEN Storage!Init ELSE StorageRests
    /\ IF part = "activity" THEN Activity!ActivityInit ELSE ActivityRests
    /\ IF part = "job" THEN Job!JobInit ELSE JobRests
    /\ IF part = "import" THEN Import!ImportInit ELSE ImportRests
    /\ IF part = "store" THEN Store!Init ELSE StoreRests
    /\ IF part = "acquire" THEN Acquire!Init ELSE AcquireRests

QuitNext ==
    /\ part = "quit" /\ Quit!Next
    /\ UNCHANGED <<part, updateVars, publishVars, askVars, uiVars, settingsVars,
                   storageVars, activityVars, jobVars, importVars, storeVars,
                   acquireVars>>
UpdateNext ==
    /\ part = "update" /\ Update!Next
    /\ UNCHANGED <<part, quitVars, publishVars, askVars, uiVars, settingsVars,
                   storageVars, activityVars, jobVars, importVars, storeVars,
                   acquireVars>>
PublishNext ==
    /\ part = "publish" /\ Publish!Next
    /\ UNCHANGED <<part, quitVars, updateVars, askVars, uiVars, settingsVars,
                   storageVars, activityVars, jobVars, importVars, storeVars,
                   acquireVars>>
AskNext ==
    /\ part = "ask" /\ Ask!Next
    /\ UNCHANGED <<part, quitVars, updateVars, publishVars, uiVars, settingsVars,
                   storageVars, activityVars, jobVars, importVars, storeVars,
                   acquireVars>>
UINext ==
    /\ part = "ui" /\ UI!Next
    /\ UNCHANGED <<part, quitVars, updateVars, publishVars, askVars, settingsVars,
                   storageVars, activityVars, jobVars, importVars, storeVars,
                   acquireVars>>
PrefsNext ==
    /\ part = "settings" /\ Prefs!Next
    /\ UNCHANGED <<part, quitVars, updateVars, publishVars, askVars, uiVars,
                   storageVars, activityVars, jobVars, importVars, storeVars,
                   acquireVars>>
StorageNext ==
    /\ part = "storage" /\ Storage!Next
    /\ UNCHANGED <<part, quitVars, updateVars, publishVars, askVars, uiVars,
                   settingsVars, activityVars, jobVars, importVars, storeVars,
                   acquireVars>>
ActivityNext ==
    /\ part = "activity" /\ Activity!ActivityNext
    /\ UNCHANGED <<part, quitVars, updateVars, publishVars, askVars, uiVars,
                   settingsVars, storageVars, jobVars, importVars, storeVars,
                   acquireVars>>
JobNext ==
    /\ part = "job" /\ Job!JobNext
    /\ UNCHANGED <<part, quitVars, updateVars, publishVars, askVars, uiVars,
                   settingsVars, storageVars, activityVars, importVars, storeVars,
                   acquireVars>>
ImportNext ==
    /\ part = "import" /\ Import!ImportNext
    /\ UNCHANGED <<part, quitVars, updateVars, publishVars, askVars, uiVars,
                   settingsVars, storageVars, activityVars, jobVars, storeVars,
                   acquireVars>>
StoreNext ==
    /\ part = "store" /\ Store!Next
    /\ UNCHANGED <<part, quitVars, updateVars, publishVars, askVars, uiVars,
                   settingsVars, storageVars, activityVars, jobVars, importVars,
                   acquireVars>>
AcquireNext ==
    /\ part = "acquire" /\ Acquire!Next
    /\ UNCHANGED <<part, quitVars, updateVars, publishVars, askVars, uiVars,
                   settingsVars, storageVars, activityVars, jobVars, importVars,
                   storeVars>>

DesktopNext ==
    \/ QuitNext
    \/ UpdateNext
    \/ PublishNext
    \/ AskNext
    \/ UINext
    \/ PrefsNext
    \/ StorageNext
    \/ ActivityNext
    \/ JobNext
    \/ ImportNext
    \/ StoreNext
    \/ AcquireNext
DesktopVars == <<part, quitVars, updateVars, publishVars, askVars, uiVars, settingsVars,
                  storageVars, activityVars, jobVars, importVars, storeVars, acquireVars>>

\* What follows a daemon that began on an outdated record, or a purge that has ended,
\* is not explored: the properties of StorageMove say nothing of it.
DesktopConstraint == part = "storage" => ~outdated /\ (purged => boundary # Storage!Free)

\* Daemons, setters and runtime operations are told apart by nothing but their name.
DesktopSymmetry ==
    Permutations(Daemons) \cup Permutations(Callers) \cup Permutations(RuntimeOps)

DesktopSpec == DesktopInit /\ [][DesktopNext]_DesktopVars

\* The state of the component that runs keeps its type, and what the parts of
\* that type say of each other holds.
DesktopTypeOK ==
    /\ part = "quit" => Quit!TypeOK
    /\ part = "update" => Update!TypeOK
    /\ part = "publish" => Publish!TypeOK
    /\ part = "ask" => Ask!TypeOK
    /\ part = "ui" => UI!TypeOK
    /\ part = "settings" => Prefs!SettingsTypeOK
    /\ part = "storage" => Storage!StorageTypeOK
    /\ part = "activity" => Activity!ActivityTypeOK
    /\ part = "job" => Job!JobWorkerTypeOK
    /\ part = "import" => Import!ImportTypeOK
    /\ part = "store" => Store!ProfileStoreTypeOK
    /\ part = "acquire" => Acquire!AcquisitionTypeOK

\* Leaving the application: one cleanup at a time runs, a drain leaves no mutable
\* call running uncancelled, and no refusal, answer or update leaves the quit
\* question taken (quit_flow.go:54-60, server.go:190-227, quit_confirm.go:19-43);
\* two update operations never run at once, and a release reported ready is the
\* staged one of the channel followed now (update.go:195-197, 640-692).
ExitIsOrderly ==
    /\ part = "quit" => Quit!OneCleanup /\ Quit!DrainCancels /\ Quit!ConfirmationReleased
    /\ part = "update" => Update!OneOperation /\ Update!ReadyIsThisChannel

\* What a step may never do: end an exit that claimed a ready update without
\* quitting, also when the installer fails (update.go:508-531), or publish an
\* older value over a newer one, whichever goroutine drains
\* (trailing_publisher.go:106-153).
StepsKeepPromises ==
    [][/\ part = "update" => Update!ExitQuitsStep
       /\ part = "publish" => Publish!NeverBackwardsStep]_<<updateVars, publishVars>>

\* What the user is shown is current: no accepted value is stranded
\* (trailing_publisher.go:24-26), preferences are shown as they are
\* (serialized_publisher.go:23-33), no notification stays for an interaction that
\* is gone, owners and pages are inverse and the router remembers exactly its ring
\* (store.go:187-233, router.go:206-222), no launch, notice, command or focus
\* event is lost or overtaken (client.go:266-291, 385-438,
\* command_dispatch.go:59-122, focus_reports.go:23-66), and an acquisition has one
\* terminal status and a plugin its true source (manager_service.go:250-263,
\* manager.go:1213-1275).
ScreenIsTrue ==
    /\ part = "publish" => Publish!LatestIsShown
    /\ part = "settings" => Prefs!ShownIsCurrent
    /\ part = "ask" => Ask!NoStaleNotification /\ Ask!OwnersMatchPages /\ Ask!RingIsExact
    /\ part = "ui" => /\ UI!LaunchIsServed
                      /\ UI!NoticeIsReleased
                      /\ UI!CommandsWaitInOrder
                      /\ UI!FocusIsKnown
    /\ part = "acquire" => Acquire!OneTerminal /\ Acquire!SourceIsTrue

\* The Worker's activity on the desktop: connected exactly while the stream of the
\* current generation delivers, the navigation error is the newest navigation's,
\* one that waits has a timer, and a conversation that waits for the user is
\* shown before those that failed or run (bridge.go:400-545, 620-667).
ActivityIsTrue ==
    part = "activity" => /\ Activity!ConnectedIsTrue
                         /\ Activity!OutcomeIsNewest
                         /\ Activity!PendingIsTimed
                         /\ Activity!MostUrgentIsShown

\* The Worker's process boundary: nothing outlives a closed job, the wait keeps
\* the handle it waits on, a closed job is never queried, a boundary reported
\* empty is empty, and nothing is sent on closed events
\* (job_windows.go:145-200, 312-336, 367-500).
JobIsContained ==
    part = "job" => /\ Job!NothingOutlives
                    /\ Job!WaitOwnsHandle
                    /\ Job!QueryIsOpen
                    /\ Job!VerifiedIsEmpty
                    /\ Job!NoSendAfterClose

\* Preferences and data survive overlapping writers and deaths: no setter undoes
\* another's field (settings.go:363-443, 574-622); the location record names a
\* complete copy of the data, an offline command works only in the recorded root,
\* and a purge is alone in what it deletes (locations.go:344-474,
\* main.go:106-122, data_purge.go:111-167).
DataIsKept ==
    /\ part = "settings" => Prefs!NoLostUpdate
    /\ part = "storage" => Storage!DataIsFound /\ Storage!CliRootIsCurrent /\ Storage!PurgeIsAlone

\* Profiles survive what is done to them: an import, failed or repeated, replaces
\* none of the user's data and loses no workspace
\* (app_profile_migration.go:205-253, 647-714); a profile in use is not deleted,
\* no backup is lost by the move into its profile, and a clone or restore shows
\* only whole profiles (profile_operations.go:81-160, profile_restore.go:90-434).
ProfilesAreKept ==
    /\ part = "import" => Import!OwnDataKept /\ Import!WorkspacesKept
    /\ part = "store" => Store!ChosenIsKept /\ Store!NoBackupLost /\ Store!ProfilesAreWhole

=============================================================================
