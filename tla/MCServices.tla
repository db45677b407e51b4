------------------------------ MODULE MCServices ------------------------------
(*****************************************************************************)
(* Services of the daemon that share no variable, checked in one run: part   *)
(* chooses the component that runs, and the others hold no state. Each is a  *)
(* module of its own with its own actions and properties; this module only   *)
(* puts them side by side, so that one run explores the behaviours of each   *)
(* of them. The properties are those of the components.                      *)
(*****************************************************************************)
EXTENDS Naturals, Sequences, TLC

CONSTANTS
    AutoCalls, MaxEpoch, MaxPreps, MaxEntries, Conns, Profiles, Bindings, Routes,
    MaxBrowserEpoch, Tools, MaxTurns, MaxEvents, Sessions, Uses, MaxLives, MaxSnapshots,
    MaxStops, MaxGiveUps, Managed, System, Nodes, Directories, MaxInstalls,
    MaxOperations, MaxCatalogCrashes, MaxDrifts, Packages, HoldCompleted, HoldFailed,
    IdleWait, MaxAge, MaxPetEvents, PetKeys, PetVersions, Unrenderable, PetSizes,
    MaxCached, MaxEdits, MaxPetGen, MaxPetCalls,
    Policies, UseSession, Contexts

\* The bounds are numbers, a policy has its settings, a computer-use call is of one of
\* the sessions, and the names the code reserves are no profile or binding.
ASSUME AutoAssumption == MaxPreps \in Nat /\ MaxEntries \in Nat /\ MaxEpoch \in Nat \ {0}
ASSUME BrowserAssumption ==
    /\ "none" \notin Profiles /\ "forgotten" \notin Profiles /\ "none" \notin Bindings
    /\ MaxBrowserEpoch \in Nat
ASSUME GateAssumption ==
    Policies \subseteq [ask : BOOLEAN, rule : {"ask", "allow", "block"},
                        confirm : {"ask", "allow", "block"}, lasts : {"turn", "conversation"}]
ASSUME ComputerAssumption == UseSession \in [Uses -> Sessions] /\ MaxSnapshots \in Nat
\* Runtimes are named by their version, 0 stands for none, and a Run context names what
\* the configuration can hold; one of them is the system runtime's.
ASSUME CatalogAssumption ==
    /\ Managed \subseteq Nat \ {0} /\ System \in Nat \ (Managed \cup {0}) /\ 0 \notin Nodes
    /\ Contexts \subseteq [rt : Managed \cup {System}, node : Nodes \cup {0},
                           dir : Directories \cup {0}]
    /\ \E c \in Contexts : c.rt = System
\* A Pet may be absent, and no Pet has the name of none.
ASSUME PetsAssumption == "none" \notin PetKeys /\ 0 \in PetVersions /\ 1 \in PetSizes

VARIABLES
    part,    \* the component that runs
    slot, worker, maintaining, prepared, preps, entries, ownEntry, stoppedAt, opHeld,
    acalls,
    connections, usedConns, conflicts, requests, bindings, selectedProfile,
    browserEpoch, lease, broken, duplicated, opening,
    gatePolicy, policyRevision, conv, gateEpoch, page, tools, consents, consentQueue,
    permits, gateEvents,
    cowner, clease, engine, deskHeld, deskRel, runLive, deskFailed, chat, uses, asking,
    granted, observation, snaps, actedOn, usePermits, acted, stops, giveUps,
    mem, saved, current, switching, gop, launches, hostOp, rtFiles, rtBackup, nodeFiles,
    systemVersion, kept, overlapped, unprotected, gens, ops, catalogCrashes,
    package, base, override, action, playful, hidden, reduced, baseAge, actionAge,
    idleAge, lastIdle, settling, petEvents,
    source, petSnapshot, petEntries, scan, cache, pref, active, overlayFailure,
    rendererFailure, windowShown, windowSize, generation, panel, startup, mover, closed,
    quitting, petCalls, edits

autoVars == <<slot, worker, maintaining, prepared, preps, entries, ownEntry, stoppedAt,
              opHeld, acalls>>
browserVars == <<connections, usedConns, conflicts, requests, bindings, selectedProfile,
                 browserEpoch, lease, broken, duplicated, opening>>
gateVars == <<gatePolicy, policyRevision, conv, gateEpoch, page, tools, consents,
              consentQueue, permits, gateEvents>>
computerVars == <<cowner, clease, engine, deskHeld, deskRel, runLive, deskFailed, chat,
                  uses, asking, granted, observation, snaps, actedOn, usePermits, acted,
                  stops, giveUps>>
catalogVars == <<mem, saved, current, switching, gop, launches, hostOp, rtFiles,
                 rtBackup, nodeFiles, systemVersion, kept, overlapped, unprotected,
                 gens, ops, catalogCrashes>>
petVars == <<package, base, override, action, playful, hidden, reduced, baseAge,
             actionAge, idleAge, lastIdle, settling, petEvents>>
petsVars == <<source, petSnapshot, petEntries, scan, cache, pref, active,
              overlayFailure, rendererFailure, windowShown, windowSize, generation,
              panel, startup, mover, closed, quitting, petCalls, edits>>

\* Values for TLC.  Permission settings of the browser: ask, allow for the conversation,
\* block; computer-use calls all of one conversation; the Run contexts of the system
\* runtime, and of a managed one on a managed node.
SomePolicies == {[ask |-> TRUE, rule |-> "ask", confirm |-> "ask", lasts |-> "turn"],
                 [ask |-> FALSE, rule |-> "allow", confirm |-> "allow", lasts |-> "conversation"],
                 [ask |-> TRUE, rule |-> "block", confirm |-> "block", lasts |-> "turn"]}
OneSession == [c \in Uses |-> "s1"]
SomeContexts == {[rt |-> System, node |-> 0, dir |-> 0], [rt |-> 1, node |-> 1, dir |-> 0]}

\* A sprite-sheet package and a video package of the Pet.
CodexTracks == {"idle", "run", "wait", "fail", "wave", "jump"}
Codex ==
    [tracks |-> CodexTracks, idle |-> "idle", loops |-> {"idle"},
     length |-> [t \in CodexTracks |-> IF t = "idle" THEN 4 ELSE IF t = "fail" THEN 3 ELSE 2],
     timeout |-> [t \in CodexTracks |-> 0],
     after |-> [t \in CodexTracks |-> IF t = "idle" THEN "" ELSE "idle"],
     states |-> [idle |-> [track |-> "idle", loop |-> TRUE, after |-> ""],
                 working |-> [track |-> "run", loop |-> TRUE, after |-> "idle"],
                 waiting |-> [track |-> "wait", loop |-> TRUE, after |-> "idle"],
                 failed |-> [track |-> "fail", loop |-> FALSE, after |-> "idle"]],
     actions |-> [wave |-> [track |-> "wave", rank |-> 0, yields |-> FALSE, after |-> "idle"],
                  bounce |-> [track |-> "jump", rank |-> 0, yields |-> FALSE, after |-> "idle"]],
     webm |-> FALSE, clicks |-> {}, idles |-> {}]
VideoTracks == {"i1", "i2", "w", "d"}
Video ==
    [tracks |-> VideoTracks, idle |-> "i1", loops |-> {"i1", "i2"},
     length |-> [t \in VideoTracks |-> 2], timeout |-> [t \in VideoTracks |-> 0],
     after |-> [t \in VideoTracks |-> ""],
     states |-> [idle |-> [track |-> "i1", loop |-> TRUE, after |-> ""],
                 working |-> [track |-> "w", loop |-> TRUE, after |-> "i1"],
                 waiting |-> [track |-> "w", loop |-> TRUE, after |-> "i1"],
                 completed |-> [track |-> "d", loop |-> FALSE, after |-> "i1"],
                 failed |-> [track |-> "i1", loop |-> FALSE, after |-> "i1"]],
     actions |-> [t \in VideoTracks |-> [track |-> t, rank |-> 0, yields |-> TRUE, after |-> ""]],
     webm |-> TRUE, clicks |-> {"w"}, idles |-> {"i1", "i2"}]
SomePackages == {Codex, Video}

Capability == INSTANCE Automation
Browser == INSTANCE BrowserProfiles
Gate == INSTANCE BrowserGateway
Computer == INSTANCE ComputerGateway
Catalog == INSTANCE RuntimeCatalog
Pet == INSTANCE PetRuntime
Pets == INSTANCE PetService

\* The Pet's packages are accepted ones that can settle, and its ages grow past what they
\* are compared with.
ASSUME PackageAssumption ==
    /\ HoldCompleted \in Nat /\ HoldFailed \in Nat /\ HoldCompleted <= HoldFailed
    /\ IdleWait \in Nat \ {0} /\ MaxAge \in Nat /\ MaxPetEvents \in Nat
    /\ \A p \in Packages : /\ Pet!IsAccepted(p) /\ Pet!CanSettle(p)
                           /\ MaxAge > 2 * Pet!Longest(p) + HoldFailed

\* A component that does not run has no state: its variables hold this value.
Rest == "rest"

AutoRests == /\ slot = Rest /\ worker = Rest /\ maintaining = Rest /\ prepared = Rest
             /\ preps = Rest /\ entries = Rest /\ ownEntry = Rest /\ stoppedAt = Rest
             /\ opHeld = Rest /\ acalls = Rest
BrowserRests == /\ connections = Rest /\ usedConns = Rest /\ conflicts = Rest
                /\ requests = Rest /\ bindings = Rest /\ selectedProfile = Rest
                /\ browserEpoch = Rest /\ lease = Rest /\ broken = Rest
                /\ duplicated = Rest /\ opening = Rest
GateRests == /\ gatePolicy = Rest /\ policyRevision = Rest /\ conv = Rest
             /\ gateEpoch = Rest /\ page = Rest /\ tools = Rest /\ consents = Rest
             /\ consentQueue = Rest /\ permits = Rest /\ gateEvents = Rest
ComputerRests == /\ cowner = Rest /\ clease = Rest /\ engine = Rest /\ deskHeld = Rest
                 /\ deskRel = Rest /\ runLive = Rest /\ deskFailed = Rest /\ chat = Rest
                 /\ uses = Rest /\ asking = Rest /\ granted = Rest /\ observation = Rest
                 /\ snaps = Rest /\ actedOn = Rest /\ usePermits = Rest /\ acted = Rest
                 /\ stops = Rest /\ giveUps = Rest
CatalogRests == /\ mem = Rest /\ saved = Rest /\ current = Rest /\ switching = Rest
                /\ gop = Rest /\ launches = Rest /\ hostOp = Rest /\ rtFiles = Rest
                /\ rtBackup = Rest /\ nodeFiles = Rest /\ systemVersion = Rest
                /\ kept = Rest /\ overlapped = Rest /\ unprotected = Rest
                /\ gens = Rest /\ ops = Rest /\ catalogCrashes = Rest
PetRests == /\ package = Rest /\ base = Rest /\ override = Rest /\ action = Rest
            /\ playful = Rest /\ hidden = Rest /\ reduced = Rest /\ baseAge = Rest
            /\ actionAge = Rest /\ idleAge = Rest /\ lastIdle = Rest /\ settling = Rest
            /\ petEvents = Rest
PetsRests == /\ source = Rest /\ petSnapshot = Rest /\ petEntries = Rest /\ scan = Rest
             /\ cache = Rest /\ pref = Rest /\ active = Rest /\ overlayFailure = Rest
             /\ rendererFailure = Rest /\ windowShown = Rest /\ windowSize = Rest
             /\ generation = Rest /\ panel = Rest /\ startup = Rest /\ mover = Rest
             /\ closed = Rest /\ quitting = Rest /\ petCalls = Rest /\ edits = Rest

ServicesInit ==
    /\ part \in {"automation", "browser", "gate", "computer", "catalog", "pet", "pets"}
    /\ IF part = "automation" THEN Capability!Init ELSE AutoRests
    /\ IF part = "browser" THEN Browser!ProfilesInit ELSE BrowserRests
    /\ IF part = "gate" THEN Gate!GateInit ELSE GateRests
    /\ IF part = "computer" THEN Computer!ComputerInit ELSE ComputerRests
    /\ IF part = "catalog" THEN Catalog!Init ELSE CatalogRests
    /\ IF part = "pet" THEN Pet!Init ELSE PetRests
    /\ IF part = "pets" THEN Pets!Init ELSE PetsRests

AutoNext ==
    /\ part = "automation" /\ Capability!Next
    /\ UNCHANGED <<part, browserVars, gateVars, computerVars, catalogVars, petVars,
                   petsVars>>
BrowserNext ==
    /\ part = "browser" /\ Browser!ProfilesNext
    /\ UNCHANGED <<part, autoVars, gateVars, computerVars, catalogVars, petVars,
                   petsVars>>
GateNext ==
    /\ part = "gate" /\ Gate!GateNext
    /\ UNCHANGED <<part, autoVars, browserVars, computerVars, catalogVars, petVars,
                   petsVars>>
ComputerNext ==
    /\ part = "computer" /\ Computer!ComputerNext
    /\ UNCHANGED <<part, autoVars, browserVars, gateVars, catalogVars, petVars, petsVars>>
CatalogNext ==
    /\ part = "catalog" /\ Catalog!Next
    /\ UNCHANGED <<part, autoVars, browserVars, gateVars, computerVars, petVars,
                   petsVars>>
PetNext ==
    /\ part = "pet" /\ Pet!Next
    /\ UNCHANGED <<part, autoVars, browserVars, gateVars, computerVars, catalogVars,
                   petsVars>>
PetsNext ==
    /\ part = "pets" /\ Pets!Next
    /\ UNCHANGED <<part, autoVars, browserVars, gateVars, computerVars, catalogVars,
                   petVars>>

ServicesNext ==
    \/ AutoNext
    \/ BrowserNext
    \/ GateNext
    \/ ComputerNext
    \/ CatalogNext
    \/ PetNext
    \/ PetsNext
ServicesVars == <<part, autoVars, browserVars, gateVars, computerVars, catalogVars,
                   petVars, petsVars>>

\* The calls of the gateway are told apart by nothing but their name.
ServicesSymmetry == Permutations(AutoCalls)

ServicesSpec == ServicesInit /\ [][ServicesNext]_ServicesVars

\* The state of the component that runs keeps its type, and what the parts of
\* that type say of each other holds.
ServicesTypeOK ==
    /\ part = "automation" => Capability!AutoTypeOK
    /\ part = "browser" => Browser!ProfilesTypeOK
    /\ part = "gate" => Gate!GateTypeOK
    /\ part = "computer" => Computer!ComputerTypeOK
    /\ part = "catalog" => Catalog!CatalogTypeOK
    /\ part = "pet" => Pet!PetRuntimeTypeOK
    /\ part = "pets" => Pets!PetServiceTypeOK

\* Capabilities end when they are taken away: one preparer uses the staging tree,
\* "preparing" has a preparation that will report, no open resource outlives a
\* revocation (service.go:383-454, 519-526, 738-804), a lease is accepted only
\* while its profile stayed reachable, and no route leads to an identity seen
\* twice (browser_profiles.go:265-292, 392-428).
CapabilitiesEnd ==
    /\ part = "automation" => Capability!OnePreparer /\ Capability!PreparingIsLive /\ Capability!NoOrphanResource
    /\ part = "browser" => Browser!LeaseIsUnbroken /\ Browser!QuarantineHolds

\* Consent is worth what it said: permits are of the current policy, lifetime and
\* turn and are redeemed once, the queue shown holds exactly the open questions,
\* an observation supports one action, and nothing permitted is left after a stop
\* (browser_gateway.go:370-477, 741-757, 839-870, computer_gateway.go:785-847,
\* 1173-1210).
ConsentHolds ==
    /\ part = "gate" => /\ Gate!NoStalePermit
                        /\ Gate!StopLeavesNothing
                        /\ Gate!ConsentQueueIsExact
                        /\ Gate!PermitIsSpent
    /\ part = "computer" => Computer!ActsOnce /\ Computer!StoppedComputerIsQuiet

\* A runtime that is current, known good or being started keeps its files, and
\* the catalogue in memory is the one on disk with nothing registered lost
\* (manager.go:620-805, 1820-1840).
CatalogIsTrue ==
    part = "catalog" => Catalog!SelectedKeepsFiles /\ Catalog!CatalogIsSaved

\* An installation that does not register its candidate leaves the directory as
\* it found it: no candidate without an entry, no tree lost aside
\* (runtime_installer_windows.go:261-293).
FailedInstallRestores == [][part = "catalog" => Catalog!FailedInstallStep]_catalogVars

\* The Pet tells the truth: a finished task settles (runtime.go:680-719), the list
\* shown is the one resolved (catalog.go:171-247), window and panel agree, the
\* runtime is of the current generation, and nothing is shown after the shutdown
\* (pet_settings_service.go:900-1222).
PetIsTrue ==
    /\ part = "pet" => Pet!FinishedSettles
    /\ part = "pets" => /\ Pets!ListIsResolvable
                        /\ Pets!PanelIsTrue
                        /\ Pets!RuntimeIsCurrent
                        /\ Pets!ShutdownIsFinal

=============================================================================
