------------------------------ MODULE PetService ------------------------------
(***************************************************************************)
(* app/pet_settings_service.go over pet/catalog.go and pet/cache.go, with  *)
(* the native hooks of desktopapp/daemon.go: which Pet is selected, which  *)
(* one is loaded, and whether its window is shown.  The service's mutex is *)
(* held for the whole of every operation, so an operation is one step;     *)
(* what runs beside it is what the mutex does not cover: the catalogue's   *)
(* background scan (joined by whoever refreshes while it runs), the start- *)
(* up task, the window-move handler, which reads the size before it takes  *)
(* the mutex, and the shut-down, which drops the mutex to wait.            *)
(* A package is a version number of its key: 0 absent or unreadable, and   *)
(* the versions of Unrenderable do not pass the renderer's probe.          *)
(***************************************************************************)
EXTENDS Naturals, Sequences, FiniteSets, SequencesExt

CONSTANTS PetKeys, PetVersions, Unrenderable, PetSizes, MaxCached, MaxEdits, MaxPetGen,
          MaxPetCalls

None == "none"
NoPet == [key |-> None, digest |-> <<None, 0>>, gen |-> 0, hidden |-> TRUE]
NoSnapshot == [rev |-> 0, state |-> "never-scanned", items |-> [k \in PetKeys |-> 0]]
NoScan == [by |-> None, found |-> <<>>, prev |-> NoSnapshot, cancelled |-> FALSE]
Absent == 0

VARIABLES
  source,        \* key -> the version on disk (external)
  petSnapshot,   \* Catalog.snapshot: [rev, state, items]
  petEntries,    \* Catalog.entries: key -> the accepted version
  scan,          \* the refresh operation in flight
  cache,         \* the digest-named directories, oldest first
  pref,          \* the saved preference: [key, visible, size]
  active,        \* the loaded Pet: key, digest, runtime generation and hidden flag
  overlayFailure, rendererFailure,
  windowShown, windowSize,
  generation,    \* the Host generation Pet events belong to
  panel,         \* RefreshPetCatalog: "idle", or "waits" while holding the mutex
  startup,       \* startupScan: "idle", "waits", "locks", "done"
  mover,         \* the move handler: <<>>, or the preference it read
  closed,        \* the service's closed flag
  quitting,      \* shutdown: "no", "waits", "clears", "done"
  petCalls, edits

serviceVars == <<source, petSnapshot, petEntries, scan, cache, pref, active, overlayFailure,
                 rendererFailure, windowShown, windowSize, generation, panel, startup,
                 mover, closed, quitting, petCalls, edits>>

Keyed == [PetKeys -> PetVersions]
NoPackages == [k \in PetKeys |-> Absent]

Init ==
  /\ source \in Keyed
  /\ petSnapshot = NoSnapshot
  /\ petEntries = NoPackages /\ scan = NoScan /\ cache = <<>>
  /\ pref \in [key : PetKeys \cup {None}, visible : BOOLEAN, size : {1}]
  /\ pref.key = None => ~pref.visible
  /\ active = NoPet /\ overlayFailure = FALSE /\ rendererFailure = FALSE
  /\ windowShown = FALSE /\ windowSize = pref.size /\ generation = 0
  /\ panel = "idle" /\ startup = "idle" /\ mover = <<>>
  /\ closed = FALSE /\ quitting = "no" /\ petCalls = 0 /\ edits = 0

(* The mutex is free: only a refresh keeps it beyond one step. *)
MuFree == panel = "idle"
OperationOpen == MuFree /\ petCalls < MaxPetCalls /\ petCalls' = petCalls + 1

(* beginOperation: refused once the service is closed. *)
Operation == MuFree /\ ~closed /\ petCalls < MaxPetCalls /\ petCalls' = petCalls + 1

catalogState == <<petSnapshot, petEntries, scan>>
shutdownState == <<closed, quitting>>

-----------------------------------------------------------------------------
(* The digest cache: an accepted package is published under its digest, and
   then the oldest ones beyond the limit go, never the one just published. *)
MaterializeOnly(d) == IF d \in Range(cache) THEN cache ELSE Append(cache, d)

Materialize(d) ==
  LET published == IF d \in Range(cache) THEN cache ELSE Append(cache, d)
      extra == Len(published) - MaxCached
      others == SelectSeq(published, LAMBDA x : x # d)
      gone == IF extra > 0 THEN Range(SubSeq(others, 1, extra)) ELSE {}
  IN  SelectSeq(published, LAMBDA x : x \notin gone)

(* The packages on disk are the user's: they change at any time (external). *)
SourceChanges ==
  /\ edits < MaxEdits /\ edits' = edits + 1
  /\ \E k \in PetKeys : \E v \in PetVersions \ {source[k]} : source' = [source EXCEPT ![k] = v]
  /\ UNCHANGED <<petSnapshot, petEntries, scan, cache, pref, active, overlayFailure,
                 rendererFailure, windowShown, windowSize, generation, panel, startup, mover,
                 closed, quitting, petCalls>>

-----------------------------------------------------------------------------
(* The catalogue.  Refresh starts a scan, or joins the one in flight. *)
BeginScan(who) ==
  IF scan # NoScan THEN UNCHANGED catalogState
  ELSE /\ scan' = [by |-> who, found |-> <<>>, prev |-> petSnapshot, cancelled |-> FALSE]
       /\ petSnapshot' = [petSnapshot EXCEPT !.state = "scanning"]
       /\ UNCHANGED petEntries

(* One candidate is read, validated and put in the cache. *)
ScanOne ==
  /\ scan # NoScan
  /\ \E k \in PetKeys \ DOMAIN scan.found :
       /\ scan' = [scan EXCEPT !.found = [x \in DOMAIN @ \cup {k} |->
                                            IF x = k THEN source[k] ELSE @[x]]]
       /\ cache' = IF source[k] = Absent THEN cache ELSE Materialize(<<k, source[k]>>)
  /\ UNCHANGED <<source, petSnapshot, petEntries, pref, active, overlayFailure, rendererFailure,
                 windowShown, windowSize, generation, panel, startup, mover, closed,
                 quitting, petCalls, edits>>

(* The context of the operation that started the scan ends (a shut-down or a
   time-out): that caller stops waiting, the scan notices later. *)
ScanCancelled ==
  /\ scan # NoScan /\ ~scan.cancelled
  /\ scan' = [scan EXCEPT !.cancelled = TRUE]
  /\ panel' = IF scan.by = "panel" THEN "idle" ELSE panel
  /\ startup' = IF scan.by = "startup" THEN "done" ELSE startup
  /\ UNCHANGED <<source, petSnapshot, petEntries, cache, pref, active, overlayFailure,
                 rendererFailure, windowShown, windowSize, generation, mover, closed,
                 quitting, petCalls, edits>>

(* A caller that joined another's scan stops waiting: its own context ended. *)
JoinerGivesUp ==
  /\ scan # NoScan
  /\ \/ scan.by # "panel" /\ panel = "waits" /\ panel' = "idle" /\ UNCHANGED startup
     \/ scan.by # "startup" /\ startup = "waits" /\ startup' = "done" /\ UNCHANGED panel
  /\ UNCHANGED <<source, petSnapshot, petEntries, scan, cache, pref, active, overlayFailure,
                 rendererFailure, windowShown, windowSize, generation, mover, closed,
                 quitting, petCalls, edits>>

-----------------------------------------------------------------------------
(* The overlay.  Given the preference, the loaded Pet and the failure flag,
   applyOverlayVisibilityLocked shows or hides the window; its hooks do not
   fail (daemon.go:800-842), so the flag stays as it is. *)
Shows(p, a) == p.key # None /\ p.visible /\ a # NoPet /\ p.key = a.key
ApplyOverlayVisibility(p, a) ==
  /\ windowShown' = Shows(p, a)
  /\ active' = IF a = NoPet THEN a ELSE [a EXCEPT !.hidden = ~Shows(p, a)]

LoadedUnbound(k, v) == [key |-> k, digest |-> <<k, v>>, gen |-> 0, hidden |-> TRUE]
Loaded(k, v) == [key |-> k, digest |-> <<k, v>>, gen |-> generation, hidden |-> TRUE]

(* activateLocked: the source is read again, probed and loaded. *)
Usable(k) == petEntries[k] # Absent /\ source[k] # Absent /\ source[k] \notin Unrenderable
Revalidated(k) == IF petEntries[k] # Absent /\ source[k] # Absent
                  THEN Materialize(<<k, source[k]>>) ELSE cache

(* reconcileActiveLocked, after a refresh. *)
ReconcileActive(items) ==
  LET k == pref.key
      gone == k # None /\ items[k] = Absent
      wanted == k # None /\ ~gone /\ active.key # k
      a == IF k = None \/ (gone /\ active.key = k) THEN NoPet
           ELSE IF wanted THEN IF Usable(k) THEN Loaded(k, source[k]) ELSE NoPet
           ELSE active
  IN  /\ ApplyOverlayVisibility(pref, a)
      /\ cache' = IF wanted THEN Revalidated(k) ELSE cache
      /\ overlayFailure' = IF wanted THEN ~Usable(k)
                           ELSE IF a = NoPet /\ (k = None \/ active.key = k) THEN FALSE
                           ELSE overlayFailure
      /\ rendererFailure' = IF a # active THEN FALSE ELSE rendererFailure

(* runRefresh ends: a new revision, the previous one marked failed, or, when
   its context ended, exactly the previous one. *)
Outcome(s) == IF s.cancelled THEN {"cancelled"} ELSE {"ready", "failed"}

PublishScanItems(outcome) ==
  /\ scan' = NoScan
  /\ petSnapshot' = [rev |-> scan.prev.rev + 1, items |-> [k \in PetKeys |->
                       IF k \in DOMAIN scan.found THEN scan.found[k] ELSE Absent],
                     state |-> IF outcome = "ready" THEN "ready" ELSE "failed"]
  /\ petEntries' = IF outcome = "ready" THEN scan.found ELSE petEntries

PublishScan(outcome) ==
  /\ scan' = NoScan
  /\ petSnapshot' = CASE outcome = "ready" -> [rev |-> scan.prev.rev + 1, state |-> "ready",
                                               items |-> scan.found]
                      [] outcome = "failed" -> [scan.prev EXCEPT !.state = "failed"]
                      [] OTHER -> scan.prev
  /\ petEntries' = IF outcome = "ready" THEN scan.found ELSE petEntries

ScanEnds ==
  /\ scan # NoScan /\ (scan.cancelled \/ DOMAIN scan.found = PetKeys)
  /\ \E outcome \in Outcome(scan) :
       /\ PublishScan(outcome)
       /\ panel' = IF panel = "waits" THEN "reconciles" ELSE panel
       /\ startup' = IF startup = "waits" THEN IF outcome = "ready" THEN "locks" ELSE "done"
                     ELSE startup
  /\ UNCHANGED <<source, cache, pref, active, overlayFailure, rendererFailure, windowShown,
                 windowSize, generation, mover, closed, quitting, petCalls, edits>>

-----------------------------------------------------------------------------
(* RefreshPetCatalog keeps the mutex while the scan runs. *)
RefreshPetCatalog ==
  /\ Operation
  /\ panel' = "waits" /\ BeginScan("panel")
  /\ UNCHANGED <<source, cache, pref, active, overlayFailure, rendererFailure, windowShown,
                 windowSize, generation, startup, mover, closed, quitting, edits>>

RefreshReturns ==
  /\ panel = "reconciles" /\ panel' = "idle"
  /\ IF petSnapshot.rev = 0 /\ petSnapshot.state = "never-scanned"
     THEN UNCHANGED <<cache, active, overlayFailure, rendererFailure, windowShown>>
     ELSE ReconcileActive(petSnapshot.items)
  /\ UNCHANGED <<source, petSnapshot, petEntries, scan, pref, windowSize, generation, startup,
                 mover, closed, quitting, petCalls, edits>>

(* SelectPet: the source is read again, the candidate is probed, loaded and
   started, the preference is saved, and only then does it take over. *)
SelectPet(k) ==
  /\ Operation
  /\ cache' = Revalidated(k)
  /\ \E saved \in BOOLEAN :
       IF Usable(k) /\ saved
       THEN /\ pref' = [pref EXCEPT !.key = k]
            /\ ApplyOverlayVisibility(pref', Loaded(k, source[k]))
            /\ overlayFailure' = FALSE /\ rendererFailure' = FALSE
       ELSE UNCHANGED <<pref, active, overlayFailure, rendererFailure, windowShown>>
  /\ UNCHANGED <<source, petSnapshot, petEntries, scan, windowSize, generation, panel, startup,
                 mover, closed, quitting, edits>>

(* SetPetVisibility, from Settings and from the tray menu. *)
SetPetVisibility(v) ==
  /\ Operation /\ pref.key # None
  /\ pref' = [pref EXCEPT !.visible = v]
  /\ ApplyOverlayVisibility(pref', active)
  /\ UNCHANGED <<source, petSnapshot, petEntries, scan, cache, overlayFailure, rendererFailure,
                 windowSize, generation, panel, startup, mover, closed, quitting, edits>>

(* SetPetSize saves, resizes the window, and saves the old size back when
   the window could not follow (the application is stopping). *)
SetPetSize(n) ==
  /\ Operation
  /\ IF quitting = "no"
     THEN pref' = [pref EXCEPT !.size = n] /\ windowSize' = n
          /\ ApplyOverlayVisibility(pref', active)
     ELSE UNCHANGED <<pref, windowSize, windowShown, active>>
  /\ UNCHANGED <<source, petSnapshot, petEntries, scan, cache, overlayFailure, rendererFailure,
                 generation, panel, startup, mover, closed, quitting, edits>>

ClearPetSelectionOnly ==
  /\ Operation /\ pref.key # None
  /\ pref' = [pref EXCEPT !.key = None, !.visible = FALSE]
  /\ active' = NoPet /\ UNCHANGED windowShown
  /\ overlayFailure' = FALSE /\ rendererFailure' = FALSE
  /\ UNCHANGED <<source, petSnapshot, petEntries, scan, cache, windowSize, generation, panel,
                 startup, mover, closed, quitting, edits>>

ClearPetSelection ==
  /\ Operation /\ pref.key # None
  /\ pref' = [pref EXCEPT !.key = None, !.visible = FALSE]
  /\ ApplyOverlayVisibility(pref', NoPet)
  /\ overlayFailure' = FALSE /\ rendererFailure' = FALSE
  /\ UNCHANGED <<source, petSnapshot, petEntries, scan, cache, windowSize, generation, panel,
                 startup, mover, closed, quitting, edits>>

(* GetPetOverlay: the page asks for a frame; the renderer fails, or recovers. *)
PanelVisible == /\ pref.key # None /\ pref.visible /\ petSnapshot.items[pref.key] # Absent
                /\ ~overlayFailure /\ active.key = pref.key

GetPetOverlay ==
  /\ Operation /\ active # NoPet /\ (PanelVisible \/ rendererFailure)
  /\ \E failed \in BOOLEAN :
       /\ rendererFailure' = failed
       /\ overlayFailure' = IF failed THEN TRUE
                            ELSE IF rendererFailure THEN FALSE ELSE overlayFailure
  /\ UNCHANGED <<source, petSnapshot, petEntries, scan, cache, pref, active, windowShown,
                 windowSize, generation, panel, startup, mover, closed, quitting, edits>>

(* PublishPetHostStatus: a newer generation moves the service and its runtime. *)
PublishPetHostStatus ==
  /\ MuFree /\ generation < MaxPetGen
  /\ generation' = generation + 1
  /\ active' = IF active = NoPet THEN active ELSE [active EXCEPT !.gen = generation']
  /\ UNCHANGED <<source, petSnapshot, petEntries, scan, cache, pref, overlayFailure,
                 rendererFailure, windowShown, windowSize, panel, startup, mover, closed,
                 quitting, petCalls, edits>>

-----------------------------------------------------------------------------
(* The window moved: the handler reads the saved size, and then the service
   saves the position with it. *)
MoveReads ==
  /\ mover = <<>> /\ windowShown /\ petCalls < MaxPetCalls /\ petCalls' = petCalls + 1
  /\ quitting = "no"
  /\ mover' = <<pref>>
  /\ UNCHANGED <<source, petSnapshot, petEntries, scan, cache, pref, active, overlayFailure,
                 rendererFailure, windowShown, windowSize, generation, panel, startup,
                 closed, quitting, edits>>

PersistPetPosition == pref' = [pref EXCEPT !.size = mover[1].size]

MovePersists ==
  /\ mover # <<>> /\ MuFree /\ mover' = <<>>
  /\ IF closed THEN UNCHANGED pref ELSE PersistPetPosition
  /\ UNCHANGED <<source, petSnapshot, petEntries, scan, cache, active, overlayFailure,
                 rendererFailure, windowShown, windowSize, generation, panel, startup,
                 closed, quitting, petCalls, edits>>

-----------------------------------------------------------------------------
(* StartupPetService: the scan runs without the mutex, then the saved Pet is
   restored. *)
StartupPetService ==
  /\ startup = "idle" /\ MuFree /\ ~closed /\ startup' = "waits" /\ BeginScan("startup")
  /\ UNCHANGED <<source, cache, pref, active, overlayFailure, rendererFailure, windowShown,
                 windowSize, generation, panel, mover, closed, quitting, petCalls, edits>>

Restores == ~closed /\ pref.key # None /\ petSnapshot.items[pref.key] # Absent

StartupRestores ==
  /\ startup = "locks" /\ MuFree /\ startup' = "done"
  /\ IF ~Restores THEN UNCHANGED <<cache, active, overlayFailure, rendererFailure, windowShown>>
     ELSE /\ cache' = Revalidated(pref.key)
          /\ IF Usable(pref.key)
             THEN /\ ApplyOverlayVisibility(pref, Loaded(pref.key, source[pref.key]))
                  /\ overlayFailure' = FALSE /\ rendererFailure' = FALSE
             ELSE overlayFailure' = TRUE /\ UNCHANGED <<active, rendererFailure, windowShown>>
  /\ UNCHANGED <<source, petSnapshot, petEntries, scan, pref, windowSize, generation, panel,
                 mover, closed, quitting, petCalls, edits>>

(* shutdown: close, end the start-up task and wait for it without the mutex,
   then clear, hide and close the window. *)
ShutdownBegins ==
  /\ quitting = "no" /\ MuFree
  /\ closed' = TRUE /\ quitting' = "waits"
  /\ scan' = IF scan.by = "startup" /\ ~scan.cancelled THEN [scan EXCEPT !.cancelled = TRUE]
             ELSE scan
  /\ startup' = IF startup = "waits" THEN "done" ELSE startup
  /\ UNCHANGED <<source, petSnapshot, petEntries, cache, pref, active, overlayFailure,
                 rendererFailure, windowShown, windowSize, generation, panel, mover,
                 petCalls, edits>>

ShutdownClears ==
  /\ quitting = "waits" /\ startup # "locks" /\ MuFree
  /\ quitting' = "clears" /\ active' = NoPet
  /\ overlayFailure' = FALSE /\ rendererFailure' = FALSE
  /\ UNCHANGED <<source, petSnapshot, petEntries, scan, cache, pref, windowShown, windowSize,
                 generation, panel, startup, mover, closed, petCalls, edits>>

ShutdownHides ==
  /\ quitting = "clears" /\ quitting' = "done" /\ windowShown' = FALSE
  /\ UNCHANGED <<source, petSnapshot, petEntries, scan, cache, pref, active, overlayFailure,
                 rendererFailure, windowSize, generation, panel, startup, mover, closed,
                 petCalls, edits>>

Next ==
  \/ SourceChanges \/ ScanOne \/ ScanCancelled \/ JoinerGivesUp \/ ScanEnds
  \/ RefreshPetCatalog \/ RefreshReturns
  \/ \E k \in PetKeys : SelectPet(k)
  \/ \E v \in BOOLEAN : SetPetVisibility(v)
  \/ \E n \in PetSizes : SetPetSize(n)
  \/ ClearPetSelection \/ GetPetOverlay \/ PublishPetHostStatus
  \/ MoveReads \/ MovePersists
  \/ StartupPetService \/ StartupRestores
  \/ ShutdownBegins \/ ShutdownClears \/ ShutdownHides

Spec == Init /\ [][Next]_serviceVars
-----------------------------------------------------------------------------
(* Every value has its type; the digest cache stays within its limit
   (cache.go:maxDigestCacheEntries), whatever is scanned and selected. *)
PetServiceTypeOK ==
  /\ source \in Keyed /\ petEntries \in Keyed
  /\ petSnapshot.state \in {"never-scanned", "scanning", "ready", "failed"}
  /\ (petSnapshot.state = "scanning") = (scan # NoScan)
  /\ pref \in [key : PetKeys \cup {None}, visible : BOOLEAN, size : PetSizes]
  /\ active = NoPet \/ active.key \in PetKeys
  /\ Len(cache) <= MaxCached /\ IsInjective(cache)
  /\ generation \in 0..MaxPetGen /\ windowSize \in PetSizes

(* The list Settings shows is the one Resolve serves: a scan that failed or
   was cancelled, alone or joined by a second caller, publishes neither new
   items nor new definitions (catalog.go runRefresh). *)
ListIsResolvable == petSnapshot.items = petEntries

(* The window and the panel tell the same story: a Pet is on the desktop only
   when it is the selected one and the user wants it visible, its runtime runs
   exactly then, and a panel that says "visible" is not lying (pet_settings_
   service.go projectPanel against applyOverlayVisibilityLocked). *)
PanelIsTrue ==
  MuFree /\ ~closed =>
    /\ windowShown => pref.visible /\ active # NoPet /\ active.key = pref.key
    /\ active # NoPet => active.hidden = ~windowShown
    /\ PanelVisible => windowShown

(* The runtime on the desktop belongs to the Host generation whose events it
   is sent: one that kept an older generation would drop every event
   (runtime.go Dispatch). *)
RuntimeIsCurrent == active # NoPet => active.gen = generation

(* Once the service has shut down nothing loads a Pet again or shows its
   window, even when the start-up scan was still running. *)
ShutdownIsFinal == quitting = "done" => active = NoPet /\ ~windowShown

(* The size the user chose is the size that is saved: the handler that saves a
   moved window's position keeps it (daemon.go:785, "Persist the user's sprite
   size"). *)
SizeIsKept == MuFree /\ mover = <<>> /\ ~closed => pref.size = windowSize
=============================================================================
