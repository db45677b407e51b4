---------------------------- MODULE ProfileStore ----------------------------
(***************************************************************************)
(* The profile directories of one DSH data directory and the Manager's     *)
(* operations on them (internal/dshmanager): clone, delete, back up,       *)
(* export, list, delete and restore a backup, disable a faulty plugin, and *)
(* the switch that selects and prepares a profile.                         *)
(*                                                                         *)
(* Every operation holds the operation gate, but a restore lets go of it   *)
(* between finding the archive and importing it.  A profile is known by    *)
(* its name; uid is the identity a reader would give the directory.        *)
(***************************************************************************)
EXTENDS Naturals, FiniteSets

CONSTANTS
    First,          \* the profile the user begins with
    CloneNames,     \* "<name> 1", "<name> 2", ... in order: 1..n
    RestoredNames,  \* "<name> restored 1", ...: numbers above the clones
    Files,          \* names of backup files
    MaxProfileOps, MaxProfileCrashes

VARIABLES
    dirs,           \* the profile directories: uid 0 is no directory
    vault,          \* archives in each profile's own backup folder
    legacy,         \* archives in the data directory's old shared folder
    pop,            \* the operation that holds the gate
    restore,        \* RestoreProfileBackup, between its two holds of the gate
    chosen,         \* names in the configured, current, known-good and failed contexts
    pswitch,        \* the switch under way
    points,         \* whose version points the Manager holds for each name
    records,        \* the same, in the profile's recovery.json
    pickable,       \* an exported archive the user may pick, 0 for none
    made,           \* archives written and not deleted
    litter,         \* half profiles: their removal failed or was not reached, and clones of such
    uids, profileOps, profileCrashes

storeVars == <<dirs, vault, legacy, pop, restore, chosen, pswitch, points, records, pickable,
               made, litter, uids, profileOps, profileCrashes>>

Names == {First} \cup CloneNames \cup RestoredNames
NoName == 99
NoDir == [uid |-> 0, whole |-> FALSE, faulty |-> FALSE]
IdleOp == [kind |-> "idle", pc |-> "idle", name |-> NoName, dest |-> NoName,
           arc |-> [id |-> 0, file |-> 0, ref |-> NoName, of |-> 0]]
NoArchive == IdleOp.arc
IdleRestore == [at |-> "idle", name |-> NoName, file |-> 0]
Roles == {"configured", "current", "knownGood", "failed"}

\* The shared folder is an earlier version's; a user who went back to one may
\* have backups of one name in both folders.
Init ==
    /\ dirs = [n \in Names |-> IF n = First THEN [uid |-> 1, whole |-> TRUE, faulty |-> TRUE] ELSE NoDir]
    /\ legacy = {[id |-> 1, file |-> 1, ref |-> First, of |-> 1]}
    /\ \E own \in {{}, {[id |-> 2, file |-> 1, ref |-> First, of |-> 1]}} :
          /\ vault = [n \in Names |-> IF n = First THEN own ELSE {}]
          /\ made = {1} \cup {a.id : a \in own}
    /\ pop = IdleOp /\ restore = IdleRestore
    /\ chosen = [r \in Roles |-> IF r = "configured" THEN First ELSE NoName]
    /\ pswitch = [pc |-> "idle", to |-> NoName]
    /\ points = [n \in Names |-> 0] /\ records = [n \in Names |-> 0]
    /\ pickable = NoArchive
    /\ litter = {} /\ uids = 2 /\ profileOps = 0 /\ profileCrashes = 0

Exists(n) == dirs[n].uid # 0
Lowest(S) == CHOOSE n \in S : \A k \in S : n <= k

\* acquireOperation, then ensureMutationAllowed.
Begin(op) ==
    /\ pop.kind = "idle" /\ pswitch.pc = "idle"
    /\ profileOps < MaxProfileOps /\ profileOps' = profileOps + 1
    /\ pop' = op

OpEnds == pop' = IdleOp
OnlyOp == UNCHANGED <<dirs, vault, legacy, restore, chosen, pswitch, points, records, pickable,
                      made, litter, uids, profileCrashes>>

-----------------------------------------------------------------------------
(* CloneProfile: straight into its new place.                              *)

\* nextProfileName: the first name of the family nothing uses.
NextProfileName(family) ==
    IF \A n \in family : Exists(n) THEN NoName ELSE Lowest({n \in family : ~Exists(n)})

CloneProfile(n) ==
    /\ Exists(n) /\ NextProfileName(CloneNames) # NoName
    /\ Begin([IdleOp EXCEPT !.kind = "clone", !.pc = "mkdir", !.name = n,
                            !.dest = NextProfileName(CloneNames)])
    /\ OnlyOp

\* copyProfileTree makes the directory first; a file more or less later ...
CloneBegins ==
    /\ pop.kind = "clone" /\ pop.pc = "mkdir"
    /\ uids' = uids + 1
    /\ dirs' = [dirs EXCEPT ![pop.dest] = [uid |-> uids + 1, whole |-> FALSE,
                                           faulty |-> dirs[pop.name].faulty]]
    /\ pop' = [pop EXCEPT !.pc = "copy"]
    /\ UNCHANGED <<vault, legacy, restore, chosen, pswitch, points, records, pickable, made, litter,
                   profileOps, profileCrashes>>

\* ... everything is there, or the copy fails and takes its directory away.
CloneEnds(ok, cleaned) ==
    /\ pop.kind = "clone" /\ pop.pc = "copy"
    /\ dirs' = [dirs EXCEPT ![pop.dest] = IF ok THEN [@ EXCEPT !.whole = dirs[pop.name].whole]
                                          ELSE IF cleaned THEN NoDir ELSE @]
    /\ litter' = IF (ok /\ dirs[pop.name].whole) \/ (~ok /\ cleaned) THEN litter
                 ELSE litter \cup {dirs[pop.dest].uid}
    /\ OpEnds
    /\ UNCHANGED <<vault, legacy, restore, chosen, pswitch, points, records, pickable, made,
                   uids, profileOps, profileCrashes>>

-----------------------------------------------------------------------------
(* prepareProfileBackups, and the operations that begin with it.           *)

\* Each archive of the shared folder whose manifest names the profile moves to
\* the profile's own folder, under a name that is free there.
Free(n, f) == IF \A a \in vault[n] : a.file # f THEN f
              ELSE Lowest({g \in Files : g > f /\ \A a \in vault[n] : a.file # g})

\* Mutant: the archive takes the place of one with its name.
PrepareOver(n) ==
    LET mine == {a \in legacy : a.ref = n} IN
    /\ legacy' = legacy \ mine
    /\ vault' = [vault EXCEPT ![n] = {a \in @ : \A b \in mine : a.file # b.file} \cup mine]

PrepareProfileBackups(n) ==
    LET mine == {a \in legacy : a.ref = n} IN
    /\ legacy' = legacy \ mine
    /\ vault' = [vault EXCEPT ![n] = @ \cup {[a EXCEPT !.file = Free(n, a.file)] : a \in mine}]

BackupOp(kind, n, arc) ==
    /\ Exists(n)
    /\ Begin([IdleOp EXCEPT !.kind = kind, !.pc = "prepare", !.name = n, !.arc = arc])
    /\ OnlyOp

BackupProfile(n) == BackupOp("backup", n, NoArchive)
ListProfileBackups(n) == BackupOp("list", n, NoArchive)
DeleteProfileBackup(n, f) == BackupOp("forget", n, [NoArchive EXCEPT !.file = f])

\* The prepared folder: a restore only learns its path.
Prepared ==
    /\ pop.pc = "prepare"
    /\ Exists(pop.name)
    /\ PrepareProfileBackups(pop.name)
    /\ pop' = IF pop.kind \in {"list", "find"} THEN IdleOp ELSE [pop EXCEPT !.pc = pop.kind]
    /\ restore' = IF pop.kind = "find" THEN [restore EXCEPT !.at = "found"] ELSE restore
    /\ UNCHANGED <<dirs, chosen, pswitch, points, records, pickable, made, litter, uids, profileOps,
                   profileCrashes>>

\* A cancelled or failed operation ends here, before or after a move.
PrepareFails ==
    /\ pop.pc = "prepare"
    /\ PrepareProfileBackups(pop.name) \/ UNCHANGED <<legacy, vault>>
    /\ OpEnds
    /\ restore' = IF pop.kind = "find" THEN IdleRestore ELSE restore
    /\ UNCHANGED <<dirs, chosen, pswitch, points, records, pickable, made, litter, uids,
                   profileOps, profileCrashes>>

\* writeProfileArchive: a .part file, renamed once it is whole.
WriteArchive(ok) ==
    /\ pop.pc = "backup"
    /\ LET used == {a.file : a \in vault[pop.name]}
           arc == [id |-> uids + 1, file |-> Lowest(Files \ used), ref |-> pop.name,
                   of |-> dirs[pop.name].uid]
       IN IF ok /\ dirs[pop.name].whole /\ Files \ used # {}
          THEN /\ vault' = [vault EXCEPT ![pop.name] = @ \cup {arc}]
               /\ made' = made \cup {arc.id}
               /\ uids' = uids + 1
          ELSE UNCHANGED <<vault, made, litter, uids>>
    /\ OpEnds
    /\ UNCHANGED <<dirs, legacy, restore, chosen, pswitch, points, records, pickable, litter,
                   profileOps, profileCrashes>>

\* ExportProfile: outside every profile, replacing the file the user named.
ExportProfile(n) ==
    /\ Exists(n) /\ dirs[n].whole
    /\ Begin(IdleOp)
    /\ pickable' = [id |-> 0, file |-> 0, ref |-> n, of |-> dirs[n].uid]
    /\ UNCHANGED <<dirs, vault, legacy, restore, chosen, pswitch, points, records, made, litter, uids,
                   profileCrashes>>

ForgetArchive ==
    /\ pop.pc = "forget"
    /\ LET gone == {a \in vault[pop.name] : a.file = pop.arc.file} IN
          /\ vault' = [vault EXCEPT ![pop.name] = @ \ gone]
          /\ made' = made \ {a.id : a \in gone}
    /\ OpEnds
    /\ UNCHANGED <<dirs, legacy, restore, chosen, pswitch, points, records, pickable, litter, uids,
                   profileOps, profileCrashes>>

-----------------------------------------------------------------------------
(* DeleteProfile                                                           *)

InUse(n) == \E r \in Roles : chosen[r] = n

\* Mutant: the failed target of a switch is not looked at.
DeleteUnchecked(n) ==
    /\ n # First /\ \A r \in Roles \ {"failed"} : chosen[r] # n
    /\ BackupOp("delete", n, NoArchive)

DeleteProfile(n) ==
    /\ n # First /\ ~InUse(n)
    /\ BackupOp("delete", n, NoArchive)

\* os.RemoveAll, which may stop half way; the version points stay in memory.
RemoveProfile(ok) ==
    /\ pop.pc = "delete"
    /\ \E left \in SUBSET vault[pop.name] :
          /\ ok => left = {}
          /\ vault' = [vault EXCEPT ![pop.name] = left]
          /\ made' = made \ {a.id : a \in vault[pop.name] \ left}
    /\ dirs' = [dirs EXCEPT ![pop.name] = IF ok THEN NoDir ELSE [@ EXCEPT !.whole = FALSE]]
    /\ records' = [records EXCEPT ![pop.name] = IF ok THEN 0 ELSE @]
    /\ litter' = IF ok THEN litter ELSE litter \cup {dirs[pop.name].uid}
    /\ OpEnds
    /\ UNCHANGED <<legacy, restore, chosen, pswitch, points, pickable, uids, profileOps,
                   profileCrashes>>

-----------------------------------------------------------------------------
(* RestoreProfileBackup and ImportProfileBackup                            *)

\* The archive's folder is prepared under the gate, like a listing.
RestoreProfileBackup(n, f) ==
    /\ restore = IdleRestore /\ Exists(n)
    /\ Begin([IdleOp EXCEPT !.kind = "find", !.pc = "prepare", !.name = n])
    /\ restore' = [at |-> "finding", name |-> n, file |-> f]
    /\ UNCHANGED <<dirs, vault, legacy, chosen, pswitch, points, records, pickable, made, uids,
                   litter, profileCrashes>>

\* The gate is free in between: the archive may have gone, or its profile with
\* it, and the import then finds nothing to open.
ImportFound ==
    /\ restore.at = "found" /\ pop.kind = "idle" /\ pswitch.pc = "idle"
    /\ LET here == {a \in vault[restore.name] : a.file = restore.file} IN
       pop' = IF here = {} THEN IdleOp
              ELSE [IdleOp EXCEPT !.kind = "import", !.pc = "stage", !.arc = CHOOSE a \in here : TRUE]
    /\ restore' = IdleRestore
    /\ UNCHANGED <<dirs, vault, legacy, chosen, pswitch, points, records, pickable, made, uids,
                   litter, profileOps, profileCrashes>>

RestoreRefused ==
    /\ restore.at = "found"
    /\ restore' = IdleRestore
    /\ UNCHANGED <<dirs, vault, legacy, pop, chosen, pswitch, points, records, pickable, made,
                   uids, litter, profileOps, profileCrashes>>

\* An archive the user picked.
ImportProfileBackup ==
    /\ pickable # NoArchive
    /\ Begin([IdleOp EXCEPT !.kind = "import", !.pc = "stage", !.arc = pickable])
    /\ OnlyOp

\* Mutant: the archive is unpacked in place.
PublishInPlace ==
    /\ pop.pc = "stage" /\ NextProfileName(RestoredNames) # NoName
    /\ uids' = uids + 1
    /\ dirs' = [dirs EXCEPT ![NextProfileName(RestoredNames)] =
                   [uid |-> uids + 1, whole |-> FALSE, faulty |-> TRUE]]
    /\ OpEnds
    /\ UNCHANGED <<vault, legacy, restore, chosen, pswitch, points, records, pickable, made,
                   litter, profileOps, profileCrashes>>

\* The archive is unpacked in a staging directory, which a name nothing uses
\* then publishes.
PublishRestored ==
    /\ pop.pc = "stage" /\ NextProfileName(RestoredNames) # NoName
    /\ uids' = uids + 1
    /\ dirs' = [dirs EXCEPT ![NextProfileName(RestoredNames)] =
                   [uid |-> uids + 1, whole |-> TRUE, faulty |-> TRUE]]
    /\ OpEnds
    /\ UNCHANGED <<vault, legacy, restore, chosen, pswitch, points, records, pickable, made,
                   litter, profileOps, profileCrashes>>

\* Unpacking fails, the archive is no profile, or no name is left; the staging
\* directory goes.
ImportFails ==
    /\ pop.pc = "stage"
    /\ OpEnds
    /\ UNCHANGED profileOps /\ OnlyOp

-----------------------------------------------------------------------------
(* The Run context: a switch, its end, and DisableFaultPlugin after it.    *)

\* saveState writes the points of every profile that exists.
SavePoints(p) == records' = [n \in Names |-> IF Exists(n) THEN p[n] ELSE 0]

\* BeginRunContextSwitch
BeginSwitch(n) ==
    /\ pswitch.pc = "idle" /\ Exists(n)
    /\ profileOps < MaxProfileOps /\ profileOps' = profileOps + 1
    /\ pswitch' = [pc |-> "drain", to |-> n]
    /\ UNCHANGED <<dirs, vault, legacy, pop, restore, chosen, points, records, pickable, made,
                   uids, litter, profileCrashes>>

\* The gate is drained, the target resolved, the Worker stopped and the profile
\* prepared under the gate; a profile that is gone cannot be resolved.
PrepareRunContext ==
    /\ pswitch.pc = "drain" /\ pop.kind = "idle"
    /\ pswitch' = IF Exists(pswitch.to) THEN [pswitch EXCEPT !.pc = "starting"]
                  ELSE [pc |-> "idle", to |-> NoName]
    /\ chosen' = [chosen EXCEPT !["current"] = IF Exists(pswitch.to) THEN NoName ELSE @]
    /\ UNCHANGED <<dirs, vault, legacy, pop, restore, points, records, pickable, made, uids,
                   litter, profileOps, profileCrashes>>

\* commitVersionHealthy captures a point of the profile that now runs.
CommitHealthy ==
    /\ pswitch.pc = "starting"
    /\ chosen' = [chosen EXCEPT !["configured"] = pswitch.to, !["current"] = pswitch.to,
                                !["knownGood"] = pswitch.to, !["failed"] = NoName]
    /\ points' = [points EXCEPT ![pswitch.to] = dirs[pswitch.to].uid]
    /\ SavePoints(points')
    /\ pswitch' = [pc |-> "idle", to |-> NoName]
    /\ UNCHANGED <<dirs, vault, legacy, pop, restore, pickable, made, uids, litter, profileOps,
                   profileCrashes>>

\* RecordSwitchAttempt: the failed target is kept, and configured if no other
\* context was to be restored.
SwitchFails(configure) ==
    /\ pswitch.pc = "starting"
    /\ chosen' = [chosen EXCEPT !["failed"] = pswitch.to,
                                !["configured"] = IF configure THEN pswitch.to ELSE @]
    /\ SavePoints(points)
    /\ pswitch' = [pc |-> "idle", to |-> NoName]
    /\ UNCHANGED <<dirs, vault, legacy, pop, restore, points, pickable, made, uids, litter,
                   profileOps, profileCrashes>>

\* DisableFaultPlugin: no Worker may run; the manifest is replaced by a rename.
DisableFaultPlugin ==
    /\ pop.kind = "idle" /\ chosen["current"] = NoName
    /\ chosen["failed"] # NoName /\ Exists(chosen["failed"])
    /\ profileOps < MaxProfileOps /\ profileOps' = profileOps + 1
    /\ dirs' = [dirs EXCEPT ![chosen["failed"]].faulty = FALSE]
    /\ UNCHANGED <<vault, legacy, pop, restore, chosen, pswitch, points, records, pickable, made,
                   uids, litter, profileCrashes>>

\* The process dies; loadProfileRecords reads every profile that exists.
CrashStore ==
    /\ profileCrashes < MaxProfileCrashes /\ profileCrashes' = profileCrashes + 1
    /\ litter' = IF pop.kind = "clone" /\ pop.pc = "copy" THEN litter \cup {dirs[pop.dest].uid}
                 ELSE litter
    /\ pop' = IdleOp /\ restore' = IdleRestore
    /\ pswitch' = [pc |-> "idle", to |-> NoName]
    /\ chosen' = [chosen EXCEPT !["current"] = NoName]
    /\ points' = [n \in Names |-> IF Exists(n) THEN records[n] ELSE 0]
    /\ UNCHANGED <<dirs, vault, legacy, records, pickable, made, uids, profileOps>>

Next ==
    \/ \E n \in Names :
          \/ CloneProfile(n) \/ BackupProfile(n) \/ ListProfileBackups(n) \/ ExportProfile(n)
          \/ DeleteProfile(n) \/ BeginSwitch(n)
    \/ \E n \in Names, f \in Files : DeleteProfileBackup(n, f) \/ RestoreProfileBackup(n, f)
    \/ CloneBegins \/ Prepared \/ PrepareFails \/ ForgetArchive
    \/ ImportFound \/ RestoreRefused \/ ImportProfileBackup \/ PublishRestored \/ ImportFails
    \/ \E ok, cleaned \in BOOLEAN : CloneEnds(ok, cleaned)
    \/ \E ok \in BOOLEAN : WriteArchive(ok) \/ RemoveProfile(ok) \/ SwitchFails(ok)
    \/ PrepareRunContext \/ CommitHealthy \/ DisableFaultPlugin \/ CrashStore

Spec == Init /\ [][Next]_storeVars

-----------------------------------------------------------------------------
(* Properties                                                              *)

\* State is well typed; no two directories are the same one, and the records
\* folder goes with its profile.
ProfileStoreTypeOK ==
    /\ \A n, k \in Names : Exists(n) /\ dirs[n].uid = dirs[k].uid => n = k
    /\ \A n \in Names : ~Exists(n) => vault[n] = {} /\ records[n] = 0
    /\ \A n \in Names : \A a, b \in vault[n] : a.file = b.file => a = b
    /\ pswitch.pc \in {"idle", "drain", "starting"}

\* A profile that is configured, current, known good or the retained target of
\* a failed switch is never deleted under it, whatever was under way when the
\* switch began (profile_operations.go:101-160, manager.go:1820-1842).
ChosenIsKept ==
    /\ \A r \in Roles : chosen[r] # NoName => Exists(chosen[r])
    /\ pswitch.pc = "starting" => Exists(pswitch.to)

\* A backup is lost only with its profile or by its own deletion: moving the
\* shared folder's archives into the profiles, retried and interrupted as often
\* as it may be, overwrites none (profile_restore.go:90-177).
NoBackupLost ==
    made = {a.id : a \in legacy \cup UNION {vault[n] : n \in Names}}

\* What a clone or a restore shows as a profile is a whole one once the gate is
\* free, but for a directory whose removal failed or was never reached
\* (profile_operations.go:81-92, profile_restore.go:297-434).
ProfilesAreWhole ==
    pop.kind = "idle" =>
        \A n \in Names : Exists(n) /\ ~dirs[n].whole => dirs[n].uid \in litter

\* "Records that describe a profile live with that profile"
\* (docs/architecture.md:584): the points held for a profile are its own.
PointsAreOwn == \A n \in Names : Exists(n) /\ points[n] # 0 => points[n] = dirs[n].uid
=============================================================================
