---------------------------- MODULE ProfileImport ----------------------------
(***************************************************************************)
(* "Import from DSH", dshmanager/app_profile_migration.go: an analysis of  *)
(* what the chosen folder adds to the managed profile, then one item after *)
(* another (patch rows, credentials, workspaces, session history with its  *)
(* projection cache and attachments, plugins), each with its own failure,  *)
(* and a process that may die between any two file operations.  The files  *)
(* are sets of keys; what is kept of a value is whose it is, the user's    *)
(* own or imported.                                                        *)
(***************************************************************************)
EXTENDS Naturals, Sequences, FiniteSets, SequencesExt, Functions

CONSTANTS
    SourceKeys,    \* keys of source credentials, patch rows with an id, and sessions
    OwnKeys,       \* those of them the managed profile already has
    SourceSpaces,  \* the source's workspaces: a sequence of [id, path, sess]
    OwnSpaces,     \* the managed profile's
    FreshIds,      \* ids newWorkspaceID may generate
    MaxImports, MaxCrashes, MaxFailures   \* bounds

VARIABLES
    creds,       \* credential key -> "none", "own", "imported"
    rows,        \* the patch layer: sequence of [id, by]
    spaces,      \* workspaces by position, the order of workspaceIds
    sessions,    \* session -> "none", "own", "part" (a torn copy), "imported"
    temps,       \* sessions with a temporary copy, "copying" while one is being made
    skipped,     \* sessions whose copy failed in this import
    extras,      \* "cache" and "attachments" files imported
    plugins,     \* the source's plugin: "none" or "installed"
    step,        \* what the import under way does next, "idle" when none is
    offered,     \* what the analysis found available
    report,      \* the items reported as applied and as failed
    imports, importCrashes, importFailures

importVars == <<creds, rows, spaces, sessions, temps, skipped, extras, plugins, step, offered, report,
                imports, importCrashes, importFailures>>

Items == <<"patch", "credentials", "workspaces", "sessions", "cache", "attachments", "plugins">>
Empty == [applied |-> {}, failed |-> {}]
RowIds == {rows[i].id : i \in DOMAIN rows}

ImportInit ==
    /\ creds = [k \in SourceKeys |-> IF k \in OwnKeys THEN "own" ELSE "none"]
    /\ rows = SetToSeq({[id |-> k, by |-> "own"] : k \in OwnKeys})
    /\ spaces = OwnSpaces
    /\ sessions = [k \in SourceKeys |-> IF k \in OwnKeys THEN "own" ELSE "none"]
    /\ temps = {} /\ skipped = {} /\ extras = {} /\ plugins = "none"
    /\ step = "idle" /\ offered = {} /\ report = Empty
    /\ imports = 0 /\ importCrashes = 0 /\ importFailures = 0

-----------------------------------------------------------------------------
\* matchingWorkspaceID: the first of the target's workspaces with the same path, 0 if none.
Matching(t, w) == IF \E i \in DOMAIN t : t[i].path = w.path
                  THEN CHOOSE i \in DOMAIN t : /\ t[i].path = w.path
                                               /\ \A j \in 1..(i - 1) : t[j].path # w.path
                  ELSE 0

MergeOneOver(t, w) ==
    IF Matching(t, w) # 0 THEN [t EXCEPT ![Matching(t, w)] = w] ELSE Append(t, w)

\* One source workspace: its sessions join the matching one; otherwise it is appended,
\* under a generated id when its own is taken.
MergeOne(t, w) ==
    IF Matching(t, w) # 0
    THEN [t EXCEPT ![Matching(t, w)].sess = @ \cup w.sess]
    ELSE LET taken == {t[i].id : i \in DOMAIN t}
         IN Append(t, [w EXCEPT !.id = IF w.id \in taken THEN CHOOSE f \in FreshIds : f \notin taken
                                       ELSE w.id])

\* mergeWorkspaceDocuments
MergeWorkspaces(t) ==
    LET merged[n \in 0..Len(SourceSpaces)] ==
            IF n = 0 THEN t ELSE MergeOne(merged[n - 1], SourceSpaces[n])
    IN merged[Len(SourceSpaces)]

\* workspaceMergeCount > 0
SpacesAdd == \E i \in DOMAIN SourceSpaces :
                LET m == Matching(spaces, SourceSpaces[i])
                IN IF m = 0 THEN TRUE ELSE ~(SourceSpaces[i].sess \subseteq spaces[m].sess)

\* analyzeAppProfileMigration and migrationDataAvailable: the session item is offered for
\* the sake of missing sessions only.
Available ==
    {x \in ToSet(Items) :
        CASE x = "patch" -> SourceKeys # RowIds \cap SourceKeys
          [] x = "credentials" -> \E k \in SourceKeys : creds[k] = "none"
          [] x = "workspaces" -> SpacesAdd
          [] x = "plugins" -> plugins = "none"
          [] OTHER -> \E k \in SourceKeys : sessions[k] = "none"}

NextStep(x, o) == LET rest == {i \in DOMAIN Items : Items[i] \in o /\ \A j \in DOMAIN Items : Items[j] = x => i > j}
                  IN IF rest = {} THEN "done" ELSE Items[CHOOSE i \in rest : \A j \in rest : i <= j]

\* MigrateIntoAppProfile begins: the analysis decides which requested items run.
StartImport ==
    /\ step = "idle" /\ imports < MaxImports
    /\ imports' = imports + 1
    /\ offered' = Available
    /\ step' = NextStep("start", Available)
    /\ report' = Empty /\ skipped' = {}
    /\ UNCHANGED <<creds, rows, spaces, sessions, temps, extras, plugins, importCrashes, importFailures>>

\* An item succeeds, or fails and leaves its file alone; the import goes on either way.
Applied(x) == /\ report' = [report EXCEPT !.applied = @ \cup {x}]
              /\ step' = NextStep(x, offered)
              /\ UNCHANGED <<offered, imports, importCrashes, importFailures>>

ItemFails ==
    /\ step \in offered \ {"sessions"} /\ importFailures < MaxFailures
    /\ importFailures' = importFailures + 1
    /\ report' = [report EXCEPT !.failed = @ \cup {step}]
    /\ step' = NextStep(step, offered)
    /\ UNCHANGED <<creds, rows, spaces, sessions, temps, skipped, extras, plugins, offered, imports, importCrashes>>

\* migratePatchLayer: rows whose id the target has are left out; the file is replaced whole.
MigratePatchLayer ==
    /\ step = "patch"
    /\ rows' = rows \o SetToSeq({[id |-> k, by |-> "imported"] : k \in SourceKeys \ RowIds})
    /\ Applied("patch")
    /\ UNCHANGED <<creds, spaces, sessions, temps, skipped, extras, plugins>>

MigrateCredentialsOver ==
    /\ step = "credentials"
    /\ creds' = [k \in SourceKeys |-> "imported"]
    /\ Applied("credentials")
    /\ UNCHANGED <<rows, spaces, sessions, temps, skipped, extras, plugins>>

\* migrateCredentials: only the entries the target lacks.
MigrateCredentials ==
    /\ step = "credentials"
    /\ creds' = [k \in SourceKeys |-> IF creds[k] = "none" THEN "imported" ELSE creds[k]]
    /\ Applied("credentials")
    /\ UNCHANGED <<rows, spaces, sessions, temps, skipped, extras, plugins>>

\* migrateWorkspaces
MigrateWorkspaces ==
    /\ step = "workspaces"
    /\ spaces' = MergeWorkspaces(spaces)
    /\ Applied("workspaces")
    /\ UNCHANGED <<creds, rows, sessions, temps, skipped, extras, plugins>>

Missing == {k \in SourceKeys : sessions[k] = "none"} \ skipped

CopySessionInPlace(k) ==
    /\ step = "sessions" /\ k \in Missing /\ temps = {}
    /\ sessions' = [sessions EXCEPT ![k] = "part"]
    /\ temps' = {k}
    /\ UNCHANGED <<creds, rows, spaces, skipped, extras, plugins, step, offered, report, imports,
                   importCrashes, importFailures>>

\* migrateSessionHistory, for one session: an earlier leftover is removed and the session
\* is copied to a temporary directory ...
CopySession(k) ==
    /\ step = "sessions" /\ k \in Missing /\ temps \cap {"copying"} = {}
    /\ temps' = temps \cup {k, "copying"}
    /\ UNCHANGED <<creds, rows, spaces, sessions, skipped, extras, plugins, step, offered, report, imports,
                   importCrashes, importFailures>>

\* ... which is renamed when it is complete.
RenameSession(k) ==
    /\ step = "sessions" /\ {k, "copying"} \subseteq temps /\ k \in Missing
    /\ sessions' = [sessions EXCEPT ![k] = "imported"]
    /\ temps' = temps \ {k, "copying"}
    /\ UNCHANGED <<creds, rows, spaces, skipped, extras, plugins, step, offered, report, imports,
                   importCrashes, importFailures>>

\* A copy fails: its temporary directory is removed, the next session is taken and the
\* item is reported as failed.
CopyFails(k) ==
    /\ step = "sessions" /\ {k, "copying"} \subseteq temps /\ importFailures < MaxFailures
    /\ importFailures' = importFailures + 1
    /\ temps' = temps \ {k, "copying"}
    /\ report' = [report EXCEPT !.failed = @ \cup {"sessions"}]
    /\ skipped' = skipped \cup {k}
    /\ UNCHANGED <<creds, rows, spaces, sessions, extras, plugins, step, offered, imports, importCrashes>>

SessionsCopied ==
    /\ step = "sessions" /\ Missing = {}
    /\ IF skipped = {} THEN Applied("sessions")
       ELSE /\ step' = NextStep("sessions", offered)
            /\ UNCHANGED <<offered, report, imports, importCrashes, importFailures>>
    /\ UNCHANGED <<creds, rows, spaces, sessions, temps, skipped, extras, plugins>>

\* migrateProjectionCache and migrateAttachments
MigrateExtras(x) ==
    /\ step = x
    /\ extras' = extras \cup {x}
    /\ Applied(x)
    /\ UNCHANGED <<creds, rows, spaces, sessions, temps, skipped, plugins>>

\* ApplyPlugin for each requested plugin the target lacks
MigratePlugins ==
    /\ step = "plugins"
    /\ plugins' = "installed"
    /\ Applied("plugins")
    /\ UNCHANGED <<creds, rows, spaces, sessions, temps, skipped, extras>>

ImportReturns ==
    /\ step = "done"
    /\ step' = "idle"
    /\ UNCHANGED <<creds, rows, spaces, sessions, temps, skipped, extras, plugins, offered, report, imports,
                   importCrashes, importFailures>>

\* The process dies between two file operations; temporary directories stay.
ImportCrashes ==
    /\ step # "idle" /\ importCrashes < MaxCrashes
    /\ importCrashes' = importCrashes + 1
    /\ step' = "idle" /\ offered' = {} /\ report' = Empty
    /\ temps' = temps \ {"copying"}
    /\ UNCHANGED <<creds, rows, spaces, sessions, skipped, extras, plugins, imports, importFailures>>

ImportNext ==
    \/ StartImport \/ ItemFails \/ MigratePatchLayer \/ MigrateCredentials \/ MigrateWorkspaces
    \/ \E k \in SourceKeys : CopySession(k) \/ RenameSession(k) \/ CopyFails(k)
    \/ SessionsCopied \/ MigratePlugins \/ ImportReturns \/ ImportCrashes
    \/ \E x \in {"cache", "attachments"} : MigrateExtras(x)

ImportSpec == ImportInit /\ [][ImportNext]_importVars

-----------------------------------------------------------------------------
\* Types: a session directory in the managed profile is whole at every moment, a crash
\* included: the copy is made under another name and renamed.
ImportTypeOK ==
    /\ creds \in [SourceKeys -> {"none", "own", "imported"}]
    /\ sessions \in [SourceKeys -> {"none", "own", "imported"}]
    /\ temps \subseteq SourceKeys \cup {"copying"}
    /\ step \in ToSet(Items) \cup {"idle", "done"}

\* The user's own data survives any number of imports, failed or interrupted: no credential,
\* session or patch row of the managed profile is replaced by the source's.
OwnDataKept ==
    /\ \A k \in OwnKeys : creds[k] = "own" /\ sessions[k] = "own"
    /\ \A k \in OwnKeys : \E i \in DOMAIN rows : rows[i] = [id |-> k, by |-> "own"]
    /\ \A i, j \in DOMAIN rows : rows[i].id = rows[j].id => i = j

\* Merging workspaces loses none: each of the managed profile's keeps its place, id and
\* sessions, ids stay unique, and once the item is applied each source workspace's sessions
\* are found under its path.
WorkspacesKept ==
    /\ \A i \in DOMAIN OwnSpaces : /\ spaces[i].id = OwnSpaces[i].id
                                   /\ spaces[i].path = OwnSpaces[i].path
                                   /\ OwnSpaces[i].sess \subseteq spaces[i].sess
    /\ \A i, j \in DOMAIN spaces : spaces[i].id = spaces[j].id => i = j
    /\ "workspaces" \in report.applied =>
         \A i \in DOMAIN SourceSpaces : \E j \in DOMAIN spaces :
            spaces[j].path = SourceSpaces[i].path /\ SourceSpaces[i].sess \subseteq spaces[j].sess

\* An import that finished without a failure has brought everything over, whatever earlier
\* imports left behind.
FinishedIsComplete ==
    step = "done" /\ report.failed = {} =>
        /\ \A k \in SourceKeys : creds[k] # "none" /\ sessions[k] # "none"
        /\ extras = {"cache", "attachments"} /\ plugins = "installed"
=============================================================================
