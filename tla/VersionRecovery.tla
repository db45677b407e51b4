--------------------------- MODULE VersionRecovery ---------------------------
(***************************************************************************)
(* Version records and recovery (internal/dshmanager/restore_points.go,    *)
(* profile_records.go): the points a healthy start records, their          *)
(* pointers, the one recovery operation in flight, and the files that      *)
(* carry them over a restart.                                              *)
(*                                                                         *)
(* Points and last-successful pointers live in one recovery.json per       *)
(* profile, the last-running pointer and the operation in state.json.      *)
(* saveState writes them one after the other, each atomically, so a save   *)
(* that fails and a process that dies leave a prefix of the writes behind. *)
(* Nothing reads the files while the process lives: a death inside a save  *)
(* is a failed save followed by Crash.                                     *)
(*                                                                         *)
(* The Host's part is op, the one start, switch or restore it has under    *)
(* way (internal/app/host.go, applyRunContextLocked and resolveLaunch).    *)
(* The manager's operation gate is held from "install" to the end of       *)
(* RecoverVersionPoint, and its mutation guard while a switch runs.        *)
(***************************************************************************)
EXTENDS Naturals, Sequences, SequencesExt, FiniteSets

CONSTANTS
    MaxProfile,     \* profile names are 1..MaxProfile, in directory order
    Existing,       \* the profiles that exist at first
    Content,        \* what the dependency inputs of each profile may be
    MaxPoint,       \* bound on the points recorded in a behaviour
    Operations      \* the operations the users of the manager call

Profile == 1..MaxProfile
PointId == 1..MaxPoint
None == 0
Operation == {"switch", "restore", "cancel", "save", "remove", "rename",
              "delete", "clone", "drift"}

ASSUME MaxProfileAssumption == MaxProfile \in Nat \ {0}
ASSUME ExistingAssumption == Existing \subseteq Profile /\ Existing # {}
ASSUME ContentAssumption ==
    DOMAIN Content = Profile /\ \A p \in Profile : Content[p] # {} /\ None \notin Content[p]
ASSUME MaxPointAssumption == MaxPoint \in Nat
ASSUME OperationsAssumption == Operations \subseteq Operation

Digest == UNION {Content[p] : p \in Profile}

VARIABLES
    vr,         \* Manager.versionRecovery
    configured, \* the profile of Manager.configured
    current,    \* the profile of Manager.current
    knownGood,  \* the profile of Manager.knownGood
    verified,   \* Manager.verifiedPoint
    unreadable, \* profiles whose recovery.json saveState leaves alone
    files,      \* recovery.json of every profile
    app,        \* state.json
    cache,      \* Manager.recordCache: what this process last wrote where
    dirs,       \* the profile directories
    env,        \* the dependency inputs CaptureVersions reads
    op,         \* what the Host has under way
    used,       \* points recorded so far: NewCorrelationID repeats none
    resumes,    \* automatic resumes of the operation in flight
    abandoned   \* the operation in flight is a restore its user cancelled

memVars == <<vr, configured, current, knownGood, verified, unreadable>>
diskVars == <<files, app, cache>>
vars == <<memVars, diskVars, dirs, env, op, used, resumes, abandoned>>

NoPending == [point |-> None, status |-> "none", count |-> 0]
NoVerified == [profile |-> None, digest |-> None]
EmptyFile == [points |-> <<>>, last |-> None]      \* also: no recovery.json
NotCached == [cached |-> FALSE]
EmptyRecovery == [points |-> <<>>, last |-> [p \in Profile |-> None],
                  running |-> None, pending |-> NoPending]
IdleOp == [pc |-> "idle", kind |-> "none", target |-> None, profile |-> None,
           point |-> None, seed |-> None, cancelled |-> FALSE]

Init ==
    /\ vr = EmptyRecovery
    /\ configured \in Existing
    /\ current = None
    /\ knownGood = None
    /\ verified = NoVerified
    /\ unreadable = {}
    /\ files = [p \in Profile |-> EmptyFile]
    /\ app = [running |-> None, pending |-> NoPending, configured |-> configured]
    /\ cache = [p \in Profile |-> NotCached]
    /\ dirs = Existing
    /\ env = [p \in Profile |-> CHOOSE d \in Content[p] : TRUE]
    /\ op = IdleOp
    /\ used = 0
    /\ resumes = 0
    /\ abandoned = FALSE

-----------------------------------------------------------------------------
(* The recorded state and what may be written of it.                       *)

Ids(points) == {points[i].id : i \in DOMAIN points}

\* VersionRecoveryState.point
Point(s, id) == CHOOSE q \in Range(s.points) : q.id = id

Unfinished(pending) == pending.status \in {"running", "failed"}

\* validateVersionRecovery: ids are unique and every pointer resolves.
ValidState(s) ==
    /\ IsInjective([i \in DOMAIN s.points |-> s.points[i].id])
    /\ \A p \in Profile : s.last[p] \in Ids(s.points) \cup {None}
    /\ s.running \in Ids(s.points) \cup {None}
    /\ s.pending.status # "none" => s.pending.point \in Ids(s.points)

\* The automatic points of the same profile verified after the i-th one.
NewerAutomatic(points, i) ==
    {j \in 1..(i - 1) : /\ points[j].kind = "automatic"
                        /\ points[j].profile = points[i].profile}

KeepPoint(s, i) ==
    LET q == s.points[i] IN
        \/ q.kind = "manual"
        \/ Cardinality(NewerAutomatic(s.points, i)) < 2
        \/ q.id = s.running
        \/ q.id = s.last[q.profile]
        \/ Unfinished(s.pending) /\ q.id = s.pending.point

\* Mutant: the result of a completed recovery outlives its point.
PruneOnlyPoints(s) ==
    LET kept == {s.points[i] : i \in {j \in DOMAIN s.points : KeepPoint(s, j)}}
    IN  [s EXCEPT !.points = SelectSeq(s.points, LAMBDA q : q \in kept)]

\* pruneVersionPoints.  Points are kept newest first, as it leaves them.
PruneVersionPoints(s) ==
    LET kept == {s.points[i] : i \in {j \in DOMAIN s.points : KeepPoint(s, j)}}
        points == SelectSeq(s.points, LAMBDA q : q \in kept)
    IN  [s EXCEPT !.points = points,
                  !.pending = IF @.status = "completed" /\ @.point \notin Ids(points)
                              THEN NoPending ELSE @]

FileOf(s, p) == [points |-> SelectSeq(s.points, LAMBDA q : q.profile = p),
                 last |-> s.last[p]]

\* writeProfileRecord: the profiles whose recovery.json a save of s writes.  It
\* writes no file for a profile that has no records and none, and leaves out
\* one that this process wrote before; in a fresh record a time has changed.
RecordChanged(s, ds, fs, fresh, p) ==
    /\ p \in ds \ unreadable
    /\ FileOf(s, p) # EmptyFile \/ fs[p] # EmptyFile
    /\ FileOf(s, p) # cache[p] \/ p \in fresh

\* The records old, files or cache, once the first k profiles were written.
Written(s, ds, fs, fresh, k, old) ==
    [p \in Profile |-> IF p <= k /\ RecordChanged(s, ds, fs, fresh, p)
                       THEN FileOf(s, p) ELSE old[p]]

\* saveState: what a save of s with the configured profile c can leave of the
\* files fs in the directories ds.  An invalid state is refused before the
\* first write; a write that fails leaves those before it.
SaveState(s, c, ds, fs, fresh) ==
    IF ~ValidState(s)
    THEN {[files |-> fs, cache |-> cache, app |-> app, ok |-> FALSE]}
    ELSE {[files |-> Written(s, ds, fs, fresh, k, fs),
           cache |-> Written(s, ds, fs, fresh, k, cache),
           app |-> app, ok |-> FALSE] : k \in 0..MaxProfile}
           \cup {[files |-> Written(s, ds, fs, fresh, MaxProfile, fs),
                  cache |-> Written(s, ds, fs, fresh, MaxProfile, cache),
                  app |-> [running |-> s.running, pending |-> s.pending,
                           configured |-> c],
                  ok |-> TRUE]}

\* One save: the files, and whether the caller was told it worked.
Save(s, c, fresh, ok) ==
    \E r \in SaveState(s, c, dirs, files, fresh) :
        /\ r.ok = ok
        /\ files' = r.files
        /\ cache' = r.cache
        /\ app' = r.app

\* Mutant: memory runs ahead of a save that failed.
SaveVersionStateEarly(s, ok) ==
    /\ Save(s, configured, {}, ok)
    /\ vr' = s

\* saveVersionState: memory follows the files only when all were written.
SaveVersionState(s, ok) ==
    /\ Save(s, configured, {}, ok)
    /\ vr' = IF ok THEN s ELSE vr

-----------------------------------------------------------------------------
(* New: the state a restarted process loads (loadProfileRecords,           *)
(* pruneRecordReferences, loadRecords).                                    *)

\* A point belongs to the profile whose file it is in.
FilePoints(file, p) ==
    [i \in DOMAIN file.points |-> [file.points[i] EXCEPT !.profile = p]]

LoadedPoints ==
    FlattenSeq([p \in Profile |-> IF p \in dirs THEN FilePoints(files[p], p) ELSE <<>>])

PruneRecordReferences(points) ==
    LET Known(id) == IF id \in Ids(points) THEN id ELSE None
    IN  [points |-> points,
         last |-> [p \in Profile |-> IF p \in dirs THEN Known(files[p].last) ELSE None],
         running |-> Known(app.running),
         pending |-> IF app.pending.point \in Ids(points) THEN app.pending
                     ELSE NoPending]

\* Records that do not validate together are set aside: none is used and
\* none is written again.
LoadRecords ==
    LET s == PruneRecordReferences(LoadedPoints) IN
        /\ vr' = IF ValidState(s) THEN s ELSE EmptyRecovery
        /\ unreadable' = IF ValidState(s) THEN {}
                         ELSE {p \in dirs : files[p] # EmptyFile}

\* The process dies and starts again.  The current context and the verified
\* point are process-local; the known-good one is the last running point's.
Crash ==
    /\ LoadRecords
    /\ configured' = app.configured
    /\ current' = None
    /\ knownGood' = IF vr'.running = None THEN None
                    ELSE Point(vr', vr'.running).profile
    /\ verified' = NoVerified
    /\ cache' = [p \in Profile |-> NotCached]
    /\ op' = IdleOp
    /\ UNCHANGED <<files, app, dirs, env, used, resumes, abandoned>>

-----------------------------------------------------------------------------
(* The Host's operation: which steps it may take, and how it goes on.      *)

Goto(pc) == op' = [op EXCEPT !.pc = pc]

\* The launch of profile p.  CaptureLaunchVersions keeps the inputs it starts
\* from; an error of it affects the recorder (no match) and not the start.
LaunchOp(kind, target, p, point, seed) ==
    [pc |-> "launch", kind |-> kind, target |-> target, profile |-> p,
     point |-> point, seed |-> seed, cancelled |-> op.cancelled]

\* A start that failed hands over to the automatic recovery of the selected
\* profile, with its last-successful point, if anything is known to work.
StartupFailed ==
    op' = IF knownGood = None THEN IdleOp ELSE
          [IdleOp EXCEPT !.pc = "decide", !.kind = "startup",
                          !.target = configured,
                          !.point = vr.last[configured]]

\* RecoverVersionPoint returned an error.
RecoverError ==
    CASE op.kind = "resume" -> StartupFailed
      [] op.kind = "restore" -> Goto("decide")
      [] OTHER -> Goto("record")

\* Start, with resolveLaunch and ResumeVersionRecovery: an unfinished
\* recovery is resumed, or refuses the start.
Start ==
    /\ op = IdleOp
    /\ current = None
    /\ configured \in dirs
    /\ ~Unfinished(vr.pending)
    /\ op' = LaunchOp("start", configured, configured, None, env[configured])
    /\ UNCHANGED <<memVars, diskVars, dirs, env, used, resumes, abandoned>>

StartRefused ==
    /\ op = IdleOp
    /\ current = None
    /\ Unfinished(vr.pending)
    /\ StartupFailed
    /\ UNCHANGED <<memVars, diskVars, dirs, env, used, resumes, abandoned>>

\* Mutant: the retry count is not looked at.
MayResumeAgain == vr.pending.status = "running"

MayResume == vr.pending.status = "running" /\ vr.pending.count < 1

ResumeVersionRecovery ==
    /\ op = IdleOp
    /\ current = None
    /\ MayResume
    /\ \E ok \in BOOLEAN :
           /\ SaveVersionState([vr EXCEPT !.pending.count = @ + 1], ok)
           /\ IF ok
              THEN op' = [IdleOp EXCEPT !.pc = "recover", !.kind = "resume",
                                        !.target = configured,
                                        !.point = vr.pending.point]
              ELSE StartupFailed
           /\ resumes' = IF ok THEN resumes + 1 ELSE resumes
    /\ UNCHANGED <<configured, current, knownGood, verified, unreadable, dirs, env,
                   used, abandoned>>

\* SwitchRunContext: the Worker is stopped and the target launched, whatever
\* the operation in flight says.
SwitchRunContext(p) ==
    /\ "switch" \in Operations
    /\ op = IdleOp
    /\ p \in dirs
    /\ current' = None
    /\ op' = LaunchOp("switch", p, p, vr.running, env[p])
    /\ UNCHANGED <<vr, configured, knownGood, verified, unreadable, diskVars, dirs, env,
                   used, resumes, abandoned>>

\* RestoreVersionPoint of the point its user selected.
RestoreVersionPoint(id) ==
    /\ "restore" \in Operations
    /\ op = IdleOp
    /\ id \in Ids(vr.points)
    /\ Point(vr, id).profile \in dirs
    /\ current' = None
    /\ op' = [IdleOp EXCEPT !.pc = "recover", !.kind = "restore",
                            !.target = Point(vr, id).profile, !.point = id]
    /\ UNCHANGED <<vr, configured, knownGood, verified, unreadable, diskVars, dirs, env,
                   used, resumes, abandoned>>

\* CancelRestore ends the context of the restore.
CancelRestore ==
    /\ "cancel" \in Operations
    /\ op.kind = "restore"
    /\ op.pc \in {"recover", "install", "apply", "launch"}
    /\ ~op.cancelled
    /\ op' = [op EXCEPT !.cancelled = TRUE]
    /\ UNCHANGED <<memVars, diskVars, dirs, env, used, resumes, abandoned>>

-----------------------------------------------------------------------------
(* RecoverVersionPoint, in the steps a failure or a crash can tell apart.  *)

\* Mutant: a recovery that is resumed begins with a new budget.
RecoverCountReset(id) == 0

\* Its own retry budget is kept only by a resume of the same operation.
RecoverCount(id) ==
    IF op.kind = "resume" /\ vr.pending.point = id THEN vr.pending.count ELSE 0

\* The preview and the first save.
RecoverBegin ==
    /\ op.pc = "recover"
    /\ \E ok \in BOOLEAN :
           /\ ok => /\ op.point \in Ids(vr.points)
                    /\ Point(vr, op.point).profile \in dirs
                    /\ ~op.cancelled
           /\ IF op.point \in Ids(vr.points)
              THEN SaveVersionState([vr EXCEPT !.pending =
                       [point |-> op.point, status |-> "running",
                        count |-> RecoverCount(op.point)]], ok)
              ELSE UNCHANGED <<vr, diskVars>>
           /\ IF ok
              THEN op' = [op EXCEPT !.pc = "install",
                                    !.profile = Point(vr, op.point).profile]
              ELSE RecoverError
           /\ resumes' = IF ok /\ op.kind # "resume" THEN 0 ELSE resumes
           /\ abandoned' = IF ok THEN FALSE ELSE abandoned
    /\ UNCHANGED <<configured, current, knownGood, verified, unreadable, dirs, env, used>>

\* The DSH version is installed, registered, and the stage recorded.
RecoverInstall ==
    /\ op.pc = "install"
    /\ \E ok \in BOOLEAN :
           /\ ok => ~op.cancelled
           /\ SaveVersionState(vr, ok)
           /\ Goto(IF ok THEN "apply" ELSE "undo")
    /\ UNCHANGED <<configured, current, knownGood, verified, unreadable, dirs, env,
                   used, resumes, abandoned>>

\* The plugins are removed, applied and installed; what is read back must
\* match the point.
RecoverApply ==
    /\ op.pc = "apply"
    /\ \E d \in Content[op.profile], ok \in BOOLEAN :
           /\ ok => ~op.cancelled /\ d = Point(vr, op.point).digest
           /\ env' = [env EXCEPT ![op.profile] = d]
           /\ SaveVersionState(vr, ok)
           /\ IF ok
              THEN op' = LaunchOp(op.kind, op.target, op.profile, op.point, d)
              ELSE Goto("undo")
    /\ UNCHANGED <<configured, current, knownGood, verified, unreadable, dirs, used,
                   resumes, abandoned>>

\* setRecoveryStage of a recovery that failed.
FailStage(ok) ==
    IF vr.pending.status = "none"
    THEN ok /\ UNCHANGED <<vr, diskVars>>
    ELSE SaveVersionState([vr EXCEPT !.pending.status = "failed"], ok)

\* The deferred function of RecoverVersionPoint.
RecoverUndo ==
    /\ op.pc = "undo"
    /\ \E ok \in BOOLEAN : FailStage(ok)
    /\ RecoverError
    /\ UNCHANGED <<configured, current, knownGood, verified, unreadable, dirs, env,
                   used, resumes, abandoned>>

-----------------------------------------------------------------------------
(* The end of a launch.                                                    *)

\* The point a healthy start refreshes, if its contents are the same.
Candidate(p) ==
    IF vr.pending.status = "running" THEN vr.pending.point ELSE vr.last[p]

\* Mutant: any point there is counts as the same.
RefreshesAny(p) == Candidate(p) \in Ids(vr.points)

Refreshes(p) ==
    /\ Candidate(p) \in Ids(vr.points)
    /\ Point(vr, Candidate(p)).digest = env[p]

\* The point that is verified: the refreshed one, moved to this launch's
\* target, or a new automatic one.
VerifiedPoint(p) ==
    IF Refreshes(p) THEN [Point(vr, Candidate(p)) EXCEPT !.profile = p]
    ELSE [id |-> used + 1, kind |-> "automatic", digest |-> env[p], profile |-> p]

Recorded(p) ==
    LET q == VerifiedPoint(p)
        others == SelectSeq(vr.points, LAMBDA r : r.id # q.id)
    IN  [vr EXCEPT !.points = <<q>> \o others,
                   !.last[p] = q.id,
                   !.running = q.id,
                   !.pending.status = IF @ = "none" THEN @ ELSE "completed"]

\* commitVersionHealthy.  The inputs are recorded when they can be read and
\* are those the launch captured.
CommitVersionHealthy ==
    LET p == op.profile IN
    /\ op.pc = "launch"
    /\ \E match, ok \in BOOLEAN :
           LET s == PruneVersionPoints(IF match THEN Recorded(p) ELSE vr)
           IN  /\ match => p \in dirs /\ op.seed = env[p]
               /\ match /\ ~Refreshes(p) => used < MaxPoint
               /\ used' = IF match /\ ~Refreshes(p) THEN used + 1 ELSE used
               /\ Save(s, p, IF match THEN {p} ELSE {}, ok)
               /\ vr' = IF ok THEN s ELSE vr
               /\ verified' = IF match /\ ok THEN [profile |-> p, digest |-> env[p]]
                              ELSE NoVerified
               /\ knownGood' = IF match /\ ok THEN p ELSE knownGood
               /\ abandoned' = (abandoned /\ ~(match /\ ok))
    /\ current' = p
    /\ configured' = p
    /\ CASE op.kind \in {"start", "resume"} -> op' = IdleOp
         [] op.kind \in {"switch", "restore"} -> Goto("ready")
         [] OTHER -> Goto("record")
    /\ UNCHANGED <<unreadable, dirs, env, resumes>>

\* The Worker does not become ready, or its caller gives up on it.
LaunchFailed ==
    /\ op.pc = "launch"
    /\ CASE op.kind \in {"start", "resume"} -> StartupFailed \/ op' = IdleOp
         [] op.kind \in {"switch", "restore"} -> Goto("decide")
         [] OTHER -> Goto("failed") \/ Goto("record")
    /\ UNCHANGED <<memVars, diskVars, dirs, env, used, resumes, abandoned>>

\* What applyRunContextLocked does about a candidate that failed: a restore
\* and a recovery that is already unfinished are left to the user.
MayRollBack ==
    /\ ~op.cancelled
    /\ op.kind # "restore"
    /\ ~(op.kind = "startup" /\ Unfinished(vr.pending))

RollsBack ==
    /\ MayRollBack
    /\ op.point # None
    /\ knownGood # None

DecideRollback ==
    /\ op.pc = "decide"
    /\ RollsBack
    /\ op' = [op EXCEPT !.pc = "recover", !.kind = "rollback"]
    /\ UNCHANGED <<memVars, diskVars, dirs, env, used, resumes, abandoned>>

\* Without automatic recovery the failed target is kept as the configured
\* context.
DecideRecord ==
    /\ op.pc = "decide"
    /\ IF MayRollBack
       THEN \/ Goto("configure")
            \/ ~RollsBack /\ Goto("record")
       ELSE Goto(IF op.kind = "restore" /\ ~op.cancelled THEN "failed" ELSE "record")
    /\ UNCHANGED <<memVars, diskVars, dirs, env, used, resumes, abandoned>>

\* FailVersionRecovery keeps the error an installation recorded.
FailVersionRecovery ==
    /\ op.pc = "failed"
    /\ IF vr.pending.status = "failed" THEN UNCHANGED <<vr, diskVars>>
       ELSE \E ok \in BOOLEAN : FailStage(ok)
    /\ Goto("record")
    /\ UNCHANGED <<configured, current, knownGood, verified, unreadable, dirs, env,
                   used, resumes, abandoned>>

\* RecordSwitchAttempt and ClearSwitchAttempt end the operation with a save of
\* the whole state.
RecordSwitchAttempt ==
    /\ op.pc \in {"ready", "record", "configure"}
    /\ \E ok \in BOOLEAN :
           LET c == IF op.pc = "configure" THEN op.target ELSE configured
           IN  /\ Save(vr, c, {}, ok)
               /\ configured' = IF ok THEN c ELSE configured
    /\ abandoned' = (abandoned \/ (op.cancelled /\ op.pc # "ready"))
    /\ op' = IdleOp
    /\ UNCHANGED <<vr, current, knownGood, verified, unreadable, dirs, env, used,
                   resumes>>

\* The Worker stops: ClearCurrent.
ClearCurrent ==
    /\ op = IdleOp
    /\ current # None
    /\ current' = None
    /\ UNCHANGED <<vr, configured, knownGood, verified, unreadable, diskVars, dirs, env,
                   op, used, resumes, abandoned>>

-----------------------------------------------------------------------------
(* The calls of the settings surface.  They need the operation gate, and   *)
(* ensureMutationAllowed refuses them while a switch is under way; a plain *)
(* start does not keep them out.                                           *)

MutationAllowed ==
    \/ op = IdleOp
    \/ op.kind = "start"
    \/ op.kind = "resume" /\ op.pc \in {"recover", "launch"}

SaveRestorePoint ==
    /\ "save" \in Operations
    /\ MutationAllowed
    /\ current # None
    /\ verified = [profile |-> current, digest |-> env[current]]
    /\ current \in dirs
    /\ used < MaxPoint
    /\ used' = used + 1
    /\ \E ok \in BOOLEAN :
           SaveVersionState([vr EXCEPT !.points = Append(@,
               [id |-> used + 1, kind |-> "manual", digest |-> env[current],
                profile |-> current])], ok)
    /\ UNCHANGED <<configured, current, knownGood, verified, unreadable, dirs, env, op,
                   resumes, abandoned>>

\* A point the pointers or an unfinished recovery need is in use.
InUse(q) ==
    \/ vr.running = q.id
    \/ vr.last[q.profile] = q.id
    \/ Unfinished(vr.pending) /\ vr.pending.point = q.id

\* EditRestorePoint that removes the point; a new label only saves.
EditRestorePoint(q) ==
    /\ "remove" \in Operations
    /\ MutationAllowed
    /\ q.kind = "manual"
    /\ ~InUse(q)
    /\ \E ok \in BOOLEAN :
           SaveVersionState(
               [vr EXCEPT !.points = SelectSeq(@, LAMBDA r : r.id # q.id),
                          !.pending = IF @.point = q.id THEN NoPending ELSE @], ok)
    /\ UNCHANGED <<configured, current, knownGood, verified, unreadable, dirs, env, op,
                   used, resumes, abandoned>>

\* Mutant: the references keep the old name.
RenamedNowhere(p, q, x) == x

RenamedTo(p, q, x) == IF x = p THEN q ELSE x

\* RenameProfile moves the directory, its records with it, and then every
\* reference to the name; a failed save moves the directory back.
RenameProfile(p, q) ==
    LET moved == [files EXCEPT ![q] = files[p], ![p] = EmptyFile]
        s == [vr EXCEPT
                !.last = IF @[p] = None THEN @
                         ELSE [@ EXCEPT ![q] = vr.last[p], ![p] = None],
                !.points = [i \in DOMAIN @ |->
                              [vr.points[i] EXCEPT !.profile = RenamedTo(p, q, @)]]]
        c == RenamedTo(p, q, configured)
    IN  /\ "rename" \in Operations
        /\ MutationAllowed
        /\ p \in dirs /\ q \notin dirs
        /\ current # p
        /\ \E ok \in BOOLEAN, r \in SaveState(s, c, (dirs \ {p}) \cup {q}, moved, {}) :
               /\ r.ok = ok
               /\ app' = r.app
               /\ cache' = r.cache
               /\ files' = IF ok THEN r.files
                           ELSE [r.files EXCEPT ![p] = r.files[q], ![q] = EmptyFile]
               /\ dirs' = IF ok THEN (dirs \ {p}) \cup {q} ELSE dirs
               /\ env' = IF ok THEN [env EXCEPT ![q] = env[p]] ELSE env
               /\ vr' = IF ok THEN s ELSE vr
               /\ configured' = IF ok THEN c ELSE configured
               /\ knownGood' = IF ok THEN RenamedTo(p, q, knownGood) ELSE knownGood
        /\ UNCHANGED <<current, verified, unreadable, op, used, resumes, abandoned>>

\* DeleteProfile removes the directory; the records in memory stay.  (It also
\* refuses the target of the last failed switch, which is not kept here.)
DeleteProfile(p) ==
    /\ "delete" \in Operations
    /\ MutationAllowed
    /\ p \in dirs
    /\ p \notin {current, configured, knownGood}
    /\ dirs' = dirs \ {p}
    /\ files' = [files EXCEPT ![p] = EmptyFile]
    /\ UNCHANGED <<memVars, app, cache, env, op, used, resumes, abandoned>>

\* CloneProfile copies the inputs of a profile and none of its records.
CloneProfile(p, q) ==
    /\ "clone" \in Operations
    /\ MutationAllowed
    /\ p \in dirs /\ q \notin dirs
    /\ env[p] \in Content[q]
    /\ dirs' = dirs \cup {q}
    /\ env' = [env EXCEPT ![q] = env[p]]
    /\ UNCHANGED <<memVars, diskVars, op, used, resumes, abandoned>>

\* The dependency inputs change: a plugin command, or DSH itself.
Drift(p) ==
    /\ "drift" \in Operations
    /\ p \in dirs
    /\ \E d \in Content[p] \ {env[p]} : env' = [env EXCEPT ![p] = d]
    /\ UNCHANGED <<memVars, diskVars, dirs, op, used, resumes, abandoned>>

RecoverNext == RecoverBegin \/ RecoverInstall \/ RecoverApply \/ RecoverUndo

LaunchNext ==
    \/ Start \/ StartRefused \/ ResumeVersionRecovery
    \/ CommitVersionHealthy \/ LaunchFailed
    \/ DecideRollback \/ DecideRecord \/ FailVersionRecovery
    \/ RecordSwitchAttempt \/ ClearCurrent

CallNext ==
    \/ \E p \in Profile : SwitchRunContext(p)
    \/ \E id \in PointId : RestoreVersionPoint(id)
    \/ CancelRestore
    \/ SaveRestorePoint
    \/ \E q \in Range(vr.points) : EditRestorePoint(q)
    \/ \E p, q \in Profile : RenameProfile(p, q)
    \/ \E p \in Profile : DeleteProfile(p)
    \/ \E p, q \in Profile : CloneProfile(p, q)
    \/ \E p \in Profile : Drift(p)

Next == RecoverNext \/ LaunchNext \/ CallNext \/ Crash

Spec == Init /\ [][Next]_vars

-----------------------------------------------------------------------------
(* Properties.                                                             *)

PointRecord == [id : PointId, kind : {"automatic", "manual"}, digest : Digest,
                profile : Profile]
Pending == [point : PointId \cup {None},
            status : {"none", "running", "failed", "completed"}, count : 0..1]
ProfileOrNone == Profile \cup {None}
PointOrNone == PointId \cup {None}

\* The values the manager and its files may hold; the retry count is the one
\* validateVersionRecovery and ResumeVersionRecovery bound.
TypeOK ==
    /\ vr \in [points : Seq(PointRecord), last : [Profile -> PointOrNone],
               running : PointOrNone, pending : Pending]
    /\ configured \in Profile
    /\ current \in ProfileOrNone
    /\ knownGood \in ProfileOrNone
    /\ verified \in [profile : ProfileOrNone, digest : Digest \cup {None}]
    /\ unreadable \in SUBSET Profile
    /\ files \in [Profile -> [points : Seq(PointRecord), last : PointOrNone]]
    /\ app \in [running : PointOrNone, pending : Pending, configured : Profile]
    /\ cache \in [Profile -> [points : Seq(PointRecord), last : PointOrNone]
                               \cup {NotCached}]
    /\ dirs \in SUBSET Profile
    /\ env \in [Profile -> Digest]
    /\ op \in [pc : {"idle", "recover", "install", "apply", "undo", "launch",
                     "ready", "decide", "failed", "record", "configure"},
               kind : {"none", "start", "resume", "startup", "switch", "restore",
                       "rollback"},
               target : ProfileOrNone, profile : ProfileOrNone,
               point : PointOrNone, seed : Digest \cup {None},
               cancelled : BOOLEAN]
    /\ used \in 0..MaxPoint
    /\ resumes \in Nat
    /\ abandoned \in BOOLEAN

\* However often the process dies, a recovery it left running is resumed by
\* itself at most once before a user or a new failure starts another.
ResumesOnce == resumes <= 1

\* The state commitVersionHealthy builds for a healthy start is one saveState
\* accepts: pruning never takes away a point some pointer still needs.
RecordIsAccepted ==
    op.pc = "launch" => ValidState(PruneVersionPoints(Recorded(op.profile)))

\* At every moment, also between two writes of a save, the success pointer in
\* a profile's file names a point of that file: whatever a crash leaves, the
\* profile's own last-successful point can be loaded.
PointerStaysHome ==
    \A p \in dirs : files[p].last \in Ids(files[p].points) \cup {None}

OnDisk == UNION {Ids(files[p].points) : p \in dirs}

\* A manual point that was saved stays, in memory and on disk, until
\* EditRestorePoint removes it or its profile goes: over saves that fail half
\* way, renames and restarts too.
ManualKept ==
    [][\A q \in Range(vr.points) :
          \/ q.kind = "automatic" \/ q.id \notin OnDisk
          \/ q.id \in Ids(vr'.points) \cap OnDisk'
          \/ EditRestorePoint(q)
          \/ DeleteProfile(q.profile)]_vars

\* Whenever the manager takes over a state it saved, every recovery.json it may
\* write holds that state's records of its profile: a restart would load them.
SavedIsOnDisk ==
    [][vr' # vr /\ ~Crash =>
          \A p \in dirs' \ unreadable' :
              /\ FilePoints(files'[p], p) = FileOf(vr', p).points
              /\ files'[p].last = vr'.last[p]]_vars

\* The point state.json calls the last running one can be loaded with it.
LastRunningDurable ==
    app.running \in OnDisk \cup {None}

\* A recovery that completed stays completed until another one is begun or its
\* point is removed.
CompletedStays ==
    [][vr.pending.status = "completed" => vr'.pending.status # "failed"]_vars

\* A recovery its user cancelled is not taken up again by a later start.
CancelledNeedsUser == ~(abandoned /\ op.kind = "resume")

\* A healthy start that could not be recorded leaves the success pointer on
\* disk as it was.
FailedRecordKeepsPointer ==
    [][CommitVersionHealthy /\ vr' = vr /\ verified' = NoVerified
         => \A p \in Profile : files'[p].last = files[p].last]_vars

=============================================================================
