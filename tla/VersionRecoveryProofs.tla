------------------------ MODULE VersionRecoveryProofs ------------------------
(***************************************************************************)
(* The retry budget of an interrupted recovery, for any number of          *)
(* profiles, points, crashes and failed saves.                             *)
(*                                                                         *)
(* ResumesOnce is not inductive: it holds because the count that is spent  *)
(* is on disk before the resumed recovery begins.  Budget says so of both  *)
(* copies of the operation, the one in memory and the one a restart would  *)
(* load, and OwnResume says that the recovery a resume begins is the one   *)
(* that was counted, although the gate is free in between.                 *)
(***************************************************************************)
EXTENDS VersionRecovery, TLAPS

PendingShape(pending) ==
    /\ DOMAIN pending = {"point", "status", "count"}
    /\ pending.count \in 0..1

StateShape(s) ==
    /\ DOMAIN s = {"points", "last", "running", "pending"}
    /\ PendingShape(s.pending)

CopiesShape ==
    /\ StateShape(vr)
    /\ PendingShape(app.pending)

OpShape ==
    DOMAIN op = {"pc", "kind", "target", "profile", "point", "seed", "cancelled"}

\* The resumes counted in an operation that could be resumed, when it has had n.
Spent(pending, n) == pending.status = "running" => n <= pending.count

Budget ==
    /\ resumes \in 0..1
    /\ Spent(vr.pending, resumes)
    /\ Spent(app.pending, resumes)

OwnResume ==
    op.kind = "resume" /\ op.pc = "recover" =>
        /\ vr.pending.status = "running"
        /\ vr.pending.point = op.point

BudgetInv == CopiesShape /\ OpShape /\ Budget /\ OwnResume

-----------------------------------------------------------------------------
(* Saves.                                                                  *)

\* A save leaves state.json alone, or writes the operation of its argument.
LEMMA SaveStateApp ==
    ASSUME NEW s, NEW c, NEW ds, NEW fs, NEW fresh,
           NEW r \in SaveState(s, c, ds, fs, fresh)
    PROVE  \/ r.ok = FALSE /\ r.app = app
           \/ /\ r.ok = TRUE
              /\ r.app = [running |-> s.running, pending |-> s.pending, configured |-> c]
<1> DEFINE F(k) == Written(s, ds, fs, fresh, k, fs)
           C(k) == Written(s, ds, fs, fresh, k, cache)
<1>1. CASE ~ValidState(s)
    <2>1. r = [files |-> fs, cache |-> cache, app |-> app, ok |-> FALSE]
        BY <1>1 DEF SaveState
    <2> QED BY <2>1
<1>2. CASE ValidState(s)
    <2>1. \/ \E k \in 0..MaxProfile :
                r = [files |-> F(k), cache |-> C(k), app |-> app, ok |-> FALSE]
          \/ r = [files |-> F(MaxProfile), cache |-> C(MaxProfile),
                  app |-> [running |-> s.running, pending |-> s.pending,
                           configured |-> c],
                  ok |-> TRUE]
        BY <1>2 DEF SaveState
    <2> HIDE DEF F, C
    <2> QED BY <2>1
<1> QED BY <1>1, <1>2

LEMMA SaveApp ==
    ASSUME NEW s, NEW c, NEW fresh, NEW ok \in BOOLEAN, Save(s, c, fresh, ok)
    PROVE  IF ok THEN app' = [running |-> s.running, pending |-> s.pending,
                              configured |-> c]
           ELSE app' = app
<1>1. PICK r \in SaveState(s, c, dirs, files, fresh) : r.ok = ok /\ app' = r.app
    BY DEF Save
<1>2. \/ r.ok = FALSE /\ r.app = app
      \/ /\ r.ok = TRUE
         /\ r.app = [running |-> s.running, pending |-> s.pending, configured |-> c]
    BY <1>1, SaveStateApp
<1> HIDE DEF SaveState
<1>3. CASE ok
    BY <1>1, <1>2, <1>3
<1>4. CASE ~ok
    BY <1>1, <1>2, <1>4
<1> QED BY <1>3, <1>4

\* When memory and state.json take an operation that is within its budget, or
\* neither does, both copies are within their budget.
LEMMA CopiesKeepBudget ==
    ASSUME CopiesShape, Budget, NEW s, NEW c, NEW ok \in BOOLEAN, StateShape(s),
           IF ok THEN app' = [running |-> s.running, pending |-> s.pending,
                              configured |-> c]
           ELSE app' = app,
           vr' = IF ok THEN s ELSE vr,
           resumes' \in 0..1,
           IF ok THEN Spent(s.pending, resumes') ELSE resumes' = resumes
    PROVE  CopiesShape' /\ Budget'
<1>1. CASE ok
    <2>1. app'.pending = s.pending /\ vr' = s
        BY <1>1
    <2> QED BY <1>1, <2>1 DEF CopiesShape, StateShape, PendingShape, Budget, Spent
<1>2. CASE ~ok
    BY <1>2 DEF CopiesShape, Budget
<1> QED BY <1>1, <1>2

\* The same for a save by saveVersionState.
LEMMA SaveKeepsBudget ==
    ASSUME CopiesShape, Budget, NEW s, NEW ok \in BOOLEAN, SaveVersionState(s, ok),
           StateShape(s), resumes' \in 0..1,
           IF ok THEN Spent(s.pending, resumes') ELSE resumes' = resumes
    PROVE  CopiesShape' /\ Budget' /\ vr' = (IF ok THEN s ELSE vr)
<1>1. Save(s, configured, {}, ok) /\ vr' = IF ok THEN s ELSE vr
    BY DEF SaveVersionState
<1>2. IF ok THEN app' = [running |-> s.running, pending |-> s.pending,
                         configured |-> configured]
      ELSE app' = app
    BY <1>1, SaveApp
<1> QED BY <1>1, <1>2, CopiesKeepBudget

\* Pruning finishes no operation and starts none.
LEMMA PruneKeepsPending ==
    ASSUME NEW s, StateShape(s)
    PROVE  /\ StateShape(PruneVersionPoints(s))
           /\ PruneVersionPoints(s).pending \in {s.pending, NoPending}
<1>1. PICK q : PruneVersionPoints(s) =
          [s EXCEPT !.points = q,
                    !.pending = IF @.status = "completed" /\ @.point \notin Ids(q)
                                THEN NoPending ELSE @]
    BY DEF PruneVersionPoints
<1>2. PruneVersionPoints(s).pending \in {s.pending, NoPending}
    BY <1>1 DEF StateShape
<1> QED BY <1>1, <1>2 DEF StateShape, PendingShape, NoPending

\* Marking an operation failed takes it out of reach of a resume.
LEMMA FailStageKeepsBudget ==
    ASSUME CopiesShape, Budget, NEW ok \in BOOLEAN, FailStage(ok),
           resumes' = resumes
    PROVE  CopiesShape' /\ Budget'
<1>1. CASE vr.pending.status = "none"
    BY <1>1 DEF FailStage, diskVars, CopiesShape, Budget
<1>2. CASE vr.pending.status # "none"
    <2> DEFINE s == [vr EXCEPT !.pending.status = "failed"]
    <2>1. SaveVersionState(s, ok)
        BY <1>2 DEF FailStage
    <2>2. StateShape(s) /\ s.pending.status = "failed"
        BY DEF CopiesShape, StateShape, PendingShape
    <2> HIDE DEF s
    <2>3. Spent(s.pending, resumes') /\ resumes' \in 0..1
        BY <2>2 DEF Spent, Budget
    <2> QED BY <2>1, <2>2, <2>3, SaveKeepsBudget
<1> QED BY <1>1, <1>2

-----------------------------------------------------------------------------
(* The invariant.                                                          *)

LEMMA BudgetInit == Init => BudgetInv
    BY DEF Init, BudgetInv, CopiesShape, StateShape, PendingShape, OpShape, Budget,
           Spent, OwnResume, EmptyRecovery, IdleOp, NoPending

\* A step that touches neither copy of the operation and begins no resume.
LEMMA NoCopyTouched ==
    ASSUME BudgetInv, vr' = vr, app' = app, resumes' = resumes, OpShape',
           op'.kind = "resume" /\ op'.pc = "recover" => op' = op
    PROVE  BudgetInv'
    BY DEF BudgetInv, CopiesShape, Budget, OwnResume

\* The operation under way after a failure is no resume that is about to begin.
LEMMA StartupFailedOp ==
    ASSUME StartupFailed
    PROVE  OpShape' /\ op'.pc # "recover"
    BY DEF StartupFailed, IdleOp, OpShape

LEMMA GotoOp ==
    ASSUME OpShape, NEW pc, pc # "recover", Goto(pc)
    PROVE  OpShape' /\ op'.pc # "recover"
    BY DEF Goto, OpShape

LEMMA RecoverErrorOp ==
    ASSUME OpShape, RecoverError
    PROVE  OpShape' /\ op'.pc # "recover"
<1>1. StartupFailed \/ Goto("decide") \/ Goto("record")
    BY DEF RecoverError
<1> QED BY <1>1, StartupFailedOp, GotoOp

-----------------------------------------------------------------------------
(* One lemma per action that writes a copy of the operation.               *)

LEMMA ResumeKeeps == BudgetInv /\ ResumeVersionRecovery => BudgetInv'
<1> SUFFICES ASSUME BudgetInv, ResumeVersionRecovery PROVE BudgetInv'
    OBVIOUS
<1> DEFINE s == [vr EXCEPT !.pending.count = @ + 1]
<1>1. PICK ok \in BOOLEAN :
          /\ SaveVersionState(s, ok)
          /\ IF ok
             THEN op' = [IdleOp EXCEPT !.pc = "recover", !.kind = "resume",
                                       !.target = configured,
                                       !.point = vr.pending.point]
             ELSE StartupFailed
          /\ resumes' = IF ok THEN resumes + 1 ELSE resumes
    BY DEF ResumeVersionRecovery
<1>2. vr.pending.status = "running" /\ vr.pending.count = 0
    BY DEF ResumeVersionRecovery, MayResume, BudgetInv, CopiesShape, StateShape,
           PendingShape
<1>3. resumes = 0
    BY <1>2 DEF BudgetInv, Budget, Spent
<1>4. /\ StateShape(s)
      /\ s.pending.count = 1
      /\ s.pending.status = "running"
      /\ s.pending.point = vr.pending.point
    BY <1>2 DEF BudgetInv, CopiesShape, StateShape, PendingShape
<1> HIDE DEF s
<1>5. CopiesShape' /\ Budget' /\ vr' = (IF ok THEN s ELSE vr)
    <2>1. /\ resumes' \in 0..1
          /\ IF ok THEN Spent(s.pending, resumes') ELSE resumes' = resumes
        BY <1>1, <1>3, <1>4 DEF Spent
    <2> QED BY <1>1, <1>4, <2>1, SaveKeepsBudget DEF BudgetInv
<1>6. CASE ok
    <2>1. OpShape' /\ op'.point = vr.pending.point
        BY <1>1, <1>6 DEF IdleOp, OpShape
    <2> QED BY <1>4, <1>5, <1>6, <2>1 DEF BudgetInv, OwnResume
<1>7. CASE ~ok
    BY <1>1, <1>5, <1>7, StartupFailedOp DEF BudgetInv, OwnResume
<1> QED BY <1>6, <1>7

\* The first save of RecoverVersionPoint: a resume keeps the count it spent, and
\* any other recovery has had no resume.
LEMMA BeginKeeps == BudgetInv /\ RecoverBegin => BudgetInv'
<1> SUFFICES ASSUME BudgetInv, RecoverBegin PROVE BudgetInv'
    OBVIOUS
<1> DEFINE n == RecoverCount(op.point)
           s == [vr EXCEPT !.pending = [point |-> op.point, status |-> "running",
                                        count |-> n]]
<1>1. PICK ok \in BOOLEAN :
          /\ ok => op.point \in Ids(vr.points)
          /\ IF op.point \in Ids(vr.points) THEN SaveVersionState(s, ok)
             ELSE UNCHANGED <<vr, diskVars>>
          /\ IF ok
             THEN op' = [op EXCEPT !.pc = "install",
                                   !.profile = Point(vr, op.point).profile]
             ELSE RecoverError
          /\ resumes' = IF ok /\ op.kind # "resume" THEN 0 ELSE resumes
    BY DEF RecoverBegin
<1>2. OpShape' /\ op'.pc # "recover"
    <2>1. CASE ok
        BY <1>1, <2>1 DEF BudgetInv, OpShape
    <2>2. CASE ~ok
        BY <1>1, <2>2, RecoverErrorOp DEF BudgetInv
    <2> QED BY <2>1, <2>2
<1>3. n \in 0..1 /\ (op.kind = "resume" => n = vr.pending.count)
    BY DEF RecoverCount, BudgetInv, OwnResume, RecoverBegin, CopiesShape, StateShape,
           PendingShape
<1>4. op.kind = "resume" => resumes <= vr.pending.count
    BY DEF BudgetInv, OwnResume, RecoverBegin, Budget, Spent
<1> HIDE DEF n
<1>5. StateShape(s) /\ s.pending.count = n
    BY <1>3 DEF BudgetInv, CopiesShape, StateShape, PendingShape
<1> HIDE DEF s
<1>6. CASE op.point \in Ids(vr.points)
    <2>1. /\ resumes' \in 0..1
          /\ IF ok THEN Spent(s.pending, resumes') ELSE resumes' = resumes
        BY <1>1, <1>3, <1>4, <1>5 DEF Spent, BudgetInv, Budget
    <2>2. CopiesShape' /\ Budget'
        BY <1>1, <1>5, <1>6, <2>1, SaveKeepsBudget DEF BudgetInv
    <2> QED BY <1>2, <2>2 DEF BudgetInv, OwnResume
<1>7. CASE op.point \notin Ids(vr.points)
    <2>1. vr' = vr /\ app' = app /\ resumes' = resumes
        BY <1>1, <1>7 DEF diskVars
    <2> QED BY <1>2, <2>1, NoCopyTouched
<1> QED BY <1>6, <1>7

\* The later saves of RecoverVersionPoint write the operation as it is.
LEMMA InstallKeeps == BudgetInv /\ (RecoverInstall \/ RecoverApply) => BudgetInv'
<1> SUFFICES ASSUME BudgetInv, RecoverInstall \/ RecoverApply PROVE BudgetInv'
    OBVIOUS
<1>1. PICK ok \in BOOLEAN : SaveVersionState(vr, ok)
    BY DEF RecoverInstall, RecoverApply
<1>2. resumes' = resumes
    BY DEF RecoverInstall, RecoverApply
<1>3. CopiesShape' /\ Budget'
    <2>1. StateShape(vr) /\ resumes' \in 0..1 /\ Spent(vr.pending, resumes')
        BY <1>2 DEF BudgetInv, CopiesShape, Budget
    <2> QED BY <1>1, <1>2, <2>1, SaveKeepsBudget DEF BudgetInv
<1>4. OpShape' /\ op'.pc # "recover"
    <2>1. \/ \E pc \in {"apply", "undo"} : Goto(pc)
          \/ \E d : op' = LaunchOp(op.kind, op.target, op.profile, op.point, d)
        BY DEF RecoverInstall, RecoverApply
    <2>2. CASE \E pc \in {"apply", "undo"} : Goto(pc)
        BY <2>2, GotoOp DEF BudgetInv
    <2>3. CASE \E d : op' = LaunchOp(op.kind, op.target, op.profile, op.point, d)
        BY <2>3 DEF LaunchOp, OpShape
    <2> QED BY <2>1, <2>2, <2>3
<1> QED BY <1>3, <1>4 DEF BudgetInv, OwnResume

LEMMA FailKeeps == BudgetInv /\ (RecoverUndo \/ FailVersionRecovery) => BudgetInv'
<1> SUFFICES ASSUME BudgetInv, RecoverUndo \/ FailVersionRecovery PROVE BudgetInv'
    OBVIOUS
<1>1. resumes' = resumes
    BY DEF RecoverUndo, FailVersionRecovery
<1>2. OpShape' /\ op'.pc # "recover"
    BY RecoverErrorOp, GotoOp DEF RecoverUndo, FailVersionRecovery, BudgetInv
<1>3. (\E ok \in BOOLEAN : FailStage(ok)) \/ (vr' = vr /\ app' = app)
    BY DEF RecoverUndo, FailVersionRecovery, diskVars
<1>4. CASE \E ok \in BOOLEAN : FailStage(ok)
    <2>1. CopiesShape' /\ Budget'
        BY <1>1, <1>4, FailStageKeepsBudget DEF BudgetInv
    <2> QED BY <1>2, <2>1 DEF BudgetInv, OwnResume
<1>5. CASE vr' = vr /\ app' = app
    BY <1>1, <1>2, <1>5, NoCopyTouched
<1> QED BY <1>3, <1>4, <1>5

\* A healthy start: what it records is complete, and what it only prunes keeps
\* its operation.
LEMMA CommitKeeps == BudgetInv /\ CommitVersionHealthy => BudgetInv'
<1> SUFFICES ASSUME BudgetInv, CommitVersionHealthy PROVE BudgetInv'
    OBVIOUS
<1> DEFINE base(match) == IF match THEN Recorded(op.profile) ELSE vr
           s(match) == PruneVersionPoints(base(match))
<1>1. PICK match \in BOOLEAN, ok \in BOOLEAN :
          /\ Save(s(match), op.profile, IF match THEN {op.profile} ELSE {}, ok)
          /\ vr' = IF ok THEN s(match) ELSE vr
    BY DEF CommitVersionHealthy
<1>2. resumes' = resumes
    BY DEF CommitVersionHealthy
<1>3. StateShape(base(match)) /\ Spent(base(match).pending, resumes)
    <2>1. CASE match
        <3>1. PICK points, last, running : Recorded(op.profile) =
                  [vr EXCEPT !.points = points, !.last[op.profile] = last,
                             !.running = running,
                             !.pending.status = IF @ = "none" THEN @ ELSE "completed"]
            BY DEF Recorded
        <3>2. /\ StateShape(Recorded(op.profile))
              /\ Recorded(op.profile).pending.status \in {"none", "completed"}
            BY <3>1 DEF BudgetInv, CopiesShape, StateShape, PendingShape
        <3> QED BY <2>1, <3>2 DEF Spent
    <2>2. CASE ~match
        BY <2>2 DEF BudgetInv, CopiesShape, Budget
    <2> QED BY <2>1, <2>2
<1>4. StateShape(s(match)) /\ Spent(s(match).pending, resumes)
    <2>1. /\ StateShape(s(match))
          /\ s(match).pending \in {base(match).pending, NoPending}
        BY <1>3, PruneKeepsPending
    <2> QED BY <1>3, <2>1 DEF Spent, NoPending
<1> HIDE DEF base, s
<1>5. CopiesShape' /\ Budget'
    <2>1. IF ok THEN app' = [running |-> s(match).running,
                             pending |-> s(match).pending,
                             configured |-> op.profile]
          ELSE app' = app
        BY <1>1, SaveApp
    <2>2. resumes' \in 0..1 /\ Spent(s(match).pending, resumes')
        BY <1>2, <1>4 DEF BudgetInv, Budget
    <2> QED BY <1>1, <1>2, <1>4, <2>1, <2>2, CopiesKeepBudget DEF BudgetInv
<1>6. OpShape' /\ op'.pc # "recover"
    <2>1. op' = IdleOp \/ Goto("ready") \/ Goto("record")
        BY DEF CommitVersionHealthy
    <2>2. CASE op' = IdleOp
        BY <2>2 DEF IdleOp, OpShape
    <2> QED BY <2>1, <2>2, GotoOp DEF BudgetInv
<1> QED BY <1>5, <1>6 DEF BudgetInv, OwnResume

LEMMA RecordKeeps == BudgetInv /\ RecordSwitchAttempt => BudgetInv'
<1> SUFFICES ASSUME BudgetInv, RecordSwitchAttempt PROVE BudgetInv'
    OBVIOUS
<1> DEFINE c == IF op.pc = "configure" THEN op.target ELSE configured
<1>1. PICK ok \in BOOLEAN : Save(vr, c, {}, ok)
    BY DEF RecordSwitchAttempt
<1> HIDE DEF c
<1>2. vr' = vr /\ resumes' = resumes /\ op' = IdleOp
    BY DEF RecordSwitchAttempt
<1>3. CopiesShape' /\ Budget'
    <2>1. IF ok THEN app' = [running |-> vr.running, pending |-> vr.pending,
                             configured |-> c]
          ELSE app' = app
        BY <1>1, SaveApp
    <2>2. vr' = (IF ok THEN vr ELSE vr) /\ resumes' \in 0..1
          /\ StateShape(vr) /\ Spent(vr.pending, resumes')
        BY <1>2 DEF BudgetInv, CopiesShape, Budget
    <2> QED BY <1>1, <1>2, <2>1, <2>2, CopiesKeepBudget DEF BudgetInv
<1> QED BY <1>2, <1>3 DEF BudgetInv, OwnResume, OpShape, IdleOp

\* The records may be edited while a resume waits for the gate; its operation
\* is in use, so it is still there when the resume begins.
LEMMA EditKeeps ==
    ASSUME BudgetInv, SaveRestorePoint \/ (\E q : EditRestorePoint(q))
    PROVE  BudgetInv'
<1>1. /\ op' = op /\ resumes' = resumes
    BY DEF SaveRestorePoint, EditRestorePoint
<1>2. \E s : \E ok \in BOOLEAN :
          /\ SaveVersionState(s, ok)
          /\ DOMAIN s = DOMAIN vr
          /\ s.pending \in {vr.pending, NoPending}
          /\ vr.pending.status = "running" => s.pending = vr.pending
    <2>1. CASE SaveRestorePoint
        <3> DEFINE t == [vr EXCEPT !.points = Append(@,
                [id |-> used + 1, kind |-> "manual", digest |-> env[current],
                 profile |-> current])]
        <3>1. PICK ok \in BOOLEAN : SaveVersionState(t, ok)
            BY <2>1 DEF SaveRestorePoint
        <3>2. DOMAIN t = DOMAIN vr /\ t.pending = vr.pending
            BY DEF BudgetInv, CopiesShape, StateShape
        <3> HIDE DEF t
        <3> QED BY <3>1, <3>2
    <2>2. CASE \E q : EditRestorePoint(q)
        <3>1. PICK q : EditRestorePoint(q)
            BY <2>2
        <3> DEFINE t == [vr EXCEPT
                !.points = SelectSeq(@, LAMBDA r : r.id # q.id),
                !.pending = IF @.point = q.id THEN NoPending ELSE @]
        <3>2. PICK ok \in BOOLEAN : SaveVersionState(t, ok)
            BY <3>1 DEF EditRestorePoint
        <3>3. vr.pending.status = "running" => vr.pending.point # q.id
            BY <3>1 DEF EditRestorePoint, InUse, Unfinished
        <3>4. /\ DOMAIN t = DOMAIN vr
              /\ t.pending = IF vr.pending.point = q.id THEN NoPending ELSE vr.pending
            BY DEF BudgetInv, CopiesShape, StateShape
        <3> HIDE DEF t
        <3> QED BY <3>2, <3>3, <3>4
    <2> QED BY <2>1, <2>2
<1>3. PICK s : \E ok \in BOOLEAN :
          /\ SaveVersionState(s, ok)
          /\ DOMAIN s = DOMAIN vr
          /\ s.pending \in {vr.pending, NoPending}
          /\ vr.pending.status = "running" => s.pending = vr.pending
    BY <1>2
<1>4. PICK ok \in BOOLEAN : SaveVersionState(s, ok)
    BY <1>3
<1>5. StateShape(s) /\ Spent(s.pending, resumes')
    BY <1>1, <1>3
    DEF BudgetInv, CopiesShape, StateShape, PendingShape, Budget, Spent, NoPending
<1>6. CopiesShape' /\ Budget' /\ vr' = IF ok THEN s ELSE vr
    <2>1. resumes' \in 0..1
        BY <1>1 DEF BudgetInv, Budget
    <2> QED BY <1>1, <1>4, <1>5, <2>1, SaveKeepsBudget DEF BudgetInv
<1>7. OwnResume'
    BY <1>1, <1>3, <1>6 DEF BudgetInv, OwnResume
<1>8. OpShape'
    BY <1>1 DEF BudgetInv, OpShape
<1> QED BY <1>6, <1>7, <1>8 DEF BudgetInv

LEMMA RenameKeeps ==
    ASSUME BudgetInv, NEW p, NEW q, RenameProfile(p, q)
    PROVE  BudgetInv'
<1>1. op' = op /\ resumes' = resumes
    BY DEF RenameProfile
<1> DEFINE last == IF vr.last[p] = None THEN vr.last
                   ELSE [vr.last EXCEPT ![q] = vr.last[p], ![p] = None]
           points == [i \in DOMAIN vr.points |->
                        [vr.points[i] EXCEPT !.profile = RenamedTo(p, q, @)]]
           s == [vr EXCEPT !.last = last, !.points = points]
           c == RenamedTo(p, q, configured)
           ds == (dirs \ {p}) \cup {q}
           fs == [files EXCEPT ![q] = files[p], ![p] = EmptyFile]
<1>2. PICK ok \in BOOLEAN :
          /\ \E r \in SaveState(s, c, ds, fs, {}) : r.ok = ok /\ app' = r.app
          /\ vr' = IF ok THEN s ELSE vr
    BY DEF RenameProfile
<1> HIDE DEF last, points, c, ds, fs
<1>3. StateShape(s) /\ s.pending = vr.pending
    BY DEF BudgetInv, CopiesShape, StateShape
<1> HIDE DEF s
<1>4. PICK r \in SaveState(s, c, ds, fs, {}) : r.ok = ok /\ app' = r.app
    BY <1>2
<1>5. \/ r.ok = FALSE /\ r.app = app
      \/ /\ r.ok = TRUE
         /\ r.app = [running |-> s.running, pending |-> s.pending, configured |-> c]
    BY <1>4, SaveStateApp
<1>6. IF ok THEN app' = [running |-> s.running, pending |-> s.pending,
                         configured |-> c]
      ELSE app' = app
    BY <1>4, <1>5
<1>7. CopiesShape' /\ Budget'
    <2>1. resumes' \in 0..1 /\ Spent(s.pending, resumes')
        BY <1>1, <1>3 DEF BudgetInv, Budget
    <2> QED BY <1>1, <1>2, <1>3, <1>6, <2>1, CopiesKeepBudget DEF BudgetInv
<1>8. OwnResume' /\ OpShape'
    BY <1>1, <1>2, <1>3 DEF BudgetInv, OwnResume, OpShape
<1> QED BY <1>7, <1>8 DEF BudgetInv

\* A restart loads the operation of state.json, or none.
LEMMA CrashKeeps == BudgetInv /\ Crash => BudgetInv'
<1> SUFFICES ASSUME BudgetInv, Crash PROVE BudgetInv'
    OBVIOUS
<1>1. app' = app /\ resumes' = resumes /\ op' = IdleOp
    BY DEF Crash, diskVars
<1>2. \/ vr' = PruneRecordReferences(LoadedPoints)
      \/ vr' = EmptyRecovery
    BY DEF Crash, LoadRecords
<1>3. /\ DOMAIN vr' = {"points", "last", "running", "pending"}
      /\ vr'.pending \in {app.pending, NoPending}
    BY <1>2 DEF PruneRecordReferences, EmptyRecovery
<1> QED BY <1>1, <1>3
    DEF BudgetInv, CopiesShape, StateShape, PendingShape, Budget, Spent, OwnResume,
        OpShape, IdleOp, NoPending

\* The steps that write no copy of the operation.
LEMMA OtherKeeps ==
    ASSUME BudgetInv,
           \/ Start \/ StartRefused \/ LaunchFailed \/ DecideRollback \/ DecideRecord
           \/ ClearCurrent \/ CancelRestore
           \/ \E p : SwitchRunContext(p)
           \/ \E id : RestoreVersionPoint(id)
           \/ \E p : DeleteProfile(p)
           \/ \E p, q : CloneProfile(p, q)
           \/ \E p : Drift(p)
    PROVE  BudgetInv'
<1>1. vr' = vr /\ app' = app /\ resumes' = resumes
    BY DEF Start, StartRefused, LaunchFailed, DecideRollback, DecideRecord,
           ClearCurrent, CancelRestore, SwitchRunContext, RestoreVersionPoint,
           DeleteProfile, CloneProfile, Drift, memVars, diskVars
<1>2. OpShape' /\ (op'.kind = "resume" /\ op'.pc = "recover" => op' = op)
    <2>1. CASE Start \/ (\E p : SwitchRunContext(p))
        BY <2>1 DEF Start, SwitchRunContext, LaunchOp, OpShape
    <2>2. CASE StartRefused
        BY <2>2, StartupFailedOp DEF StartRefused
    <2>3. CASE LaunchFailed
        <3>1. \/ StartupFailed \/ op' = IdleOp
              \/ Goto("decide") \/ Goto("failed") \/ Goto("record")
            BY <2>3 DEF LaunchFailed
        <3>2. CASE op' = IdleOp
            BY <3>2 DEF IdleOp, OpShape
        <3> QED BY <3>1, <3>2, StartupFailedOp, GotoOp DEF BudgetInv
    <2>4. CASE DecideRollback
        BY <2>4 DEF DecideRollback, BudgetInv, OpShape
    <2>5. CASE DecideRecord
        <3>1. Goto("configure") \/ Goto("record") \/ Goto("failed")
            BY <2>5 DEF DecideRecord
        <3> QED BY <3>1, GotoOp DEF BudgetInv
    <2>6. CASE CancelRestore
        BY <2>6 DEF CancelRestore, BudgetInv, OpShape
    <2>7. CASE \E id : RestoreVersionPoint(id)
        BY <2>7 DEF RestoreVersionPoint, IdleOp, OpShape
    <2>8. CASE \/ ClearCurrent \/ (\E p : DeleteProfile(p)) \/ (\E p : Drift(p))
               \/ \E p, q : CloneProfile(p, q)
        BY <2>8 DEF ClearCurrent, DeleteProfile, Drift, CloneProfile, BudgetInv, OpShape
    <2> QED BY <2>1, <2>2, <2>3, <2>4, <2>5, <2>6, <2>7, <2>8
<1> QED BY <1>1, <1>2, NoCopyTouched

-----------------------------------------------------------------------------

LEMMA BudgetStep == BudgetInv /\ [Next]_vars => BudgetInv'
<1> SUFFICES ASSUME BudgetInv, [Next]_vars PROVE BudgetInv'
    OBVIOUS
<1>1. CASE RecoverNext
    BY <1>1, BeginKeeps, InstallKeeps, FailKeeps DEF RecoverNext
<1>2. CASE LaunchNext
    BY <1>2, ResumeKeeps, CommitKeeps, FailKeeps, RecordKeeps, OtherKeeps DEF LaunchNext
<1>3. CASE CallNext
    BY <1>3, EditKeeps, RenameKeeps, OtherKeeps DEF CallNext
<1>4. CASE Crash
    BY <1>4, CrashKeeps
<1>5. CASE UNCHANGED vars
    BY <1>5, NoCopyTouched DEF vars, memVars, diskVars, BudgetInv, OpShape
<1> QED BY <1>1, <1>2, <1>3, <1>4, <1>5 DEF Next

\* However often the process dies and whichever saves fail, ResumeVersionRecovery
\* takes an operation up at most once by itself.
THEOREM RecoveryResumesOnce == Spec => []ResumesOnce
<1>1. BudgetInv => ResumesOnce
    BY DEF BudgetInv, Budget, ResumesOnce
<1> QED BY BudgetInit, BudgetStep, <1>1, PTL DEF Spec

=============================================================================
