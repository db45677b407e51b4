----------------------------- MODULE HostProofs -----------------------------
(***************************************************************************)
(* Theorems about the Host, for any number of generations and any set of   *)
(* calls.                                                                  *)
(*                                                                         *)
(* TypeOK is inductive as it stands: a program counter of a call fixes the *)
(* kinds of call it belongs to and whether the call has a run (OpAt), and  *)
(* a run's program counter tells whether it holds workerBoundaryMu         *)
(* (LocksAgree).                                                           *)
(*                                                                         *)
(* The safety properties are not inductive by themselves; Inv, below, is   *)
(* their common strengthening.                                             *)
(***************************************************************************)
EXTENDS Host, TLAPS

-----------------------------------------------------------------------------
(* How the holder of switchMu moves.                                       *)

\* A call that takes switchMu with no run of its own leaves op well typed
\* (Host.switchMu.Lock at the start of each call).
LEMMA TakenTyped ==
    ASSUME NEW k \in OpKind \cup {"none"}, NEW to \in OpPc, OpAt(k, to, None),
           op' = NewOp(k, to)
    PROVE  OpTyped'
  BY MaxGenAssumption DEF OpTyped, NewOp, None, NoGeneration

\* A call that returns switchMu leaves op well typed (the deferred Unlock).
LEMMA IdleTyped == op' = IdleOp => OpTyped'
<1>1. OpAt("none", "idle", None) /\ "idle" \in OpPc
  BY DEF OpAt, OpPc, SwitchKind, StopPc, SwitchPc, CleanPc, WithRun
<1> QED BY <1>1, TakenTyped DEF IdleOp

\* beginRunLocked keeps the types: the generation it counts was never used
\* before, so the runs stay born in order (Machine.BeginStart).
LEMMA BeginRunTyped ==
    ASSUME TypeOK, NEW watched \in BOOLEAN, BeginRun(watched), CanStartRun,
           UNCHANGED <<cancelled, ready, failed>>
    PROVE  /\ MachineTyped' /\ RunTyped' /\ BornInOrder'
           /\ current' \in 0..MaxGen
           /\ \A g \in Gen : pc'[g] = "cleaning" <=> pc[g] = "cleaning"
<1>1. NextGen \in Gen /\ NextGen \in 0..MaxGen /\ machine.gen \in Nat
  BY MaxGenAssumption DEF TypeOK, CanStartRun, NextGen, MachineTyped, Gen
<1>2. MachineTyped'
  BY <1>1 DEF MachineTyped, BeginRun, BeginStart, NextGen, State
<1>3. RunTyped'
  BY <1>1 DEF TypeOK, RunTyped, BeginRun, RunPc
<1>4. BornInOrder'
  BY <1>1, MaxGenAssumption
     DEF TypeOK, RunTyped, BeginRun, BeginStart, BornInOrder, NextGen, Gen
<1>5. pc[NextGen] = "unborn"
  BY <1>1 DEF TypeOK, BornInOrder, NextGen
<1>6. \A g \in Gen : pc'[g] = "cleaning" <=> pc[g] = "cleaning"
  BY <1>1, <1>5 DEF BeginRun, TypeOK, RunTyped
<1> QED BY <1>1, <1>2, <1>3, <1>4, <1>6 DEF BeginRun

\* The steps of a call at which it holds workerBoundaryMu.
Holding == {"stopGuard", "cleaning"}

\* Neither lock's holder moves: the program counters and the boundary still
\* agree (workerBoundaryMu).
LEMMA LocksKept ==
    ASSUME LocksAgree,
           UNCHANGED boundary,
           \/ op'.pc = op.pc /\ op'.run = op.run
           \/ op.pc \notin Holding /\ op'.pc \notin Holding,
           \/ UNCHANGED <<cancelPc, cancelRun>>
           \/ cancelPc # "guard" /\ cancelPc' # "guard",
           \A g \in Gen : pc'[g] = "cleaning" <=> pc[g] = "cleaning"
    PROVE  LocksAgree'
  BY DEF LocksAgree, Holding

\* Every holder, run and step give a well-typed boundary (workerBoundaryMu.Lock).
LEMMA HeldTyped ==
    ASSUME NEW h \in {"free", "cancel", "op", "run"}, NEW g \in 0..MaxGen,
           NEW s \in {"none", "detach", "drain"},
           boundary' = Held(h, g, s)
    PROVE  BoundaryTyped'
  BY DEF BoundaryTyped, Held

\* So does the free boundary (workerBoundaryMu.Unlock).
LEMMA FreeTyped == boundary' = FreeBoundary => BoundaryTyped'
  BY MaxGenAssumption, HeldTyped DEF FreeBoundary, None, NoGeneration

\* What the three ways to move on leave of the call that holds switchMu.
LEMMA OpMoves ==
    ASSUME OpTyped
    PROVE  /\ OpReturn => op'.kind = "none" /\ op'.pc = "idle"
           /\ \A to : OpGoto(to) => /\ op'.kind = op.kind /\ op'.pc = to
                                    /\ op'.run = op.run
           /\ \A to, g : OpPick(to, g) => /\ op'.kind = op.kind /\ op'.pc = to
                                          /\ op'.run = g
<1>1. OpReturn => op'.kind = "none" /\ op'.pc = "idle"
  BY DEF OpReturn, IdleOp, NewOp
<1>2. ASSUME NEW to, OpGoto(to)
      PROVE  op'.kind = op.kind /\ op'.pc = to /\ op'.run = op.run
  BY <1>2 DEF OpTyped, OpGoto
<1>3. ASSUME NEW to, NEW g, OpPick(to, g)
      PROVE  op'.kind = op.kind /\ op'.pc = to /\ op'.run = g
  BY <1>3 DEF OpTyped, OpPick
<1> QED BY <1>1, <1>2, <1>3

\* A switch that begins a run follows that run (beginResolvedRun).
LEMMA FollowTyped ==
    ASSUME OpTyped, op.kind \in SwitchKind, NextGen \in Gen,
           NEW rollback \in BOOLEAN, OpFollow(rollback)
    PROVE  /\ OpTyped'
           /\ op'.kind = op.kind /\ op'.pc = "swWait" /\ op'.run = NextGen
<1>1. op'.kind = op.kind /\ op'.pc = "swWait" /\ op'.run = NextGen
  BY DEF OpTyped, OpFollow
<1>2. NextGen \in 0..MaxGen /\ "swWait" \in OpPc
  BY MaxGenAssumption DEF Gen, OpPc, SwitchPc
<1>3. OpAt(op.kind, "swWait", NextGen)
  BY DEF OpAt, SwitchKind, StopPc, CleanPc, SwitchPc, WithRun
<1>4. CASE rollback
  BY <1>1, <1>2, <1>3, <1>4 DEF OpTyped, OpFollow
<1>5. CASE ~rollback
  BY <1>1, <1>2, <1>3, <1>5 DEF OpTyped, OpFollow
<1> QED BY <1>1, <1>4, <1>5

-----------------------------------------------------------------------------
\* Every step of the Host keeps TypeOK: one step per action, and under it one
\* per part of TypeOK that the action can disturb (host.go).
LEMMA TypeStep ==
    ASSUME TypeOK, Next
    PROVE  TypeOK'
<1> USE DEF hostVars, callVars, runVars, workerVars, guardVars
<1>a. /\ MachineTyped /\ HostTyped /\ OpTyped /\ CallTyped /\ BoundaryTyped
      /\ RunTyped /\ WorkerTyped /\ GuardTyped /\ BornInOrder /\ LocksAgree
  BY DEF TypeOK
<1>b. current # None => current \in Gen
  BY <1>a DEF HostTyped, Gen, None, NoGeneration
<1>c. CanStartRun => NextGen \in Gen
  BY <1>a, MaxGenAssumption DEF CanStartRun, NextGen, MachineTyped, Gen
<1>d. \A g \in Gen : g \in 0..MaxGen
  BY MaxGenAssumption DEF Gen

\* The goroutine of a generation.
<1>1. ASSUME NEW g \in Gen, RunStartWorker(g)
      PROVE TypeOK'
  <2>1. RunTyped'
    BY <1>a, <1>1, <1>d, MaxGenAssumption
       DEF RunStartWorker, RunTyped, RunPc, Result, Goto
  <2>2. WorkerTyped'
    BY <1>a, <1>1, <1>d, MaxGenAssumption
       DEF RunStartWorker, WorkerTyped, None, NoGeneration
  <2>3. BornInOrder'
    BY <1>a, <1>1, <1>d, MaxGenAssumption
       DEF RunStartWorker, BornInOrder, RunTyped, MachineTyped, Gen, Result,
           Goto, CanSetPhase, CheckGeneration
  <2>4. \A h \in Gen : pc'[h] = "cleaning" <=> pc[h] = "cleaning"
    BY <1>a, <1>1 DEF RunStartWorker, RunTyped, Result, Goto
  <2>5. LocksAgree'
    BY <1>a, <1>1, <2>4, LocksKept DEF RunStartWorker
  <2>6. MachineTyped' /\ HostTyped' /\ OpTyped' /\ CallTyped'
          /\ BoundaryTyped' /\ GuardTyped'
    BY <1>a, <1>1
       DEF RunStartWorker, MachineTyped, HostTyped, OpTyped, CallTyped,
           BoundaryTyped, GuardTyped
  <2> QED BY <2>1, <2>2, <2>3, <2>5, <2>6 DEF TypeOK
<1>2. ASSUME NEW g \in Gen, RunWaitReady(g)
      PROVE TypeOK'
  <2>1. RunTyped'
    BY <1>a, <1>2, <1>d, MaxGenAssumption
       DEF RunWaitReady, RunTyped, RunPc, Result, Goto
  <2>2. BornInOrder'
    BY <1>a, <1>2, <1>d, MaxGenAssumption
       DEF RunWaitReady, BornInOrder, RunTyped, MachineTyped, Gen, Result, Goto
  <2>3. \A h \in Gen : pc'[h] = "cleaning" <=> pc[h] = "cleaning"
    BY <1>a, <1>2 DEF RunWaitReady, RunTyped, Result, Goto
  <2>4. LocksAgree'
    BY <1>a, <1>2, <2>3, LocksKept DEF RunWaitReady
  <2>5. MachineTyped' /\ HostTyped' /\ OpTyped' /\ CallTyped'
          /\ BoundaryTyped' /\ WorkerTyped' /\ GuardTyped'
    BY <1>a, <1>2
       DEF RunWaitReady, MachineTyped, HostTyped, OpTyped, CallTyped,
           BoundaryTyped, WorkerTyped, GuardTyped
  <2> QED BY <2>1, <2>2, <2>4, <2>5 DEF TypeOK
<1>3. ASSUME NEW g \in Gen, RunCommitReady(g)
      PROVE TypeOK'
  <2>1. MachineTyped'
    BY <1>a, <1>3, <1>d, MaxGenAssumption
       DEF RunCommitReady, MachineTyped, State, CanMarkReady, CheckGeneration,
           MarkReady
  <2>2. RunTyped'
    BY <1>a, <1>3, <1>d, MaxGenAssumption
       DEF RunCommitReady, RunTyped, RunPc, Result, Goto
  <2>3. WorkerTyped'
    BY <1>a, <1>3, <1>d, MaxGenAssumption
       DEF RunCommitReady, WorkerTyped, None, NoGeneration
  <2>4. BornInOrder'
    BY <1>a, <1>3, <1>d, MaxGenAssumption
       DEF RunCommitReady, BornInOrder, RunTyped, MachineTyped, Gen, Result,
           Goto, CanMarkReady, CheckGeneration, MarkReady
  <2>5. \A h \in Gen : pc'[h] = "cleaning" <=> pc[h] = "cleaning"
    BY <1>a, <1>3 DEF RunCommitReady, RunTyped, Result, Goto
  <2>6. LocksAgree'
    BY <1>a, <1>3, <2>5, LocksKept DEF RunCommitReady
  <2>7. HostTyped' /\ OpTyped' /\ CallTyped' /\ BoundaryTyped' /\ GuardTyped'
    BY <1>a, <1>3
       DEF RunCommitReady, HostTyped, OpTyped, CallTyped, BoundaryTyped,
           GuardTyped
  <2> QED BY <2>1, <2>2, <2>3, <2>4, <2>6, <2>7 DEF TypeOK
<1>4. ASSUME NEW g \in Gen, RunServe(g)
      PROVE TypeOK'
  <2>1. RunTyped'
    BY <1>a, <1>4, <1>d, MaxGenAssumption
       DEF RunServe, RunTyped, RunPc, Result, Goto
  <2>2. BornInOrder'
    BY <1>a, <1>4, <1>d, MaxGenAssumption
       DEF RunServe, BornInOrder, RunTyped, MachineTyped, Gen, Result, Goto
  <2>3. \A h \in Gen : pc'[h] = "cleaning" <=> pc[h] = "cleaning"
    BY <1>a, <1>4 DEF RunServe, RunTyped, Result, Goto
  <2>4. LocksAgree'
    BY <1>a, <1>4, <2>3, LocksKept DEF RunServe
  <2>5. MachineTyped' /\ HostTyped' /\ OpTyped' /\ CallTyped'
          /\ BoundaryTyped' /\ WorkerTyped' /\ GuardTyped'
    BY <1>a, <1>4
       DEF RunServe, MachineTyped, HostTyped, OpTyped, CallTyped, BoundaryTyped,
           WorkerTyped, GuardTyped
  <2> QED BY <2>1, <2>2, <2>4, <2>5 DEF TypeOK
<1>5. ASSUME NEW g \in Gen, RunCleanupBegin(g)
      PROVE TypeOK'
  <2>1. BoundaryTyped'
    <3>1. UNCHANGED boundary \/ boundary' = Held("run", g, "detach")
      BY <1>a, <1>5 DEF RunCleanupBegin
    <3>2. CASE UNCHANGED boundary
      BY <1>a, <3>2 DEF BoundaryTyped
    <3>3. CASE boundary' = Held("run", g, "detach")
      BY <1>a, <3>3, <1>d, HeldTyped
    <3> QED BY <1>a, <3>1, <3>2, <3>3
  <2>2. RunTyped'
    BY <1>a, <1>5, <1>d, MaxGenAssumption
       DEF RunCleanupBegin, RunTyped, RunPc, Result, Goto
  <2>3. WorkerTyped'
    BY <1>a, <1>5, <1>d, MaxGenAssumption
       DEF RunCleanupBegin, WorkerTyped, None, NoGeneration, RecordPluginFault
  <2>4. GuardTyped'
    BY <1>a, <1>5, <1>d, MaxGenAssumption
       DEF RunCleanupBegin, GuardTyped, BeginManagerStopGuard
  <2>5. BornInOrder'
    BY <1>a, <1>5, <1>d, MaxGenAssumption
       DEF RunCleanupBegin, BornInOrder, RunTyped, MachineTyped, Gen, Result,
           Goto
  <2>6. LocksAgree'
    <3>1. \/ UNCHANGED boundary /\ Goto(g, "finish")
          \/ boundary' = Held("run", g, "detach") /\ Goto(g, "cleaning")
      BY <1>a, <1>5 DEF RunCleanupBegin, Result
    <3>2. CASE UNCHANGED boundary /\ Goto(g, "finish")
      <4>1. \A h \in Gen : pc'[h] = "cleaning" <=> pc[h] = "cleaning"
        BY <1>a, <3>2, <1>5 DEF RunCleanupBegin, Goto, RunTyped
      <4> QED BY <1>a, <3>2, <4>1, <1>5, LocksKept DEF RunCleanupBegin
    <3>3. CASE boundary' = Held("run", g, "detach") /\ Goto(g, "cleaning")
      BY <1>a, <3>3, <1>5
         DEF RunCleanupBegin, LocksAgree, Goto, RunTyped, Held, Gen, None,
             NoGeneration
    <3> QED BY <1>a, <3>1, <3>2, <3>3
  <2>7. MachineTyped' /\ HostTyped' /\ OpTyped' /\ CallTyped'
    BY <1>a, <1>5
       DEF RunCleanupBegin, MachineTyped, HostTyped, OpTyped, CallTyped
  <2> QED BY <2>1, <2>2, <2>3, <2>4, <2>5, <2>6, <2>7 DEF TypeOK
<1>6. ASSUME NEW g \in Gen, RunFinish(g)
      PROVE TypeOK'
  <2>1. RunTyped'
    BY <1>a, <1>6, <1>d, MaxGenAssumption DEF RunFinish, RunTyped, RunPc, Goto
  <2>2. BornInOrder'
    BY <1>a, <1>6, <1>d, MaxGenAssumption
       DEF RunFinish, BornInOrder, RunTyped, MachineTyped, Gen, Goto
  <2>3. \A h \in Gen : pc'[h] = "cleaning" <=> pc[h] = "cleaning"
    BY <1>a, <1>6 DEF RunFinish, RunTyped, Goto
  <2>4. LocksAgree'
    BY <1>a, <1>6, <2>3, LocksKept DEF RunFinish
  <2>5. MachineTyped' /\ HostTyped' /\ OpTyped' /\ CallTyped'
          /\ BoundaryTyped' /\ WorkerTyped' /\ GuardTyped'
    BY <1>a, <1>6
       DEF RunFinish, MachineTyped, HostTyped, OpTyped, CallTyped,
           BoundaryTyped, WorkerTyped, GuardTyped
  <2> QED BY <2>1, <2>2, <2>4, <2>5 DEF TypeOK
<1>7. ASSUME NEW g \in Gen, RunFinishStatus(g)
      PROVE TypeOK'
  <2>1. MachineTyped'
    BY <1>a, <1>7, <1>d, MaxGenAssumption
       DEF RunFinishStatus, MachineTyped, State, FinishedStatus, CompleteStop,
           BeginStop, Fail
  <2>2. RunTyped'
    BY <1>a, <1>7, <1>d, MaxGenAssumption
       DEF RunFinishStatus, RunTyped, RunPc, Goto
  <2>3. BornInOrder'
    BY <1>a, <1>7, <1>d, MaxGenAssumption
       DEF RunFinishStatus, BornInOrder, RunTyped, MachineTyped, Gen, Goto,
           FinishedStatus, CompleteStop, BeginStop, Fail
  <2>4. \A h \in Gen : pc'[h] = "cleaning" <=> pc[h] = "cleaning"
    BY <1>a, <1>7 DEF RunFinishStatus, RunTyped, Goto
  <2>5. LocksAgree'
    BY <1>a, <1>7, <2>4, LocksKept DEF RunFinishStatus
  <2>6. HostTyped' /\ OpTyped' /\ CallTyped' /\ BoundaryTyped'
          /\ WorkerTyped' /\ GuardTyped'
    BY <1>a, <1>7
       DEF RunFinishStatus, HostTyped, OpTyped, CallTyped, BoundaryTyped,
           WorkerTyped, GuardTyped
  <2> QED BY <2>1, <2>2, <2>3, <2>5, <2>6 DEF TypeOK
<1>8. ASSUME NEW g \in Gen, RunFinishRelease(g)
      PROVE TypeOK'
  <2>1. HostTyped'
    BY <1>a, <1>8, <1>d, MaxGenAssumption
       DEF RunFinishRelease, HostTyped, None, NoGeneration
  <2>2. RunTyped'
    BY <1>a, <1>8, <1>d, MaxGenAssumption
       DEF RunFinishRelease, RunTyped, RunPc, Goto
  <2>3. WorkerTyped'
    BY <1>a, <1>8, <1>d, MaxGenAssumption
       DEF RunFinishRelease, WorkerTyped, None, NoGeneration, CloseResult
  <2>4. GuardTyped'
    BY <1>a, <1>8, <1>d, MaxGenAssumption
       DEF RunFinishRelease, GuardTyped, ReleaseManagerStopGuard
  <2>5. BornInOrder'
    BY <1>a, <1>8, <1>d, MaxGenAssumption
       DEF RunFinishRelease, BornInOrder, RunTyped, MachineTyped, Gen, Goto
  <2>6. \A h \in Gen : pc'[h] = "cleaning" <=> pc[h] = "cleaning"
    BY <1>a, <1>8 DEF RunFinishRelease, RunTyped, Goto
  <2>7. LocksAgree'
    BY <1>a, <1>8, <2>6, LocksKept DEF RunFinishRelease
  <2>8. MachineTyped' /\ OpTyped' /\ CallTyped' /\ BoundaryTyped'
    BY <1>a, <1>8
       DEF RunFinishRelease, MachineTyped, OpTyped, CallTyped, BoundaryTyped
  <2> QED BY <2>1, <2>2, <2>3, <2>4, <2>5, <2>7, <2>8 DEF TypeOK

\* runStartup, and the process's own exit.
<1>9. ASSUME NEW g \in Gen, WatchReady(g)
      PROVE TypeOK'
  <2>1. RunTyped'
    BY <1>a, <1>9, <1>d, MaxGenAssumption DEF WatchReady, RunTyped, RunPc
  <2>2. MachineTyped' /\ HostTyped' /\ OpTyped' /\ CallTyped'
          /\ BoundaryTyped' /\ WorkerTyped' /\ GuardTyped' /\ BornInOrder'
               /\ LocksAgree'
    BY <1>a, <1>9
       DEF WatchReady, MachineTyped, HostTyped, OpTyped, CallTyped,
           BoundaryTyped, WorkerTyped, GuardTyped, BornInOrder, LocksAgree
  <2> QED BY <2>1, <2>2 DEF TypeOK
<1>10. ASSUME NEW g \in Gen, WatchDone(g)
      PROVE TypeOK'
  <2>1. RunTyped'
    BY <1>a, <1>10, <1>d, MaxGenAssumption DEF WatchDone, RunTyped, RunPc
  <2>2. MachineTyped' /\ HostTyped' /\ OpTyped' /\ CallTyped'
          /\ BoundaryTyped' /\ WorkerTyped' /\ GuardTyped' /\ BornInOrder'
               /\ LocksAgree'
    BY <1>a, <1>10
       DEF WatchDone, MachineTyped, HostTyped, OpTyped, CallTyped,
           BoundaryTyped, WorkerTyped, GuardTyped, BornInOrder, LocksAgree
  <2> QED BY <2>1, <2>2 DEF TypeOK
<1>11. ASSUME NEW g \in Gen, RecoverCall(g)
      PROVE TypeOK'
  <2>1. op' = NewOp("recover", "swBegin")
    BY <1>a, <1>11 DEF RecoverCall, OpTake
  <2>2. OpTyped'
    <3>1. CASE op' = NewOp("recover", "swBegin")
      <4>1. OpAt("recover", "swBegin", None) /\ "recover" \in OpKind
              /\ "swBegin" \in OpPc
        BY DEF OpAt, OpPc, OpKind, SwitchKind, StopPc, CleanPc, SwitchPc,
           WithRun
      <4> QED BY <1>a, <3>1, <4>1, TakenTyped
    <3> QED BY <2>1, <3>1
  <2>3. RunTyped'
    BY <1>a, <1>11, <1>d, MaxGenAssumption DEF RecoverCall, RunTyped, RunPc
  <2>4. op.pc \notin Holding /\ op'.pc \notin Holding
    BY <1>a, <1>11, <2>1
       DEF RecoverCall, OpTyped, Holding, IdleOp, NewOp, OpTake, OpAt, StopPc,
           CleanPc, SwitchKind
  <2>5. LocksAgree'
    BY <1>a, <1>11, <2>4, LocksKept DEF RecoverCall
  <2>6. MachineTyped' /\ HostTyped' /\ CallTyped' /\ BoundaryTyped'
          /\ WorkerTyped' /\ GuardTyped' /\ BornInOrder'
    BY <1>a, <1>11
       DEF RecoverCall, MachineTyped, HostTyped, CallTyped, BoundaryTyped,
           WorkerTyped, GuardTyped, BornInOrder
  <2> QED BY <2>2, <2>3, <2>5, <2>6 DEF TypeOK
<1>12. ASSUME NEW g \in Gen, WorkerExit(g)
      PROVE TypeOK'
  <2>1. WorkerTyped'
    BY <1>a, <1>12, <1>d, MaxGenAssumption
       DEF WorkerExit, WorkerTyped, None, NoGeneration
  <2>2. MachineTyped' /\ HostTyped' /\ OpTyped' /\ CallTyped'
          /\ BoundaryTyped' /\ RunTyped' /\ GuardTyped' /\ BornInOrder'
               /\ LocksAgree'
    BY <1>a, <1>12
       DEF WorkerExit, MachineTyped, HostTyped, OpTyped, CallTyped,
           BoundaryTyped, RunTyped, GuardTyped, BornInOrder, LocksAgree
  <2> QED BY <2>1, <2>2 DEF TypeOK

\* cleanupWorker under workerBoundaryMu.
<1>13. ASSUME CleanupDetach
      PROVE TypeOK'
  <2>1. boundary.run \in Gen
    BY <1>a, <1>13
       DEF CleanupDetach, BoundaryTyped, LocksAgree, Gen, None, NoGeneration
  <2>2. BoundaryTyped'
    BY <1>a, <1>13, <2>1, <1>d, MaxGenAssumption
       DEF CleanupDetach, BoundaryTyped, FreeBoundary
  <2>3. WorkerTyped'
    BY <1>a, <1>13, <2>1, <1>d, MaxGenAssumption
       DEF CleanupDetach, WorkerTyped, None, NoGeneration, CloseResult
  <2>4. LocksAgree'
    BY <1>a, <1>13, <2>1, <1>d, MaxGenAssumption
       DEF CleanupDetach, LocksAgree, OpTyped, BoundaryTyped, RunTyped
  <2>5. MachineTyped' /\ HostTyped' /\ OpTyped' /\ CallTyped' /\ RunTyped'
          /\ GuardTyped' /\ BornInOrder'
    BY <1>a, <1>13
       DEF CleanupDetach, MachineTyped, HostTyped, OpTyped, CallTyped, RunTyped,
           GuardTyped, BornInOrder
  <2> QED BY <2>2, <2>3, <2>4, <2>5 DEF TypeOK
<1>14. ASSUME CleanupDrain
      PROVE TypeOK'
  <2>1. boundary.run \in Gen
    BY <1>a, <1>14
       DEF CleanupDrain, BoundaryTyped, LocksAgree, Gen, None, NoGeneration
  <2>2. \/ UNCHANGED op
        \/ op.pc = "cleaning" /\ OpGoto("cleaned")
        \/ op.pc = "cleaning" /\ OpGoto("cleanFailed")
    BY <1>a, <1>14, <2>1, <1>b, <1>c DEF CleanupDrain, LocksAgree
  <2>3. OpTyped'
    <3>1. CASE UNCHANGED op
      BY <1>a, <3>1 DEF OpTyped
    <3>2. CASE op.pc = "cleaning" /\ OpGoto("cleaned")
      BY <1>a, <3>2, <1>14, <2>1
         DEF CleanupDrain, OpTyped, OpAt, OpPc, OpKind, SwitchKind, StopPc,
             CleanPc, SwitchPc, WithRun, OpGoto
    <3>3. CASE op.pc = "cleaning" /\ OpGoto("cleanFailed")
      BY <1>a, <3>3, <1>14, <2>1
         DEF CleanupDrain, OpTyped, OpAt, OpPc, OpKind, SwitchKind, StopPc,
             CleanPc, SwitchPc, WithRun, OpGoto
    <3> QED BY <2>2, <3>1, <3>2, <3>3
  <2>4. BoundaryTyped'
    BY <1>a, <1>14, FreeTyped DEF CleanupDrain
  <2>5. RunTyped'
    BY <1>a, <1>14, <2>1, <1>d, MaxGenAssumption
       DEF CleanupDrain, RunTyped, RunPc, Result, Goto
  <2>6. WorkerTyped'
    BY <1>a, <1>14, <2>1, <1>d, MaxGenAssumption
       DEF CleanupDrain, WorkerTyped, None, NoGeneration, RecordPluginFault
  <2>7. BornInOrder'
    <3>1. \/ UNCHANGED pc
          \/ /\ pc[boundary.run] = "cleaning"
             /\ pc' = [pc EXCEPT ![boundary.run] = "finish"]
      BY <1>a, <1>14, <2>1 DEF CleanupDrain, Result, Goto, LocksAgree
    <3> QED BY <1>a, <3>1, <1>14, <2>1 DEF CleanupDrain, BornInOrder, RunTyped
  <2>8. LocksAgree'
    <3>1. boundary'.holder = "free" /\ boundary'.step = "none"
      BY <1>a, <1>14 DEF CleanupDrain, FreeBoundary, Held
    <3>2. cancelPc' # "guard"
      BY <1>a, <1>14 DEF CleanupDrain, LocksAgree
    <3>3. op'.pc \notin Holding /\ \A h \in Gen : pc'[h] # "cleaning"
      <4>1. CASE boundary.holder = "run"
        <5>1. op' = op /\ pc' = [pc EXCEPT ![boundary.run] = "finish"]
          BY <4>1, <1>14 DEF CleanupDrain, Result, Goto
        <5> QED BY <1>a, <4>1, <5>1, <2>1
                   DEF LocksAgree, RunTyped, Holding
      <4>2. CASE boundary.holder # "run"
        <5>1. pc' = pc /\ (OpGoto("cleaned") \/ OpGoto("cleanFailed"))
          BY <4>2, <1>14 DEF CleanupDrain
        <5> QED BY <1>a, <4>2, <5>1, OpMoves DEF LocksAgree, Holding
      <4> QED BY <4>1, <4>2
    <3> QED BY <1>a, <3>1, <3>2, <3>3 DEF LocksAgree, Holding
  <2>9. MachineTyped' /\ HostTyped' /\ CallTyped' /\ GuardTyped'
    BY <1>a, <1>14
       DEF CleanupDrain, MachineTyped, HostTyped, CallTyped, GuardTyped
  <2> QED BY <2>3, <2>4, <2>5, <2>6, <2>7, <2>8, <2>9 DEF TypeOK

\* Start and Restart.
<1>15. ASSUME Start
      PROVE TypeOK'
  <2>1. \/ OpReturn
        \/ current \in Gen /\ OpPick("clean", current)
        \/ current \in Gen /\ OpPick("startWait", current)
    BY <1>a, <1>15, <1>b, <1>c DEF Start, StartOver
  <2>2. \/ BeginRun(TRUE) /\ CanStartRun
        \/ UNCHANGED <<machine, current, pc, watch>>
    BY <1>a, <1>15 DEF Start
  <2>3. /\ MachineTyped' /\ current' \in 0..MaxGen /\ RunTyped' /\ BornInOrder'
        /\ \A g \in Gen : pc'[g] = "cleaning" <=> pc[g] = "cleaning"
    <3>1. CASE BeginRun(TRUE) /\ CanStartRun
      BY <1>a, <3>1, <1>15, BeginRunTyped DEF Start, TypeOK
    <3>2. CASE UNCHANGED <<machine, current, pc, watch>>
      BY <1>a, <3>2, <1>15
         DEF Start, MachineTyped, HostTyped, RunTyped, BornInOrder
    <3> QED BY <2>2, <3>1, <3>2
  <2>4. HostTyped'
    BY <1>a, <1>15, <2>3 DEF Start, HostTyped
  <2>5. OpTyped'
    <3>1. CASE OpReturn
      BY <1>a, <3>1, IdleTyped DEF OpReturn
    <3>2. CASE current \in Gen /\ OpPick("clean", current)
      BY <1>a, <3>2, <1>15, <1>d
         DEF Start, OpTyped, OpAt, OpPc, OpKind, SwitchKind, StopPc, CleanPc,
             SwitchPc, WithRun, OpPick
    <3>3. CASE current \in Gen /\ OpPick("startWait", current)
      BY <1>a, <3>3, <1>15, <1>d
         DEF Start, OpTyped, OpAt, OpPc, OpKind, SwitchKind, StopPc, CleanPc,
             SwitchPc, WithRun, OpPick
    <3> QED BY <2>1, <3>1, <3>2, <3>3
  <2>6. op.pc \notin Holding /\ op'.pc \notin Holding
    BY <1>a, <1>15, <2>1, OpMoves DEF Start, Holding
  <2>7. LocksAgree'
    BY <1>a, <1>15, <2>6, <2>3, LocksKept DEF Start
  <2>8. CallTyped' /\ BoundaryTyped' /\ WorkerTyped' /\ GuardTyped'
    BY <1>a, <1>15 DEF Start, CallTyped, BoundaryTyped, WorkerTyped, GuardTyped
  <2> QED BY <2>3, <2>4, <2>5, <2>7, <2>8 DEF TypeOK
<1>16. ASSUME StartWait
      PROVE TypeOK'
  <2>1. \/ OpGoto("start")
        \/ OpReturn
    BY <1>a, <1>16 DEF StartWait
  <2>2. OpTyped'
    <3>1. CASE OpGoto("start")
      BY <1>a, <3>1, <1>16
         DEF StartWait, OpTyped, OpAt, OpPc, OpKind, SwitchKind, StopPc,
             CleanPc, SwitchPc, WithRun, OpGoto
    <3>2. CASE OpReturn
      BY <1>a, <3>2, IdleTyped DEF OpReturn
    <3> QED BY <2>1, <3>1, <3>2
  <2>3. op.pc \notin Holding /\ op'.pc \notin Holding
    BY <1>a, <1>16, <2>1, OpMoves DEF StartWait, Holding
  <2>4. LocksAgree'
    BY <1>a, <1>16, <2>3, LocksKept DEF StartWait
  <2>5. MachineTyped' /\ HostTyped' /\ CallTyped' /\ BoundaryTyped'
          /\ RunTyped' /\ WorkerTyped' /\ GuardTyped' /\ BornInOrder'
    BY <1>a, <1>16
       DEF StartWait, MachineTyped, HostTyped, CallTyped, BoundaryTyped,
           RunTyped, WorkerTyped, GuardTyped, BornInOrder
  <2> QED BY <2>2, <2>4, <2>5 DEF TypeOK
<1>17. ASSUME StartCleaned
      PROVE TypeOK'
  <2>1. op.run \in Gen
    BY <1>a, <1>17 DEF StartCleaned, OpTyped, OpAt, WithRun, CleanPc
  <2>2. \/ OpGoto("start")
        \/ OpReturn
    BY <1>a, <1>17, <2>1 DEF StartCleaned
  <2>3. HostTyped'
    BY <1>a, <1>17, <2>1, <1>d, MaxGenAssumption
       DEF StartCleaned, HostTyped, None, NoGeneration
  <2>4. OpTyped'
    <3>1. CASE OpGoto("start")
      BY <1>a, <3>1, <1>17, <2>1
         DEF StartCleaned, OpTyped, OpAt, OpPc, OpKind, SwitchKind, StopPc,
             CleanPc, SwitchPc, WithRun, OpGoto
    <3>2. CASE OpReturn
      BY <1>a, <3>2, IdleTyped DEF OpReturn
    <3> QED BY <2>2, <3>1, <3>2
  <2>5. GuardTyped'
    BY <1>a, <1>17, <2>1, <1>d, MaxGenAssumption
       DEF StartCleaned, GuardTyped, ReleaseManagerStopGuard
  <2>6. op.pc \notin Holding /\ op'.pc \notin Holding
    BY <1>a, <1>17, <2>2, OpMoves DEF StartCleaned, Holding
  <2>7. LocksAgree'
    BY <1>a, <1>17, <2>6, LocksKept DEF StartCleaned
  <2>8. MachineTyped' /\ CallTyped' /\ BoundaryTyped' /\ RunTyped'
          /\ WorkerTyped' /\ BornInOrder'
    BY <1>a, <1>17
       DEF StartCleaned, MachineTyped, CallTyped, BoundaryTyped, RunTyped,
           WorkerTyped, BornInOrder
  <2> QED BY <2>3, <2>4, <2>5, <2>7, <2>8 DEF TypeOK
<1>18. ASSUME Restart
      PROVE TypeOK'
  <2>1. \/ OpReturn
        \/ OpGoto("start")
        \/ current \in Gen /\ OpPick("stopPick", current)
    BY <1>a, <1>18, <1>b, <1>c DEF Restart
  <2>2. OpTyped'
    <3>1. CASE OpReturn
      BY <1>a, <3>1, IdleTyped DEF OpReturn
    <3>2. CASE OpGoto("start")
      BY <1>a, <3>2, <1>18
         DEF Restart, OpTyped, OpAt, OpPc, OpKind, SwitchKind, StopPc, CleanPc,
             SwitchPc, WithRun, OpGoto
    <3>3. CASE current \in Gen /\ OpPick("stopPick", current)
      BY <1>a, <3>3, <1>18, <1>d
         DEF Restart, OpTyped, OpAt, OpPc, OpKind, SwitchKind, StopPc, CleanPc,
             SwitchPc, WithRun, OpPick
    <3> QED BY <2>1, <3>1, <3>2, <3>3
  <2>3. op.pc \notin Holding /\ op'.pc \notin Holding
    BY <1>a, <1>18, <2>1, OpMoves DEF Restart, Holding
  <2>4. LocksAgree'
    BY <1>a, <1>18, <2>3, LocksKept DEF Restart
  <2>5. MachineTyped' /\ HostTyped' /\ CallTyped' /\ BoundaryTyped'
          /\ RunTyped' /\ WorkerTyped' /\ GuardTyped' /\ BornInOrder'
    BY <1>a, <1>18
       DEF Restart, MachineTyped, HostTyped, CallTyped, BoundaryTyped, RunTyped,
           WorkerTyped, GuardTyped, BornInOrder
  <2> QED BY <2>2, <2>4, <2>5 DEF TypeOK
<1>19. ASSUME OpStopPick
      PROVE TypeOK'
  <2>1. \/ OpReturn
        \/ op.kind = "restart" /\ op.run \in Gen /\ OpGoto("restartWait")
        \/ op.kind = "shutdown" /\ op.run \in Gen /\ OpGoto("shutdownWait")
        \/ current \in Gen /\ OpPick("stopLock", current)
    BY <1>a, <1>19, <1>b, <1>c DEF OpStopPick, AfterStop, OpTyped, OpAt, StopPc
  <2>2. OpTyped'
    <3>1. CASE OpReturn
      BY <1>a, <3>1, IdleTyped DEF OpReturn
    <3>2. CASE op.kind = "restart" /\ op.run \in Gen /\ OpGoto("restartWait")
      BY <1>a, <3>2, <1>19
         DEF OpStopPick, OpTyped, OpAt, OpPc, OpKind, SwitchKind, StopPc,
             CleanPc, SwitchPc, WithRun, OpGoto
    <3>3. CASE op.kind = "shutdown" /\ op.run \in Gen /\ OpGoto("shutdownWait")
      BY <1>a, <3>3, <1>19
         DEF OpStopPick, OpTyped, OpAt, OpPc, OpKind, SwitchKind, StopPc,
             CleanPc, SwitchPc, WithRun, OpGoto
    <3>4. CASE current \in Gen /\ OpPick("stopLock", current)
      BY <1>a, <3>4, <1>19, <1>d
         DEF OpStopPick, OpTyped, OpAt, OpPc, OpKind, SwitchKind, StopPc,
             CleanPc, SwitchPc, WithRun, OpPick
    <3> QED BY <2>1, <3>1, <3>2, <3>3, <3>4
  <2>3. op.pc \notin Holding /\ op'.pc \notin Holding
    BY <1>a, <1>19, <2>1, OpMoves DEF OpStopPick, Holding
  <2>4. LocksAgree'
    BY <1>a, <1>19, <2>3, LocksKept DEF OpStopPick
  <2>5. MachineTyped' /\ HostTyped' /\ CallTyped' /\ BoundaryTyped'
          /\ RunTyped' /\ WorkerTyped' /\ GuardTyped' /\ BornInOrder'
    BY <1>a, <1>19
       DEF OpStopPick, MachineTyped, HostTyped, CallTyped, BoundaryTyped,
           RunTyped, WorkerTyped, GuardTyped, BornInOrder
  <2> QED BY <2>2, <2>4, <2>5 DEF TypeOK
<1>20. ASSUME OpStopLock
      PROVE TypeOK'
  <2>1. op.run \in Gen
    BY <1>a, <1>20 DEF OpStopLock, OpTyped, OpAt, WithRun, CleanPc
  <2>2. \/ OpGoto("stopGuard")
        \/ OpReturn
        \/ op.kind = "restart" /\ op.run \in Gen /\ OpGoto("restartWait")
        \/ op.kind = "shutdown" /\ op.run \in Gen /\ OpGoto("shutdownWait")
    BY <1>a, <1>20, <2>1, <1>b, <1>c
       DEF OpStopLock, AfterStop, OpTyped, OpAt, StopPc
  <2>3. MachineTyped'
    BY <1>a, <1>20, <2>1, <1>d, MaxGenAssumption
       DEF OpStopLock, MachineTyped, State, BeginStop
  <2>4. OpTyped'
    <3>1. CASE OpGoto("stopGuard")
      BY <1>a, <3>1, <1>20, <2>1
         DEF OpStopLock, OpTyped, OpAt, OpPc, OpKind, SwitchKind, StopPc,
             CleanPc, SwitchPc, WithRun, OpGoto
    <3>2. CASE OpReturn
      BY <1>a, <3>2, IdleTyped DEF OpReturn
    <3>3. CASE op.kind = "restart" /\ op.run \in Gen /\ OpGoto("restartWait")
      BY <1>a, <3>3, <1>20, <2>1
         DEF OpStopLock, OpTyped, OpAt, OpPc, OpKind, SwitchKind, StopPc,
             CleanPc, SwitchPc, WithRun, OpGoto
    <3>4. CASE op.kind = "shutdown" /\ op.run \in Gen /\ OpGoto("shutdownWait")
      BY <1>a, <3>4, <1>20, <2>1
         DEF OpStopLock, OpTyped, OpAt, OpPc, OpKind, SwitchKind, StopPc,
             CleanPc, SwitchPc, WithRun, OpGoto
    <3> QED BY <2>2, <3>1, <3>2, <3>3, <3>4
  <2>5. BoundaryTyped'
    <3>1. UNCHANGED boundary \/ boundary' = Held("op", op.run, "none")
      BY <1>a, <1>20 DEF OpStopLock
    <3>2. CASE UNCHANGED boundary
      BY <1>a, <3>2 DEF BoundaryTyped
    <3>3. CASE boundary' = Held("op", op.run, "none")
      BY <1>a, <3>3, <1>d, <2>1, HeldTyped
    <3> QED BY <1>a, <3>1, <3>2, <3>3
  <2>6. RunTyped'
    BY <1>a, <1>20, <2>1, <1>d, MaxGenAssumption DEF OpStopLock, RunTyped, RunPc
  <2>7. BornInOrder'
    BY <1>a, <1>20, <2>1, <1>d, MaxGenAssumption
       DEF OpStopLock, BornInOrder, RunTyped, MachineTyped, Gen, BeginStop
  <2>8. LocksAgree'
    <3>1. \/ UNCHANGED boundary /\ AfterStop
          \/ boundary' = Held("op", op.run, "none") /\ OpGoto("stopGuard")
      BY <1>a, <1>20 DEF OpStopLock
    <3>2. CASE UNCHANGED boundary /\ AfterStop
      BY <1>a, <3>2, <1>20, OpMoves, LocksKept
         DEF OpStopLock, AfterStop, Holding
    <3>3. CASE boundary' = Held("op", op.run, "none") /\ OpGoto("stopGuard")
      <4>1. op'.pc = "stopGuard" /\ op'.run = op.run
        BY <1>a, <3>3, OpMoves
      <4> QED BY <1>a, <3>3, <4>1, <1>20 DEF OpStopLock, LocksAgree, Held
    <3> QED BY <1>a, <3>1, <3>2, <3>3
  <2>9. HostTyped' /\ CallTyped' /\ WorkerTyped' /\ GuardTyped'
    BY <1>a, <1>20 DEF OpStopLock, HostTyped, CallTyped, WorkerTyped, GuardTyped
  <2> QED BY <2>3, <2>4, <2>5, <2>6, <2>7, <2>8, <2>9 DEF TypeOK
<1>21. ASSUME OpStopGuard
      PROVE TypeOK'
  <2>1. op.run \in Gen
    BY <1>a, <1>21 DEF OpStopGuard, OpTyped, OpAt, WithRun, CleanPc
  <2>2. \/ OpReturn
        \/ op.kind = "restart" /\ op.run \in Gen /\ OpGoto("restartWait")
        \/ op.kind = "shutdown" /\ op.run \in Gen /\ OpGoto("shutdownWait")
    BY <1>a, <1>21, <2>1, <1>b, <1>c
       DEF OpStopGuard, AfterStop, OpTyped, OpAt, StopPc
  <2>3. OpTyped'
    <3>1. CASE OpReturn
      BY <1>a, <3>1, IdleTyped DEF OpReturn
    <3>2. CASE op.kind = "restart" /\ op.run \in Gen /\ OpGoto("restartWait")
      BY <1>a, <3>2, <1>21, <2>1
         DEF OpStopGuard, OpTyped, OpAt, OpPc, OpKind, SwitchKind, StopPc,
             CleanPc, SwitchPc, WithRun, OpGoto
    <3>3. CASE op.kind = "shutdown" /\ op.run \in Gen /\ OpGoto("shutdownWait")
      BY <1>a, <3>3, <1>21, <2>1
         DEF OpStopGuard, OpTyped, OpAt, OpPc, OpKind, SwitchKind, StopPc,
             CleanPc, SwitchPc, WithRun, OpGoto
    <3> QED BY <2>2, <3>1, <3>2, <3>3
  <2>4. BoundaryTyped'
    BY <1>a, <1>21, FreeTyped DEF OpStopGuard
  <2>5. GuardTyped'
    BY <1>a, <1>21, <2>1, <1>d, MaxGenAssumption
       DEF OpStopGuard, GuardTyped, BeginManagerStopGuard
  <2>6. LocksAgree'
    <3>1. op'.pc \notin Holding
      BY <1>a, <1>21, OpMoves DEF OpStopGuard, AfterStop, Holding
    <3> QED BY <1>a, <3>1, <1>21
               DEF OpStopGuard, LocksAgree, Holding, FreeBoundary, Held
  <2>7. MachineTyped' /\ HostTyped' /\ CallTyped' /\ RunTyped'
          /\ WorkerTyped' /\ BornInOrder'
    BY <1>a, <1>21
       DEF OpStopGuard, MachineTyped, HostTyped, CallTyped, RunTyped,
           WorkerTyped, BornInOrder
  <2> QED BY <2>3, <2>4, <2>5, <2>6, <2>7 DEF TypeOK
<1>22. ASSUME RestartWait
      PROVE TypeOK'
  <2>1. op.run \in Gen
    BY <1>a, <1>22 DEF RestartWait, OpTyped, OpAt, WithRun, CleanPc
  <2>2. \/ OpReturn
        \/ OpGoto("start")
    BY <1>a, <1>22, <2>1 DEF RestartWait
  <2>3. OpTyped'
    <3>1. CASE OpReturn
      BY <1>a, <3>1, IdleTyped DEF OpReturn
    <3>2. CASE OpGoto("start")
      BY <1>a, <3>2, <1>22, <2>1
         DEF RestartWait, OpTyped, OpAt, OpPc, OpKind, SwitchKind, StopPc,
             CleanPc, SwitchPc, WithRun, OpGoto
    <3> QED BY <2>2, <3>1, <3>2
  <2>4. op.pc \notin Holding /\ op'.pc \notin Holding
    BY <1>a, <1>22, <2>2, OpMoves DEF RestartWait, Holding
  <2>5. LocksAgree'
    BY <1>a, <1>22, <2>4, LocksKept DEF RestartWait
  <2>6. MachineTyped' /\ HostTyped' /\ CallTyped' /\ BoundaryTyped'
          /\ RunTyped' /\ WorkerTyped' /\ GuardTyped' /\ BornInOrder'
    BY <1>a, <1>22
       DEF RestartWait, MachineTyped, HostTyped, CallTyped, BoundaryTyped,
           RunTyped, WorkerTyped, GuardTyped, BornInOrder
  <2> QED BY <2>3, <2>5, <2>6 DEF TypeOK

\* A plugin-fault change.
<1>23. ASSUME FaultBegin
      PROVE TypeOK'
  <2>1. \/ OpGoto("faultWrite")
        \/ OpReturn
    BY <1>a, <1>23 DEF FaultBegin
  <2>2. OpTyped'
    <3>1. CASE OpGoto("faultWrite")
      BY <1>a, <3>1, <1>23
         DEF FaultBegin, OpTyped, OpAt, OpPc, OpKind, SwitchKind, StopPc,
             CleanPc, SwitchPc, WithRun, OpGoto
    <3>2. CASE OpReturn
      BY <1>a, <3>2, IdleTyped DEF OpReturn
    <3> QED BY <2>1, <3>1, <3>2
  <2>3. op.pc \notin Holding /\ op'.pc \notin Holding
    BY <1>a, <1>23, <2>1, OpMoves DEF FaultBegin, Holding
  <2>4. LocksAgree'
    BY <1>a, <1>23, <2>3, LocksKept DEF FaultBegin
  <2>5. MachineTyped' /\ HostTyped' /\ CallTyped' /\ BoundaryTyped'
          /\ RunTyped' /\ WorkerTyped' /\ GuardTyped' /\ BornInOrder'
    BY <1>a, <1>23
       DEF FaultBegin, MachineTyped, HostTyped, CallTyped, BoundaryTyped,
           RunTyped, WorkerTyped, GuardTyped, BornInOrder
  <2> QED BY <2>2, <2>4, <2>5 DEF TypeOK
<1>24. ASSUME FaultEnd
      PROVE TypeOK'
  <2>1. OpReturn
    BY <1>a, <1>24 DEF FaultEnd
  <2>2. OpTyped'
    <3>1. CASE OpReturn
      BY <1>a, <3>1, IdleTyped DEF OpReturn
    <3> QED BY <2>1, <3>1
  <2>3. op.pc \notin Holding /\ op'.pc \notin Holding
    BY <1>a, <1>24, <2>1, OpMoves DEF FaultEnd, Holding
  <2>4. LocksAgree'
    BY <1>a, <1>24, <2>3, LocksKept DEF FaultEnd
  <2>5. MachineTyped' /\ HostTyped' /\ CallTyped' /\ BoundaryTyped'
          /\ RunTyped' /\ WorkerTyped' /\ GuardTyped' /\ BornInOrder'
    BY <1>a, <1>24
       DEF FaultEnd, MachineTyped, HostTyped, CallTyped, BoundaryTyped,
           RunTyped, WorkerTyped, GuardTyped, BornInOrder
  <2> QED BY <2>2, <2>4, <2>5 DEF TypeOK

\* ShutdownForApp under switchMu.
<1>25. ASSUME ShutdownRun
      PROVE TypeOK'
  <2>1. \/ OpReturn
        \/ current \in Gen /\ OpPick("clean", current)
        \/ current \in Gen /\ OpPick("stopPick", current)
    BY <1>a, <1>25, <1>b, <1>c DEF ShutdownRun, ShutdownComplete, ShutdownDone
  <2>2. MachineTyped'
    BY <1>a, <1>25, <1>d, MaxGenAssumption
       DEF ShutdownRun, MachineTyped, State, ShutdownComplete, ShutdownDone,
           BeginStop
  <2>3. HostTyped'
    BY <1>a, <1>25, <1>d, MaxGenAssumption
       DEF ShutdownRun, HostTyped, None, NoGeneration, ShutdownComplete,
           ShutdownDone
  <2>4. OpTyped'
    <3>1. CASE OpReturn
      BY <1>a, <3>1, IdleTyped DEF OpReturn
    <3>2. CASE current \in Gen /\ OpPick("clean", current)
      BY <1>a, <3>2, <1>25, <1>d
         DEF ShutdownRun, OpTyped, OpAt, OpPc, OpKind, SwitchKind, StopPc,
             CleanPc, SwitchPc, WithRun, OpPick
    <3>3. CASE current \in Gen /\ OpPick("stopPick", current)
      BY <1>a, <3>3, <1>25, <1>d
         DEF ShutdownRun, OpTyped, OpAt, OpPc, OpKind, SwitchKind, StopPc,
             CleanPc, SwitchPc, WithRun, OpPick
    <3> QED BY <2>1, <3>1, <3>2, <3>3
  <2>5. BornInOrder'
    BY <1>a, <1>25, <1>d, MaxGenAssumption
       DEF ShutdownRun, BornInOrder, RunTyped, MachineTyped, Gen,
           ShutdownComplete, ShutdownDone, BeginStop
  <2>6. op.pc \notin Holding /\ op'.pc \notin Holding
    BY <1>a, <1>25, <2>1, OpMoves DEF ShutdownRun, Holding
  <2>7. LocksAgree'
    BY <1>a, <1>25, <2>6, LocksKept DEF ShutdownRun
  <2>8. CallTyped' /\ BoundaryTyped' /\ RunTyped' /\ WorkerTyped' /\ GuardTyped'
    BY <1>a, <1>25
       DEF ShutdownRun, CallTyped, BoundaryTyped, RunTyped, WorkerTyped,
           GuardTyped
  <2> QED BY <2>2, <2>3, <2>4, <2>5, <2>7, <2>8 DEF TypeOK
<1>26. ASSUME ShutdownWait
      PROVE TypeOK'
  <2>1. op.run \in Gen
    BY <1>a, <1>26 DEF ShutdownWait, OpTyped, OpAt, WithRun, CleanPc
  <2>2. \/ OpReturn
        \/ OpPick("clean", op.run)
    BY <1>a, <1>26, <2>1 DEF ShutdownWait, ShutdownComplete, ShutdownDone
  <2>3. MachineTyped'
    BY <1>a, <1>26, <2>1, <1>d, MaxGenAssumption
       DEF ShutdownWait, MachineTyped, State, ShutdownComplete, ShutdownDone,
           BeginStop
  <2>4. HostTyped'
    BY <1>a, <1>26, <2>1, <1>d, MaxGenAssumption
       DEF ShutdownWait, HostTyped, None, NoGeneration, ShutdownComplete,
           ShutdownDone
  <2>5. OpTyped'
    <3>1. CASE OpReturn
      BY <1>a, <3>1, IdleTyped DEF OpReturn
    <3>2. CASE OpPick("clean", op.run)
      BY <1>a, <3>2, <1>26, <2>1
         DEF ShutdownWait, OpTyped, OpAt, OpPc, OpKind, SwitchKind, StopPc,
             CleanPc, SwitchPc, WithRun, OpPick
    <3> QED BY <2>2, <3>1, <3>2
  <2>6. BornInOrder'
    BY <1>a, <1>26, <2>1, <1>d, MaxGenAssumption
       DEF ShutdownWait, BornInOrder, RunTyped, MachineTyped, Gen,
           ShutdownComplete, ShutdownDone, BeginStop
  <2>7. op.pc \notin Holding /\ op'.pc \notin Holding
    BY <1>a, <1>26, <2>2, OpMoves DEF ShutdownWait, Holding
  <2>8. LocksAgree'
    BY <1>a, <1>26, <2>7, LocksKept DEF ShutdownWait
  <2>9. CallTyped' /\ BoundaryTyped' /\ RunTyped' /\ WorkerTyped' /\ GuardTyped'
    BY <1>a, <1>26
       DEF ShutdownWait, CallTyped, BoundaryTyped, RunTyped, WorkerTyped,
           GuardTyped
  <2> QED BY <2>3, <2>4, <2>5, <2>6, <2>8, <2>9 DEF TypeOK
<1>27. ASSUME ShutdownCleaned
      PROVE TypeOK'
  <2>1. op.run \in Gen
    BY <1>a, <1>27 DEF ShutdownCleaned, OpTyped, OpAt, WithRun, CleanPc
  <2>2. OpReturn
    BY <1>a, <1>27, <2>1 DEF ShutdownCleaned
  <2>3. MachineTyped'
    BY <1>a, <1>27, <2>1, <1>d, MaxGenAssumption
       DEF ShutdownCleaned, MachineTyped, State, CompleteStop, Fail
  <2>4. HostTyped'
    <3>1. current' = current \/ current' = None
      BY <1>a, <1>27 DEF ShutdownCleaned
    <3>2. current' \in 0..MaxGen
      BY <1>a, <3>1, MaxGenAssumption DEF HostTyped, None, NoGeneration
    <3> QED BY <1>a, <1>27, <3>2 DEF ShutdownCleaned, HostTyped
  <2>5. OpTyped'
    <3>1. CASE OpReturn
      BY <1>a, <3>1, IdleTyped DEF OpReturn
    <3> QED BY <2>2, <3>1
  <2>6. GuardTyped'
    BY <1>a, <1>27, <2>1, <1>d, MaxGenAssumption
       DEF ShutdownCleaned, GuardTyped, ReleaseManagerStopGuard
  <2>7. BornInOrder'
    BY <1>a, <1>27, <2>1, <1>d, MaxGenAssumption
       DEF ShutdownCleaned, BornInOrder, RunTyped, MachineTyped, Gen,
           CompleteStop, Fail
  <2>8. op.pc \notin Holding /\ op'.pc \notin Holding
    BY <1>a, <1>27, <2>2, OpMoves DEF ShutdownCleaned, Holding
  <2>9. LocksAgree'
    BY <1>a, <1>27, <2>8, LocksKept DEF ShutdownCleaned
  <2>10. CallTyped' /\ BoundaryTyped' /\ RunTyped' /\ WorkerTyped'
    BY <1>a, <1>27
       DEF ShutdownCleaned, CallTyped, BoundaryTyped, RunTyped, WorkerTyped
  <2> QED BY <2>3, <2>4, <2>5, <2>6, <2>7, <2>9, <2>10 DEF TypeOK

\* applyRunContextLocked.
<1>28. ASSUME SwitchBegin
      PROVE TypeOK'
  <2>1. \/ OpReturn
        \/ OpGoto("swGuard")
    BY <1>a, <1>28 DEF SwitchBegin
  <2>2. HostTyped'
    BY <1>a, <1>28, <1>d, MaxGenAssumption
       DEF SwitchBegin, HostTyped, None, NoGeneration
  <2>3. OpTyped'
    <3>1. CASE OpReturn
      BY <1>a, <3>1, IdleTyped DEF OpReturn
    <3>2. CASE OpGoto("swGuard")
      BY <1>a, <3>2, <1>28
         DEF SwitchBegin, OpTyped, OpAt, OpPc, OpKind, SwitchKind, StopPc,
             CleanPc, SwitchPc, WithRun, OpGoto
    <3> QED BY <2>1, <3>1, <3>2
  <2>4. op.pc \notin Holding /\ op'.pc \notin Holding
    BY <1>a, <1>28, <2>1, OpMoves DEF SwitchBegin, Holding
  <2>5. LocksAgree'
    BY <1>a, <1>28, <2>4, LocksKept DEF SwitchBegin
  <2>6. MachineTyped' /\ CallTyped' /\ BoundaryTyped' /\ RunTyped'
          /\ WorkerTyped' /\ GuardTyped' /\ BornInOrder'
    BY <1>a, <1>28
       DEF SwitchBegin, MachineTyped, CallTyped, BoundaryTyped, RunTyped,
           WorkerTyped, GuardTyped, BornInOrder
  <2> QED BY <2>2, <2>3, <2>5, <2>6 DEF TypeOK
<1>29. ASSUME SwitchGuard
      PROVE TypeOK'
  <2>1. \/ OpReturn
        \/ OpGoto("swResolve")
    BY <1>a, <1>29 DEF SwitchGuard
  <2>2. HostTyped'
    BY <1>a, <1>29, <1>d, MaxGenAssumption
       DEF SwitchGuard, HostTyped, None, NoGeneration
  <2>3. OpTyped'
    <3>1. CASE OpReturn
      BY <1>a, <3>1, IdleTyped DEF OpReturn
    <3>2. CASE OpGoto("swResolve")
      BY <1>a, <3>2, <1>29
         DEF SwitchGuard, OpTyped, OpAt, OpPc, OpKind, SwitchKind, StopPc,
             CleanPc, SwitchPc, WithRun, OpGoto
    <3> QED BY <2>1, <3>1, <3>2
  <2>4. GuardTyped'
    BY <1>a, <1>29, <1>d, MaxGenAssumption DEF SwitchGuard, GuardTyped
  <2>5. op.pc \notin Holding /\ op'.pc \notin Holding
    BY <1>a, <1>29, <2>1, OpMoves DEF SwitchGuard, Holding
  <2>6. LocksAgree'
    BY <1>a, <1>29, <2>5, LocksKept DEF SwitchGuard
  <2>7. MachineTyped' /\ CallTyped' /\ BoundaryTyped' /\ RunTyped'
          /\ WorkerTyped' /\ BornInOrder'
    BY <1>a, <1>29
       DEF SwitchGuard, MachineTyped, CallTyped, BoundaryTyped, RunTyped,
           WorkerTyped, BornInOrder
  <2> QED BY <2>2, <2>3, <2>4, <2>6, <2>7 DEF TypeOK
<1>30. ASSUME SwitchResolve
      PROVE TypeOK'
  <2>1. \/ OpGoto("swEnd")
        \/ OpGoto("swDecide")
        \/ OpGoto("swPrepare")
        \/ current \in Gen /\ OpPick("swStop", current)
    BY <1>a, <1>30, <1>b, <1>c DEF SwitchResolve, ToCandidate
  <2>2. OpTyped'
    <3>1. CASE OpGoto("swEnd")
      BY <1>a, <3>1, <1>30
         DEF SwitchResolve, OpTyped, OpAt, OpPc, OpKind, SwitchKind, StopPc,
             CleanPc, SwitchPc, WithRun, OpGoto
    <3>2. CASE OpGoto("swDecide")
      BY <1>a, <3>2, <1>30
         DEF SwitchResolve, OpTyped, OpAt, OpPc, OpKind, SwitchKind, StopPc,
             CleanPc, SwitchPc, WithRun, OpGoto
    <3>3. CASE OpGoto("swPrepare")
      BY <1>a, <3>3, <1>30
         DEF SwitchResolve, OpTyped, OpAt, OpPc, OpKind, SwitchKind, StopPc,
             CleanPc, SwitchPc, WithRun, OpGoto
    <3>4. CASE current \in Gen /\ OpPick("swStop", current)
      BY <1>a, <3>4, <1>30, <1>d
         DEF SwitchResolve, OpTyped, OpAt, OpPc, OpKind, SwitchKind, StopPc,
             CleanPc, SwitchPc, WithRun, OpPick
    <3> QED BY <2>1, <3>1, <3>2, <3>3, <3>4
  <2>3. op.pc \notin Holding /\ op'.pc \notin Holding
    BY <1>a, <1>30, <2>1, OpMoves DEF SwitchResolve, Holding
  <2>4. LocksAgree'
    BY <1>a, <1>30, <2>3, LocksKept DEF SwitchResolve
  <2>5. MachineTyped' /\ HostTyped' /\ CallTyped' /\ BoundaryTyped'
          /\ RunTyped' /\ WorkerTyped' /\ GuardTyped' /\ BornInOrder'
    BY <1>a, <1>30
       DEF SwitchResolve, MachineTyped, HostTyped, CallTyped, BoundaryTyped,
           RunTyped, WorkerTyped, GuardTyped, BornInOrder
  <2> QED BY <2>2, <2>4, <2>5 DEF TypeOK
<1>31. ASSUME SwitchStop
      PROVE TypeOK'
  <2>1. op.run \in Gen
    BY <1>a, <1>31 DEF SwitchStop, OpTyped, OpAt, WithRun, CleanPc
  <2>2. \/ OpGoto("swStopWait")
        \/ OpGoto("swEnd")
    BY <1>a, <1>31, <2>1 DEF SwitchStop
  <2>3. MachineTyped'
    BY <1>a, <1>31, <2>1, <1>d, MaxGenAssumption
       DEF SwitchStop, MachineTyped, State, BeginStop
  <2>4. OpTyped'
    <3>1. CASE OpGoto("swStopWait")
      BY <1>a, <3>1, <1>31, <2>1
         DEF SwitchStop, OpTyped, OpAt, OpPc, OpKind, SwitchKind, StopPc,
             CleanPc, SwitchPc, WithRun, OpGoto
    <3>2. CASE OpGoto("swEnd")
      BY <1>a, <3>2, <1>31, <2>1
         DEF SwitchStop, OpTyped, OpAt, OpPc, OpKind, SwitchKind, StopPc,
             CleanPc, SwitchPc, WithRun, OpGoto
    <3> QED BY <2>2, <3>1, <3>2
  <2>5. RunTyped'
    BY <1>a, <1>31, <2>1, <1>d, MaxGenAssumption DEF SwitchStop, RunTyped, RunPc
  <2>6. BornInOrder'
    BY <1>a, <1>31, <2>1, <1>d, MaxGenAssumption
       DEF SwitchStop, BornInOrder, RunTyped, MachineTyped, Gen, BeginStop
  <2>7. op.pc \notin Holding /\ op'.pc \notin Holding
    BY <1>a, <1>31, <2>2, OpMoves DEF SwitchStop, Holding
  <2>8. LocksAgree'
    BY <1>a, <1>31, <2>7, LocksKept DEF SwitchStop
  <2>9. HostTyped' /\ CallTyped' /\ BoundaryTyped' /\ WorkerTyped'
          /\ GuardTyped'
    BY <1>a, <1>31
       DEF SwitchStop, HostTyped, CallTyped, BoundaryTyped, WorkerTyped,
           GuardTyped
  <2> QED BY <2>3, <2>4, <2>5, <2>6, <2>8, <2>9 DEF TypeOK
<1>32. ASSUME SwitchStopWait
      PROVE TypeOK'
  <2>1. op.run \in Gen
    BY <1>a, <1>32 DEF SwitchStopWait, OpTyped, OpAt, WithRun, CleanPc
  <2>2. \/ OpGoto("clean")
        \/ OpGoto("swEnd")
        \/ OpGoto("swDecide")
        \/ OpGoto("swPrepare")
    BY <1>a, <1>32, <2>1 DEF SwitchStopWait, AfterOldRun, ToCandidate
  <2>3. OpTyped'
    <3>1. CASE OpGoto("clean")
      BY <1>a, <3>1, <1>32, <2>1
         DEF SwitchStopWait, OpTyped, OpAt, OpPc, OpKind, SwitchKind, StopPc,
             CleanPc, SwitchPc, WithRun, OpGoto
    <3>2. CASE OpGoto("swEnd")
      BY <1>a, <3>2, <1>32, <2>1
         DEF SwitchStopWait, OpTyped, OpAt, OpPc, OpKind, SwitchKind, StopPc,
             CleanPc, SwitchPc, WithRun, OpGoto
    <3>3. CASE OpGoto("swDecide")
      BY <1>a, <3>3, <1>32, <2>1
         DEF SwitchStopWait, OpTyped, OpAt, OpPc, OpKind, SwitchKind, StopPc,
             CleanPc, SwitchPc, WithRun, OpGoto
    <3>4. CASE OpGoto("swPrepare")
      BY <1>a, <3>4, <1>32, <2>1
         DEF SwitchStopWait, OpTyped, OpAt, OpPc, OpKind, SwitchKind, StopPc,
             CleanPc, SwitchPc, WithRun, OpGoto
    <3> QED BY <2>2, <3>1, <3>2, <3>3, <3>4
  <2>4. op.pc \notin Holding /\ op'.pc \notin Holding
    BY <1>a, <1>32, <2>2, OpMoves DEF SwitchStopWait, Holding
  <2>5. LocksAgree'
    BY <1>a, <1>32, <2>4, LocksKept DEF SwitchStopWait
  <2>6. MachineTyped' /\ HostTyped' /\ CallTyped' /\ BoundaryTyped'
          /\ RunTyped' /\ WorkerTyped' /\ GuardTyped' /\ BornInOrder'
    BY <1>a, <1>32
       DEF SwitchStopWait, MachineTyped, HostTyped, CallTyped, BoundaryTyped,
           RunTyped, WorkerTyped, GuardTyped, BornInOrder
  <2> QED BY <2>3, <2>5, <2>6 DEF TypeOK
<1>33. ASSUME SwitchCleaned
      PROVE TypeOK'
  <2>1. op.run \in Gen
    BY <1>a, <1>33 DEF SwitchCleaned, OpTyped, OpAt, WithRun, CleanPc
  <2>2. \/ OpGoto("swEnd")
        \/ OpGoto("swDecide")
        \/ OpGoto("swPrepare")
    BY <1>a, <1>33, <2>1 DEF SwitchCleaned, AfterOldRun, ToCandidate
  <2>3. MachineTyped'
    BY <1>a, <1>33, <2>1, <1>d, MaxGenAssumption
       DEF SwitchCleaned, MachineTyped, State, CompleteStop, BeginStop
  <2>4. HostTyped'
    <3>1. current' = current \/ current' = None
      BY <1>a, <1>33 DEF SwitchCleaned
    <3>2. current' \in 0..MaxGen
      BY <1>a, <3>1, MaxGenAssumption DEF HostTyped, None, NoGeneration
    <3> QED BY <1>a, <1>33, <3>2 DEF SwitchCleaned, HostTyped
  <2>5. OpTyped'
    <3>1. CASE OpGoto("swEnd")
      BY <1>a, <3>1, <1>33, <2>1
         DEF SwitchCleaned, OpTyped, OpAt, OpPc, OpKind, SwitchKind, StopPc,
             CleanPc, SwitchPc, WithRun, OpGoto
    <3>2. CASE OpGoto("swDecide")
      BY <1>a, <3>2, <1>33, <2>1
         DEF SwitchCleaned, OpTyped, OpAt, OpPc, OpKind, SwitchKind, StopPc,
             CleanPc, SwitchPc, WithRun, OpGoto
    <3>3. CASE OpGoto("swPrepare")
      BY <1>a, <3>3, <1>33, <2>1
         DEF SwitchCleaned, OpTyped, OpAt, OpPc, OpKind, SwitchKind, StopPc,
             CleanPc, SwitchPc, WithRun, OpGoto
    <3> QED BY <2>2, <3>1, <3>2, <3>3
  <2>6. BornInOrder'
    BY <1>a, <1>33, <2>1, <1>d, MaxGenAssumption
       DEF SwitchCleaned, BornInOrder, RunTyped, MachineTyped, Gen,
           CompleteStop, BeginStop
  <2>7. op.pc \notin Holding /\ op'.pc \notin Holding
    <3>1. op.pc \notin Holding
      BY <1>a, <1>33 DEF SwitchCleaned, Holding
    <3>2. op'.pc \notin Holding
      BY <1>a, <2>2, OpMoves DEF Holding
    <3> QED BY <1>a, <3>1, <3>2
  <2>8. LocksAgree'
    BY <1>a, <1>33, <2>7, LocksKept DEF SwitchCleaned
  <2>9. CallTyped' /\ BoundaryTyped' /\ RunTyped' /\ WorkerTyped' /\ GuardTyped'
    BY <1>a, <1>33
       DEF SwitchCleaned, CallTyped, BoundaryTyped, RunTyped, WorkerTyped,
           GuardTyped
  <2> QED BY <2>3, <2>4, <2>5, <2>6, <2>8, <2>9 DEF TypeOK
<1>34. ASSUME SwitchPrepare
      PROVE TypeOK'
  <2>1. \/ OpGoto("swDecide")
        \/ NextGen \in Gen /\ OpFollow(FALSE)
    BY <1>a, <1>34, <1>b, <1>c DEF SwitchPrepare, RunResolvedContext
  <2>2. \/ BeginRun(FALSE) /\ CanStartRun
        \/ UNCHANGED <<machine, current, pc, watch>>
    BY <1>a, <1>34 DEF SwitchPrepare, RunResolvedContext
  <2>3. /\ MachineTyped' /\ current' \in 0..MaxGen /\ RunTyped' /\ BornInOrder'
        /\ \A g \in Gen : pc'[g] = "cleaning" <=> pc[g] = "cleaning"
    <3>1. CASE BeginRun(FALSE) /\ CanStartRun
      BY <1>a, <3>1, <1>34, BeginRunTyped DEF SwitchPrepare, TypeOK
    <3>2. CASE UNCHANGED <<machine, current, pc, watch>>
      BY <1>a, <3>2, <1>34
         DEF SwitchPrepare, MachineTyped, HostTyped, RunTyped, BornInOrder
    <3> QED BY <2>2, <3>1, <3>2
  <2>4. HostTyped'
    BY <1>a, <1>34, <2>3 DEF SwitchPrepare, HostTyped
  <2>5. OpTyped'
    <3>1. CASE OpGoto("swDecide")
      BY <1>a, <3>1, <1>34
         DEF SwitchPrepare, OpTyped, OpAt, OpPc, OpKind, SwitchKind, StopPc,
             CleanPc, SwitchPc, WithRun, OpGoto
    <3>2. CASE NextGen \in Gen /\ OpFollow(FALSE)
      BY <1>a, <3>2, <1>34, FollowTyped
         DEF SwitchPrepare, OpTyped, OpAt, SwitchPc
    <3> QED BY <2>1, <3>1, <3>2
  <2>6. op.pc \notin Holding /\ op'.pc \notin Holding
    <3>1. op.pc \notin Holding
      BY <1>a, <1>34 DEF SwitchPrepare, Holding
    <3>2. op'.pc \notin Holding
      BY <1>a, <2>1 DEF Holding, OpTyped, OpGoto, OpFollow
    <3> QED BY <1>a, <3>1, <3>2
  <2>7. LocksAgree'
    BY <1>a, <1>34, <2>6, <2>3, LocksKept DEF SwitchPrepare
  <2>8. CallTyped' /\ BoundaryTyped' /\ WorkerTyped' /\ GuardTyped'
    BY <1>a, <1>34
       DEF SwitchPrepare, CallTyped, BoundaryTyped, WorkerTyped, GuardTyped
  <2> QED BY <2>3, <2>4, <2>5, <2>7, <2>8 DEF TypeOK
<1>35. ASSUME SwitchWait
      PROVE TypeOK'
  <2>1. op.run \in Gen
    BY <1>a, <1>35 DEF SwitchWait, OpTyped, OpAt, WithRun, CleanPc
  <2>2. \/ OpGoto("swEnd")
        \/ OpGoto("swDecide")
        \/ OpGoto("swDrain")
    BY <1>a, <1>35, <2>1 DEF SwitchWait
  <2>3. OpTyped'
    <3>1. CASE OpGoto("swEnd")
      BY <1>a, <3>1, <1>35, <2>1
         DEF SwitchWait, OpTyped, OpAt, OpPc, OpKind, SwitchKind, StopPc,
             CleanPc, SwitchPc, WithRun, OpGoto
    <3>2. CASE OpGoto("swDecide")
      BY <1>a, <3>2, <1>35, <2>1
         DEF SwitchWait, OpTyped, OpAt, OpPc, OpKind, SwitchKind, StopPc,
             CleanPc, SwitchPc, WithRun, OpGoto
    <3>3. CASE OpGoto("swDrain")
      BY <1>a, <3>3, <1>35, <2>1
         DEF SwitchWait, OpTyped, OpAt, OpPc, OpKind, SwitchKind, StopPc,
             CleanPc, SwitchPc, WithRun, OpGoto
    <3> QED BY <2>2, <3>1, <3>2, <3>3
  <2>4. RunTyped'
    BY <1>a, <1>35, <2>1, <1>d, MaxGenAssumption DEF SwitchWait, RunTyped, RunPc
  <2>5. op.pc \notin Holding /\ op'.pc \notin Holding
    BY <1>a, <1>35, <2>2, OpMoves DEF SwitchWait, Holding
  <2>6. LocksAgree'
    BY <1>a, <1>35, <2>5, LocksKept DEF SwitchWait
  <2>7. MachineTyped' /\ HostTyped' /\ CallTyped' /\ BoundaryTyped'
          /\ WorkerTyped' /\ GuardTyped' /\ BornInOrder'
    BY <1>a, <1>35
       DEF SwitchWait, MachineTyped, HostTyped, CallTyped, BoundaryTyped,
           WorkerTyped, GuardTyped, BornInOrder
  <2> QED BY <2>3, <2>4, <2>6, <2>7 DEF TypeOK
<1>36. ASSUME SwitchDrain
      PROVE TypeOK'
  <2>1. \/ OpGoto("swEnd")
        \/ OpGoto("swDecide")
    BY <1>a, <1>36 DEF SwitchDrain
  <2>2. OpTyped'
    <3>1. CASE OpGoto("swEnd")
      BY <1>a, <3>1, <1>36
         DEF SwitchDrain, OpTyped, OpAt, OpPc, OpKind, SwitchKind, StopPc,
             CleanPc, SwitchPc, WithRun, OpGoto
    <3>2. CASE OpGoto("swDecide")
      BY <1>a, <3>2, <1>36
         DEF SwitchDrain, OpTyped, OpAt, OpPc, OpKind, SwitchKind, StopPc,
             CleanPc, SwitchPc, WithRun, OpGoto
    <3> QED BY <2>1, <3>1, <3>2
  <2>3. op.pc \notin Holding /\ op'.pc \notin Holding
    BY <1>a, <1>36, <2>1, OpMoves DEF SwitchDrain, Holding
  <2>4. LocksAgree'
    BY <1>a, <1>36, <2>3, LocksKept DEF SwitchDrain
  <2>5. MachineTyped' /\ HostTyped' /\ CallTyped' /\ BoundaryTyped'
          /\ RunTyped' /\ WorkerTyped' /\ GuardTyped' /\ BornInOrder'
    BY <1>a, <1>36
       DEF SwitchDrain, MachineTyped, HostTyped, CallTyped, BoundaryTyped,
           RunTyped, WorkerTyped, GuardTyped, BornInOrder
  <2> QED BY <2>2, <2>4, <2>5 DEF TypeOK
<1>37. ASSUME SwitchDecide
      PROVE TypeOK'
  <2>1. \/ OpGoto("swEnd")
        \/ NextGen \in Gen /\ OpFollow(TRUE)
    BY <1>a, <1>37, <1>b, <1>c DEF SwitchDecide, RunResolvedContext
  <2>2. \/ BeginRun(FALSE) /\ CanStartRun
        \/ UNCHANGED <<machine, current, pc, watch>>
    BY <1>a, <1>37 DEF SwitchDecide, RunResolvedContext
  <2>3. /\ MachineTyped' /\ current' \in 0..MaxGen /\ RunTyped' /\ BornInOrder'
        /\ \A g \in Gen : pc'[g] = "cleaning" <=> pc[g] = "cleaning"
    <3>1. CASE BeginRun(FALSE) /\ CanStartRun
      BY <1>a, <3>1, <1>37, BeginRunTyped DEF SwitchDecide, TypeOK
    <3>2. CASE UNCHANGED <<machine, current, pc, watch>>
      BY <1>a, <3>2, <1>37
         DEF SwitchDecide, MachineTyped, HostTyped, RunTyped, BornInOrder
    <3> QED BY <2>2, <3>1, <3>2
  <2>4. HostTyped'
    BY <1>a, <1>37, <2>3 DEF SwitchDecide, HostTyped
  <2>5. OpTyped'
    <3>1. CASE OpGoto("swEnd")
      BY <1>a, <3>1, <1>37
         DEF SwitchDecide, OpTyped, OpAt, OpPc, OpKind, SwitchKind, StopPc,
             CleanPc, SwitchPc, WithRun, OpGoto
    <3>2. CASE NextGen \in Gen /\ OpFollow(TRUE)
      BY <1>a, <3>2, <1>37, FollowTyped
         DEF SwitchDecide, OpTyped, OpAt, SwitchPc
    <3> QED BY <2>1, <3>1, <3>2
  <2>6. op.pc \notin Holding /\ op'.pc \notin Holding
    <3>1. op.pc \notin Holding
      BY <1>a, <1>37 DEF SwitchDecide, Holding
    <3>2. op'.pc \notin Holding
      BY <1>a, <2>1 DEF Holding, OpTyped, OpGoto, OpFollow
    <3> QED BY <1>a, <3>1, <3>2
  <2>7. LocksAgree'
    BY <1>a, <1>37, <2>6, <2>3, LocksKept DEF SwitchDecide
  <2>8. CallTyped' /\ BoundaryTyped' /\ WorkerTyped' /\ GuardTyped'
    BY <1>a, <1>37
       DEF SwitchDecide, CallTyped, BoundaryTyped, WorkerTyped, GuardTyped
  <2> QED BY <2>3, <2>4, <2>5, <2>7, <2>8 DEF TypeOK
<1>38. ASSUME SwitchEnd
      PROVE TypeOK'
  <2>1. OpGoto("swRelease")
    BY <1>a, <1>38 DEF SwitchEnd
  <2>2. OpTyped'
    <3>1. CASE OpGoto("swRelease")
      BY <1>a, <3>1, <1>38
         DEF SwitchEnd, OpTyped, OpAt, OpPc, OpKind, SwitchKind, StopPc,
             CleanPc, SwitchPc, WithRun, OpGoto
    <3> QED BY <2>1, <3>1
  <2>3. GuardTyped'
    BY <1>a, <1>38, <1>d, MaxGenAssumption
       DEF SwitchEnd, GuardTyped, KeepGuard, WorkerTyped
  <2>4. op.pc \notin Holding /\ op'.pc \notin Holding
    BY <1>a, <1>38, <2>1, OpMoves DEF SwitchEnd, Holding
  <2>5. LocksAgree'
    BY <1>a, <1>38, <2>4, LocksKept DEF SwitchEnd
  <2>6. MachineTyped' /\ HostTyped' /\ CallTyped' /\ BoundaryTyped'
          /\ RunTyped' /\ WorkerTyped' /\ BornInOrder'
    BY <1>a, <1>38
       DEF SwitchEnd, MachineTyped, HostTyped, CallTyped, BoundaryTyped,
           RunTyped, WorkerTyped, BornInOrder
  <2> QED BY <2>2, <2>3, <2>5, <2>6 DEF TypeOK
<1>39. ASSUME SwitchRelease
      PROVE TypeOK'
  <2>1. OpReturn
    BY <1>a, <1>39 DEF SwitchRelease
  <2>2. HostTyped'
    BY <1>a, <1>39, <1>d, MaxGenAssumption
       DEF SwitchRelease, HostTyped, None, NoGeneration
  <2>3. OpTyped'
    <3>1. CASE OpReturn
      BY <1>a, <3>1, IdleTyped DEF OpReturn
    <3> QED BY <2>1, <3>1
  <2>4. op.pc \notin Holding /\ op'.pc \notin Holding
    BY <1>a, <1>39, <2>1, OpMoves DEF SwitchRelease, Holding
  <2>5. LocksAgree'
    BY <1>a, <1>39, <2>4, LocksKept DEF SwitchRelease
  <2>6. MachineTyped' /\ CallTyped' /\ BoundaryTyped' /\ RunTyped'
          /\ WorkerTyped' /\ GuardTyped' /\ BornInOrder'
    BY <1>a, <1>39
       DEF SwitchRelease, MachineTyped, CallTyped, BoundaryTyped, RunTyped,
           WorkerTyped, GuardTyped, BornInOrder
  <2> QED BY <2>2, <2>3, <2>5, <2>6 DEF TypeOK

\* The holder of switchMu takes the boundary.
<1>40. ASSUME OpCleanupBegin
      PROVE TypeOK'
  <2>1. op.run \in Gen
    BY <1>a, <1>40 DEF OpCleanupBegin, OpTyped, OpAt, WithRun, CleanPc
  <2>2. \/ OpGoto("cleaning")
        \/ OpGoto("cleanFailed")
    BY <1>a, <1>40, <2>1 DEF OpCleanupBegin
  <2>3. OpTyped'
    <3>1. CASE OpGoto("cleaning")
      BY <1>a, <3>1, <1>40, <2>1
         DEF OpCleanupBegin, OpTyped, OpAt, OpPc, OpKind, SwitchKind, StopPc,
             CleanPc, SwitchPc, WithRun, OpGoto
    <3>2. CASE OpGoto("cleanFailed")
      BY <1>a, <3>2, <1>40, <2>1
         DEF OpCleanupBegin, OpTyped, OpAt, OpPc, OpKind, SwitchKind, StopPc,
             CleanPc, SwitchPc, WithRun, OpGoto
    <3> QED BY <2>2, <3>1, <3>2
  <2>4. BoundaryTyped'
    <3>1. UNCHANGED boundary \/ boundary' = Held("op", op.run, "detach")
      BY <1>a, <1>40 DEF OpCleanupBegin
    <3>2. CASE UNCHANGED boundary
      BY <1>a, <3>2 DEF BoundaryTyped
    <3>3. CASE boundary' = Held("op", op.run, "detach")
      BY <1>a, <3>3, <1>d, <2>1, HeldTyped
    <3> QED BY <1>a, <3>1, <3>2, <3>3
  <2>5. GuardTyped'
    BY <1>a, <1>40, <2>1, <1>d, MaxGenAssumption
       DEF OpCleanupBegin, GuardTyped, BeginManagerStopGuard
  <2>6. LocksAgree'
    <3>1. \/ UNCHANGED boundary /\ OpGoto("cleanFailed")
          \/ boundary' = Held("op", op.run, "detach") /\ OpGoto("cleaning")
      BY <1>a, <1>40 DEF OpCleanupBegin
    <3>2. CASE UNCHANGED boundary /\ OpGoto("cleanFailed")
      BY <1>a, <3>2, <1>40, OpMoves, LocksKept DEF OpCleanupBegin, Holding
    <3>3. CASE boundary' = Held("op", op.run, "detach") /\ OpGoto("cleaning")
      <4>1. op'.pc = "cleaning" /\ op'.run = op.run
        BY <1>a, <3>3, OpMoves
      <4> QED BY <1>a, <3>3, <4>1, <2>1, <1>40
                 DEF OpCleanupBegin, LocksAgree, Held, Gen, None, NoGeneration
    <3> QED BY <1>a, <3>1, <3>2, <3>3
  <2>7. MachineTyped' /\ HostTyped' /\ CallTyped' /\ RunTyped'
          /\ WorkerTyped' /\ BornInOrder'
    BY <1>a, <1>40
       DEF OpCleanupBegin, MachineTyped, HostTyped, CallTyped, RunTyped,
           WorkerTyped, BornInOrder
  <2> QED BY <2>3, <2>4, <2>5, <2>6, <2>7 DEF TypeOK

\* Host.Cancel past its look at switching.
<1>41. ASSUME CancelPick
      PROVE TypeOK'
  <2>1. CallTyped'
    BY <1>a, <1>41, <1>d, MaxGenAssumption
       DEF CancelPick, CallTyped, Gen, None, NoGeneration, HostTyped
  <2>2. LocksAgree'
    BY <1>a, <1>41, LocksKept DEF CancelPick
  <2>3. MachineTyped' /\ HostTyped' /\ OpTyped' /\ BoundaryTyped'
          /\ RunTyped' /\ WorkerTyped' /\ GuardTyped' /\ BornInOrder'
    BY <1>a, <1>41
       DEF CancelPick, MachineTyped, HostTyped, OpTyped, BoundaryTyped,
           RunTyped, WorkerTyped, GuardTyped, BornInOrder
  <2> QED BY <2>1, <2>2, <2>3 DEF TypeOK
<1>42. ASSUME CancelLock
      PROVE TypeOK'
  <2>1. cancelRun \in Gen
    BY <1>a, <1>42 DEF CancelLock, CallTyped
  <2>2. MachineTyped'
    BY <1>a, <1>42, <2>1, <1>d, MaxGenAssumption
       DEF CancelLock, MachineTyped, State, BeginStop
  <2>3. CallTyped'
    BY <1>a, <1>42, <2>1, <1>d, MaxGenAssumption
       DEF CancelLock, CallTyped, Gen, None, NoGeneration, HostTyped
  <2>4. BoundaryTyped'
    <3>1. UNCHANGED boundary \/ boundary' = Held("cancel", cancelRun, "none")
      BY <1>a, <1>42 DEF CancelLock
    <3>2. CASE UNCHANGED boundary
      BY <1>a, <3>2 DEF BoundaryTyped
    <3>3. CASE boundary' = Held("cancel", cancelRun, "none")
      BY <1>a, <3>3, <1>d, <2>1, HeldTyped
    <3> QED BY <1>a, <3>1, <3>2, <3>3
  <2>5. RunTyped'
    BY <1>a, <1>42, <2>1, <1>d, MaxGenAssumption DEF CancelLock, RunTyped, RunPc
  <2>6. BornInOrder'
    BY <1>a, <1>42, <2>1, <1>d, MaxGenAssumption
       DEF CancelLock, BornInOrder, RunTyped, MachineTyped, Gen, BeginStop
  <2>7. LocksAgree'
    <3>1. \/ UNCHANGED boundary /\ cancelPc' = "idle"
          \/ /\ boundary' = Held("cancel", cancelRun, "none")
             /\ cancelPc' = "guard" /\ cancelRun' = cancelRun
      BY <1>a, <1>42 DEF CancelLock
    <3>2. CASE UNCHANGED boundary /\ cancelPc' = "idle"
      BY <1>a, <3>2, <1>42, LocksKept DEF CancelLock
    <3>3. CASE /\ boundary' = Held("cancel", cancelRun, "none")
               /\ cancelPc' = "guard" /\ cancelRun' = cancelRun
      BY <1>a, <3>3, <1>42 DEF CancelLock, LocksAgree, Held
    <3> QED BY <1>a, <3>1, <3>2, <3>3
  <2>8. HostTyped' /\ OpTyped' /\ WorkerTyped' /\ GuardTyped'
    BY <1>a, <1>42 DEF CancelLock, HostTyped, OpTyped, WorkerTyped, GuardTyped
  <2> QED BY <2>2, <2>3, <2>4, <2>5, <2>6, <2>7, <2>8 DEF TypeOK
<1>43. ASSUME CancelGuard
      PROVE TypeOK'
  <2>1. cancelRun \in Gen
    BY <1>a, <1>43 DEF CancelGuard, CallTyped
  <2>2. CallTyped'
    BY <1>a, <1>43, <2>1, <1>d, MaxGenAssumption
       DEF CancelGuard, CallTyped, Gen, None, NoGeneration, HostTyped
  <2>3. BoundaryTyped'
    BY <1>a, <1>43, FreeTyped DEF CancelGuard
  <2>4. GuardTyped'
    BY <1>a, <1>43, <2>1, <1>d, MaxGenAssumption
       DEF CancelGuard, GuardTyped, BeginManagerStopGuard
  <2>5. LocksAgree'
    BY <1>a, <1>43 DEF CancelGuard, LocksAgree, FreeBoundary, Held
  <2>6. MachineTyped' /\ HostTyped' /\ OpTyped' /\ RunTyped' /\ WorkerTyped'
          /\ BornInOrder'
    BY <1>a, <1>43
       DEF CancelGuard, MachineTyped, HostTyped, OpTyped, RunTyped, WorkerTyped,
           BornInOrder
  <2> QED BY <2>2, <2>3, <2>4, <2>5, <2>6 DEF TypeOK

\* Calls and cancellations.
<1>44. ASSUME Call
      PROVE TypeOK'
  <2>1. \/ op' = NewOp("start", "start")
        \/ op' = NewOp("restart", "restart")
        \/ op' = NewOp("fault", "fault")
        \/ op' = NewOp("switch", "swBegin")
        \/ op' = NewOp("mutate", "swBegin")
        \/ op' = NewOp("restore", "swBegin")
    BY <1>a, <1>44 DEF Call, OpTake, SwitchKind
  <2>2. OpTyped'
    <3>1. CASE op' = NewOp("start", "start")
      <4>1. OpAt("start", "start", None) /\ "start" \in OpKind
              /\ "start" \in OpPc
        BY DEF OpAt, OpPc, OpKind, SwitchKind, StopPc, CleanPc, SwitchPc,
           WithRun
      <4> QED BY <1>a, <3>1, <4>1, TakenTyped
    <3>2. CASE op' = NewOp("restart", "restart")
      <4>1. OpAt("restart", "restart", None) /\ "restart" \in OpKind
              /\ "restart" \in OpPc
        BY DEF OpAt, OpPc, OpKind, SwitchKind, StopPc, CleanPc, SwitchPc,
           WithRun
      <4> QED BY <1>a, <3>2, <4>1, TakenTyped
    <3>3. CASE op' = NewOp("fault", "fault")
      <4>1. OpAt("fault", "fault", None) /\ "fault" \in OpKind
              /\ "fault" \in OpPc
        BY DEF OpAt, OpPc, OpKind, SwitchKind, StopPc, CleanPc, SwitchPc,
           WithRun
      <4> QED BY <1>a, <3>3, <4>1, TakenTyped
    <3>4. CASE op' = NewOp("switch", "swBegin")
      <4>1. OpAt("switch", "swBegin", None) /\ "switch" \in OpKind
              /\ "swBegin" \in OpPc
        BY DEF OpAt, OpPc, OpKind, SwitchKind, StopPc, CleanPc, SwitchPc,
           WithRun
      <4> QED BY <1>a, <3>4, <4>1, TakenTyped
    <3>5. CASE op' = NewOp("mutate", "swBegin")
      <4>1. OpAt("mutate", "swBegin", None) /\ "mutate" \in OpKind
              /\ "swBegin" \in OpPc
        BY DEF OpAt, OpPc, OpKind, SwitchKind, StopPc, CleanPc, SwitchPc,
           WithRun
      <4> QED BY <1>a, <3>5, <4>1, TakenTyped
    <3>6. CASE op' = NewOp("restore", "swBegin")
      <4>1. OpAt("restore", "swBegin", None) /\ "restore" \in OpKind
              /\ "swBegin" \in OpPc
        BY DEF OpAt, OpPc, OpKind, SwitchKind, StopPc, CleanPc, SwitchPc,
           WithRun
      <4> QED BY <1>a, <3>6, <4>1, TakenTyped
    <3> QED BY <2>1, <3>1, <3>2, <3>3, <3>4, <3>5, <3>6
  <2>3. op.pc \notin Holding /\ op'.pc \notin Holding
    BY <1>a, <1>44, <2>1
       DEF Call, OpTyped, Holding, IdleOp, NewOp, OpTake, OpAt, StopPc, CleanPc,
           SwitchKind
  <2>4. LocksAgree'
    BY <1>a, <1>44, <2>3, LocksKept DEF Call
  <2>5. MachineTyped' /\ HostTyped' /\ CallTyped' /\ BoundaryTyped'
          /\ RunTyped' /\ WorkerTyped' /\ GuardTyped' /\ BornInOrder'
    BY <1>a, <1>44
       DEF Call, MachineTyped, HostTyped, CallTyped, BoundaryTyped, RunTyped,
           WorkerTyped, GuardTyped, BornInOrder
  <2> QED BY <2>2, <2>4, <2>5 DEF TypeOK
<1>45. ASSUME CallerCancel
      PROVE TypeOK'
  <2>1. op' = [op EXCEPT !.caller = "cancelled", !.ctx = "cancelled"]
    BY <1>a, <1>45 DEF CallerCancel
  <2>2. OpTyped'
    <3>1. CASE op' = [op EXCEPT !.caller = "cancelled", !.ctx = "cancelled"]
      BY <1>a, <3>1, <1>45, ZenonT(60)
         DEF CallerCancel, OpTyped, OpAt, OpPc, OpKind, SwitchKind, StopPc,
             CleanPc, SwitchPc, WithRun
    <3> QED BY <2>1, <3>1
  <2>3. op'.pc = op.pc /\ op'.run = op.run
    BY <1>a, <1>45, <2>1 DEF CallerCancel, OpTyped, Holding
  <2>4. LocksAgree'
    BY <1>a, <1>45, <2>3, LocksKept DEF CallerCancel
  <2>5. MachineTyped' /\ HostTyped' /\ CallTyped' /\ BoundaryTyped'
          /\ RunTyped' /\ WorkerTyped' /\ GuardTyped' /\ BornInOrder'
    BY <1>a, <1>45
       DEF CallerCancel, MachineTyped, HostTyped, CallTyped, BoundaryTyped,
           RunTyped, WorkerTyped, GuardTyped, BornInOrder
  <2> QED BY <2>2, <2>4, <2>5 DEF TypeOK
<1>46. ASSUME Cancel
      PROVE TypeOK'
  <2>1. \/ UNCHANGED op
        \/ op' = [op EXCEPT !.ctx = "cancelled"]
    BY <1>a, <1>46 DEF Cancel, CancelVersionOperation
  <2>2. OpTyped'
    <3>1. CASE UNCHANGED op
      BY <1>a, <3>1 DEF OpTyped
    <3>2. CASE op' = [op EXCEPT !.ctx = "cancelled"]
      BY <1>a, <3>2, <1>46
         DEF Cancel, OpTyped, OpAt, OpPc, OpKind, SwitchKind, StopPc, CleanPc,
             SwitchPc, WithRun
    <3> QED BY <2>1, <3>1, <3>2
  <2>3. CallTyped'
    BY <1>a, <1>46, <1>d, MaxGenAssumption
       DEF Cancel, CallTyped, Gen, None, NoGeneration, HostTyped
  <2>4. op'.pc = op.pc /\ op'.run = op.run
    BY <1>a, <1>46, <2>1 DEF Cancel, OpTyped, Holding
  <2>5. LocksAgree'
    BY <1>a, <1>46, <2>4, LocksKept DEF Cancel
  <2>6. MachineTyped' /\ HostTyped' /\ BoundaryTyped' /\ RunTyped'
          /\ WorkerTyped' /\ GuardTyped' /\ BornInOrder'
    BY <1>a, <1>46
       DEF Cancel, MachineTyped, HostTyped, BoundaryTyped, RunTyped,
           WorkerTyped, GuardTyped, BornInOrder
  <2> QED BY <2>2, <2>3, <2>5, <2>6 DEF TypeOK
<1>47. ASSUME QuitCall
      PROVE TypeOK'
  <2>1. \/ UNCHANGED op
        \/ op' = [op EXCEPT !.ctx = "cancelled"]
    BY <1>a, <1>47 DEF QuitCall, CancelVersionOperation
  <2>2. HostTyped'
    BY <1>a, <1>47, <1>d, MaxGenAssumption
       DEF QuitCall, HostTyped, None, NoGeneration
  <2>3. OpTyped'
    <3>1. CASE UNCHANGED op
      BY <1>a, <3>1 DEF OpTyped
    <3>2. CASE op' = [op EXCEPT !.ctx = "cancelled"]
      BY <1>a, <3>2, <1>47
         DEF QuitCall, OpTyped, OpAt, OpPc, OpKind, SwitchKind, StopPc, CleanPc,
             SwitchPc, WithRun
    <3> QED BY <2>1, <3>1, <3>2
  <2>4. CallTyped'
    BY <1>a, <1>47, <1>d, MaxGenAssumption
       DEF QuitCall, CallTyped, Gen, None, NoGeneration, HostTyped
  <2>5. op'.pc = op.pc /\ op'.run = op.run
    BY <1>a, <1>47, <2>1 DEF QuitCall, OpTyped, Holding
  <2>6. LocksAgree'
    BY <1>a, <1>47, <2>5, LocksKept DEF QuitCall
  <2>7. MachineTyped' /\ BoundaryTyped' /\ RunTyped' /\ WorkerTyped'
          /\ GuardTyped' /\ BornInOrder'
    BY <1>a, <1>47
       DEF QuitCall, MachineTyped, BoundaryTyped, RunTyped, WorkerTyped,
           GuardTyped, BornInOrder
  <2> QED BY <2>2, <2>3, <2>4, <2>6, <2>7 DEF TypeOK
<1>48. ASSUME ShutdownCall
      PROVE TypeOK'
  <2>1. HostTyped'
    BY <1>a, <1>48, <1>d, MaxGenAssumption
       DEF ShutdownCall, HostTyped, None, NoGeneration
  <2>2. CallTyped'
    BY <1>a, <1>48, <1>d, MaxGenAssumption
       DEF ShutdownCall, CallTyped, Gen, None, NoGeneration, HostTyped
  <2>3. MachineTyped' /\ OpTyped' /\ BoundaryTyped' /\ RunTyped'
          /\ WorkerTyped' /\ GuardTyped' /\ BornInOrder' /\ LocksAgree'
    BY <1>a, <1>48
       DEF ShutdownCall, MachineTyped, OpTyped, BoundaryTyped, RunTyped,
           WorkerTyped, GuardTyped, BornInOrder, LocksAgree
  <2> QED BY <2>1, <2>2, <2>3 DEF TypeOK
<1>49. ASSUME NEW kind \in {"quit", "shutdown"}, QuitLocked(kind)
      PROVE TypeOK'
  <2>1. \/ op' = NewOp("quit", "stopPick")
        \/ op' = NewOp("shutdown", "shutdown")
    BY <1>a, <1>49 DEF QuitLocked, OpTake
  <2>2. OpTyped'
    <3>1. CASE op' = NewOp("quit", "stopPick")
      <4>1. OpAt("quit", "stopPick", None) /\ "quit" \in OpKind
              /\ "stopPick" \in OpPc
        BY DEF OpAt, OpPc, OpKind, SwitchKind, StopPc, CleanPc, SwitchPc,
           WithRun
      <4> QED BY <1>a, <3>1, <4>1, TakenTyped
    <3>2. CASE op' = NewOp("shutdown", "shutdown")
      <4>1. OpAt("shutdown", "shutdown", None) /\ "shutdown" \in OpKind
              /\ "shutdown" \in OpPc
        BY DEF OpAt, OpPc, OpKind, SwitchKind, StopPc, CleanPc, SwitchPc,
           WithRun
      <4> QED BY <1>a, <3>2, <4>1, TakenTyped
    <3> QED BY <2>1, <3>1, <3>2
  <2>3. CallTyped'
    BY <1>a, <1>49, <1>d, MaxGenAssumption
       DEF QuitLocked, CallTyped, Gen, None, NoGeneration, HostTyped
  <2>4. op.pc \notin Holding /\ op'.pc \notin Holding
    BY <1>a, <1>49, <2>1
       DEF QuitLocked, OpTyped, Holding, IdleOp, NewOp, OpTake, OpAt, StopPc,
           CleanPc, SwitchKind
  <2>5. LocksAgree'
    BY <1>a, <1>49, <2>4, LocksKept DEF QuitLocked
  <2>6. MachineTyped' /\ HostTyped' /\ BoundaryTyped' /\ RunTyped'
          /\ WorkerTyped' /\ GuardTyped' /\ BornInOrder'
    BY <1>a, <1>49
       DEF QuitLocked, MachineTyped, HostTyped, BoundaryTyped, RunTyped,
           WorkerTyped, GuardTyped, BornInOrder
  <2> QED BY <2>2, <2>3, <2>5, <2>6 DEF TypeOK

<1> QED
  BY <1>1, <1>2, <1>3, <1>4, <1>5, <1>6, <1>7, <1>8, <1>9, <1>10, <1>11, <1>12,
     <1>13, <1>14, <1>15, <1>16, <1>17, <1>18, <1>19, <1>20, <1>21, <1>22,
     <1>23, <1>24, <1>25, <1>26, <1>27, <1>28, <1>29, <1>30, <1>31, <1>32,
     <1>33, <1>34, <1>35, <1>36, <1>37, <1>38, <1>39, <1>40, <1>41, <1>42,
     <1>43, <1>44, <1>45, <1>46, <1>47, <1>48, <1>49
     DEF Next, RunStep, WatchStep, CleanupStep, OpStep, CancelStep, Environment

\* In every reachable state of the Host, whatever calls it gets and however many
\* generations it starts, every variable has its type and the locks agree with
\* where their holders are (switchMu, workerBoundaryMu, Machine.BeginStart).
THEOREM HostTypeCorrect == Spec => []TypeOK
<1>1. Init => TypeOK
  <2> SUFFICES ASSUME Init PROVE TypeOK
    OBVIOUS
  <2>0. 0 \in 0..MaxGen
    BY MaxGenAssumption
  <2>1. MachineTyped /\ HostTyped
    <3>1. MachineTyped
      BY <2>0 DEF Init, NewMachine, NoGeneration, State, MachineTyped
    <3>2. HostTyped
      BY <2>0 DEF Init, None, NoGeneration, HostTyped
    <3> QED BY <3>1, <3>2
  <2>2. OpTyped
    BY MaxGenAssumption DEF Init, IdleOp, NewOp, None, NoGeneration, OpTyped,
       OpAt, OpPc, SwitchKind, StopPc, SwitchPc, CleanPc, WithRun
  <2>3. CallTyped /\ BoundaryTyped
    BY MaxGenAssumption DEF Init, FreeBoundary, Held, None, NoGeneration,
       CallTyped, BoundaryTyped
  <2>4. RunTyped /\ GuardTyped
    BY DEF Init, RunTyped, GuardTyped, RunPc
  <2>5. WorkerTyped
    BY MaxGenAssumption DEF Init, None, NoGeneration, WorkerTyped
  <2>6. BornInOrder
    BY DEF Init, NewMachine, NoGeneration, BornInOrder, Gen
  <2>7. LocksAgree
    BY DEF Init, FreeBoundary, Held, IdleOp, NewOp, LocksAgree
  <2> QED BY <2>1, <2>2, <2>3, <2>4, <2>5, <2>6, <2>7 DEF TypeOK
<1>2. TypeOK /\ UNCHANGED vars => TypeOK'
  BY DEF vars, hostVars, callVars, runVars, workerVars, guardVars, TypeOK,
     MachineTyped, HostTyped, OpTyped, CallTyped, BoundaryTyped, RunTyped,
     WorkerTyped, GuardTyped, BornInOrder, LocksAgree
<1>3. TypeOK /\ [Next]_vars => TypeOK'
  BY <1>2, TypeStep
<1> QED BY <1>1, <1>3, PTL DEF Spec
-----------------------------------------------------------------------------
(* The invariant.  Host.current is what everything hangs on: a run that    *)
(* has begun and is not done is current, a boundary with a pending cleanup *)
(* belongs to the current run, and a call never begins a run while there   *)
(* is one.  So a new generation always finds nothing left of an old one.   *)

\* A run past its cleanup, and a run that has a Worker to clean up.
AfterRun == {"finish", "complete", "fail", "stop", "release"}
WithWorker == {"waiting", "committing", "running", "cleanup", "cleaning"}

\* The current run is the newest, and no other run's goroutine is alive
\* (beginRunLocked, finish).
Generations ==
    /\ current # None => current = machine.gen
    /\ \A g \in Gen : pc[g] \notin {"unborn", "done"} => current = g

\* cleanupPending covers the process and only the current run has it; a run
\* that is past its cleanup and still has it has failed, which is why finish
\* keeps it current (startWorker, cleanupWorker, finish).
Workers ==
    /\ \A g \in pending : current = g
    /\ \A g \in Gen : proc[g] # "none" => g \in pending
    /\ \A g \in Gen : pc[g] \in {"unborn", "starting"} => g \notin pending
    /\ \A g \in Gen : pc[g] \in WithWorker => g \in pending
    /\ \A g \in pending : pc[g] \in AfterRun => g \in failed

\* A committed context belongs to a run whose cleanup is pending, and a cleanup
\* that has come to the drain without an error has cleared it (commitReady,
\* clearCurrent).
Contexts ==
    /\ live \subseteq pending
    /\ mgrCurrent # None => mgrCurrent \in live
    /\ boundary.step = "drain" /\ ~boundary.failed => boundary.run \notin live

\* A call cleans up only for a run whose goroutine is done, and goes on as
\* "cleaned" only when nothing is left of it (start, stopRun,
\* shutdownPendingRun).
Cleanups ==
    /\ op.pc \in CleanPc => op.run \in Gen /\ pc[op.run] = "done"
    /\ op.pc = "cleaned" => op.run \notin pending

\* While a shutdown holds switchMu the only run is the one it stops, and after
\* its nil return there is none (ShutdownForApp).
Shutdowns ==
    /\ op.kind = "shutdown" /\ op.pc # "shutdown" => current \in {None, op.run}
    /\ exited => /\ op.kind = "none"
                 /\ \A g \in Gen : pc[g] \in {"unborn", "done"}
                 /\ pending = {}

\* Where a switch is with the manager's guard: it has not asked for it, is
\* asking, holds it, or has just handed it on or let it go
\* (applyRunContextLocked).
Phase ==
    IF op.kind \notin SwitchKind \/ op.pc = "swBegin" THEN "none"
    ELSE IF op.pc = "swGuard" THEN "asking"
    ELSE IF op.pc = "swRelease" THEN "ended" ELSE "held"

\* The guard is the switch's, or one run's, or nobody's (beginManagerStopGuard,
\* BeginRunContextSwitch).
Guards ==
    /\ switching <=> Phase # "none"
    /\ switchGuarded <=> Phase \in {"held", "ended"}
    /\ mgrSwitching <=> guarded # {} \/ Phase = "held"
    /\ Phase = "held" => guarded = {}
    /\ \A g, h \in guarded : g = h

\* A run that serves has committed its context, and a Ready status belongs to a
\* run that is past commitReady.
Readiness ==
    /\ \A g \in Gen : pc[g] = "running" => mgrCurrent = g
    /\ machine.state = "Ready" =>
          /\ machine.gen \in Gen
          /\ pc[machine.gen] \notin {"starting", "waiting", "committing"}

Inv ==
    /\ Generations /\ Workers /\ Contexts /\ Cleanups /\ Shutdowns /\ Guards
    /\ Readiness /\ RecoverySparesNewer

-----------------------------------------------------------------------------
(* What the operators of the model do.                                     *)

\* The run that beginRunLocked adds has a number of its own, was not born
\* before, and becomes the Host's current run (Machine.BeginStart).
LEMMA BeginRunFacts ==
    ASSUME TypeOK, CanStartRun, BeginRun(TRUE) \/ BeginRun(FALSE)
    PROVE  /\ machine'.gen = NextGen /\ machine'.state = "Starting"
           /\ current' = NextGen
           /\ NextGen \in Gen
           /\ pc[NextGen] = "unborn"
           /\ pc' = [pc EXCEPT ![NextGen] = "starting"]
<1>1. NextGen \in Gen /\ NextGen > machine.gen
  BY MaxGenAssumption DEF TypeOK, CanStartRun, NextGen, MachineTyped, Gen
<1>2. pc[NextGen] = "unborn"
  BY <1>1 DEF TypeOK, BornInOrder
<1> QED BY <1>1, <1>2 DEF BeginRun, BeginStart, NextGen

\* When the Host has no current run, nothing is left of any run: no process, no
\* pending cleanup, no committed context (the state in which start,
\* beginResolvedRun and restartLocked may begin one).
LEMMA Vacant ==
    ASSUME TypeOK, Inv, current = None
    PROVE  /\ pending = {} /\ live = {} /\ mgrCurrent = None
           /\ \A g \in Gen : pc[g] \in {"unborn", "done"} /\ proc[g] = "none"
<1>1. \A g \in Gen : g # None
  BY DEF Gen, None, NoGeneration
<1>2. pending = {}
  BY <1>1 DEF TypeOK, WorkerTyped, Inv, Workers
<1> QED BY <1>1, <1>2 DEF Inv, Generations, Workers, Contexts

\* The step a call is at tells whether it is a switch (applyRunContextLocked).
LEMMA KindAt ==
    ASSUME OpTyped
    PROVE  /\ op.pc \in SwitchPc => op.kind \in SwitchKind
           /\ op.pc \notin SwitchPc \cup CleanPc => op.kind \notin SwitchKind
           /\ op.kind \in {"start", "restart", "quit", "shutdown", "fault",
                           "none"}
                 => op.kind \notin SwitchKind
<1>1. op.pc \in SwitchPc => op.kind \in SwitchKind
  BY DEF OpTyped, OpAt
<1>2. op.pc \notin SwitchPc \cup CleanPc => op.kind \notin SwitchKind
  BY DEF OpTyped, OpAt, OpPc, StopPc, SwitchPc, CleanPc, SwitchKind
<1> QED BY <1>1, <1>2 DEF SwitchKind

\* The transitions of the Machine keep the generation (lifecycle/types.go).
LEMMA MachineMoves ==
    ASSUME MachineTyped
    PROVE  /\ BeginStop(machine).gen = machine.gen
           /\ BeginStop(machine).state = "Stopping"
           /\ CompleteStop(machine, TRUE).gen = machine.gen
           /\ CompleteStop(machine, TRUE).state = "Failed"
           /\ CompleteStop(machine, FALSE).gen = machine.gen
           /\ CompleteStop(machine, FALSE).state = "Stopped"
           /\ CompleteStop(BeginStop(machine), FALSE).gen = machine.gen
           /\ CompleteStop(BeginStop(machine), FALSE).state = "Stopped"
           /\ Fail(machine).gen = machine.gen /\ Fail(machine).state = "Failed"
           /\ MarkReady(machine).gen = machine.gen
           /\ MarkReady(machine).state = "Ready"
  BY DEF MachineTyped, BeginStop, CompleteStop, Fail, MarkReady

\* Taking the guard for a stop keeps it with one owner (beginManagerStopGuard).
LEMMA GuardTaken ==
    ASSUME Guards, Phase' = Phase, UNCHANGED <<switching, switchGuarded>>,
           NEW g \in Gen, BeginManagerStopGuard(g)
    PROVE  Guards'
<1>1. CASE CanTakeStopGuard(g)
  <2>1. Phase = "none" /\ guarded = {}
    BY <1>1 DEF CanTakeStopGuard, Guards
  <2>2. guarded' = {g} /\ mgrSwitching' = TRUE
    BY <1>1, <2>1 DEF BeginManagerStopGuard
  <2> QED BY <2>1, <2>2 DEF Guards
<1>2. CASE ~CanTakeStopGuard(g)
  BY <1>2 DEF BeginManagerStopGuard, guardVars, Guards
<1> QED BY <1>1, <1>2

\* Giving it back does too: a run that never had it releases nothing
\* (releaseManagerStopGuard).
LEMMA GuardReleased ==
    ASSUME Guards, Phase' = Phase, UNCHANGED <<switching, switchGuarded>>,
           NEW g \in Gen, ReleaseManagerStopGuard(g)
    PROVE  Guards'
<1>1. CASE g \in guarded
  <2>1. guarded' = {} /\ mgrSwitching' = FALSE /\ Phase # "held"
    BY <1>1 DEF ReleaseManagerStopGuard, Guards
  <2> QED BY <2>1 DEF Guards
<1>2. CASE g \notin guarded
  <2>1. guarded' = guarded /\ (mgrSwitching' <=> mgrSwitching)
    BY <1>2 DEF ReleaseManagerStopGuard
  <2> QED BY <2>1 DEF Guards
<1> QED BY <1>1, <1>2

\* A cleanup in progress is of a run that asked for it or that is done
\* (cleanupWorker).
LEMMA BoundaryRun ==
    ASSUME TypeOK, Inv, boundary.step # "none"
    PROVE  boundary.run \in Gen /\ pc[boundary.run] \in {"cleaning", "done"}
<1>1. boundary.run \in Gen
  BY DEF TypeOK, BoundaryTyped, LocksAgree, Gen, None, NoGeneration
<1>2. CASE boundary.holder = "run"
  BY <1>1, <1>2 DEF TypeOK, LocksAgree
<1>3. CASE op.pc = "cleaning"
  BY <1>1, <1>3 DEF TypeOK, LocksAgree, Inv, Cleanups, CleanPc
<1> QED BY <1>1, <1>2, <1>3 DEF TypeOK, LocksAgree

-----------------------------------------------------------------------------
\* Every step of the Host keeps Inv: one step per action, and under it one per
\* part of Inv that the action can disturb (host.go).
LEMMA InvStep ==
    ASSUME TypeOK, Inv, Next
    PROVE  Inv'
<1> USE DEF hostVars, callVars, runVars, workerVars, guardVars
<1>a. /\ MachineTyped /\ HostTyped /\ OpTyped /\ CallTyped /\ BoundaryTyped
      /\ RunTyped /\ WorkerTyped /\ GuardTyped /\ BornInOrder /\ LocksAgree
      /\ Generations /\ Workers /\ Contexts /\ Cleanups /\ Shutdowns /\ Guards
      /\ Readiness /\ RecoverySparesNewer
  BY DEF TypeOK, Inv
<1>b. current # None => current \in Gen
  BY <1>a DEF HostTyped, Gen, None, NoGeneration

\* The goroutine of a generation.
<1>1. ASSUME NEW g \in Gen, RunStartWorker(g)
      PROVE Inv'
  <2>1. Generations'
    BY <1>a, <1>1
       DEF RunStartWorker, Generations, None, NoGeneration, CanSetPhase,
           CheckGeneration, Result, Goto, RunTyped
  <2>2. Workers'
    <3>1. current = g /\ pc[g] = "starting"
      BY <1>a, <1>1 DEF RunStartWorker, Generations
    <3>2. \/ UNCHANGED <<pending, proc>> /\ Goto(g, "finish")
          \/ /\ proc' = [proc EXCEPT ![g] = "alive"]
             /\ pending' = pending \cup {g}
             /\ Goto(g, "waiting")
      BY <1>a, <1>1 DEF RunStartWorker, Result
    <3>3. failed \subseteq failed'
      BY <1>a, <1>1 DEF RunStartWorker, Result
    <3>4. CASE UNCHANGED <<pending, proc>> /\ Goto(g, "finish")
      BY <1>a, <3>1, <3>3, <3>4, <1>1
         DEF RunStartWorker, Goto, RunTyped, Workers, WithWorker
    <3>5. CASE /\ proc' = [proc EXCEPT ![g] = "alive"]
               /\ pending' = pending \cup {g}
               /\ Goto(g, "waiting")
      BY <1>a, <3>1, <3>3, <3>5, <1>1
         DEF RunStartWorker, Goto, RunTyped, WorkerTyped, Workers, WithWorker,
             AfterRun
    <3> QED BY <1>a, <3>2, <3>4, <3>5
  <2>3. Contexts'
    BY <1>a, <1>1 DEF RunStartWorker, Contexts, None
  <2>4. Cleanups'
    BY <1>a, <1>1 DEF RunStartWorker, Cleanups, CleanPc, Result, Goto, RunTyped
  <2>5. Shutdowns'
    BY <1>a, <1>1
       DEF RunStartWorker, Shutdowns, None, Result, Goto, RunTyped, OpTyped,
           OpAt
  <2>6. Readiness'
    BY <1>a, <1>1
       DEF RunStartWorker, Readiness, CanSetPhase, CheckGeneration, Result,
           Goto, RunTyped
  <2>7. Guards' /\ RecoverySparesNewer'
    BY <1>a, <1>1 DEF RunStartWorker, Guards, RecoverySparesNewer, Phase
  <2> QED BY <2>1, <2>2, <2>3, <2>4, <2>5, <2>6, <2>7 DEF Inv
<1>2. ASSUME NEW g \in Gen, RunWaitReady(g)
      PROVE Inv'
  <2>1. Generations'
    BY <1>a, <1>2
       DEF RunWaitReady, Generations, None, NoGeneration, Result, Goto, RunTyped
  <2>2. Workers'
    BY <1>a, <1>2
       DEF RunWaitReady, Workers, WithWorker, AfterRun, Result, Goto, RunTyped
  <2>3. Cleanups'
    BY <1>a, <1>2 DEF RunWaitReady, Cleanups, CleanPc, Result, Goto, RunTyped
  <2>4. Shutdowns'
    BY <1>a, <1>2
       DEF RunWaitReady, Shutdowns, None, Result, Goto, RunTyped, OpTyped, OpAt
  <2>5. Readiness'
    BY <1>a, <1>2 DEF RunWaitReady, Readiness, Result, Goto, RunTyped
  <2>6. Contexts' /\ Guards' /\ RecoverySparesNewer'
    BY <1>a, <1>2 DEF RunWaitReady, Contexts, Guards, RecoverySparesNewer, Phase
  <2> QED BY <2>1, <2>2, <2>3, <2>4, <2>5, <2>6 DEF Inv
<1>3. ASSUME NEW g \in Gen, RunCommitReady(g)
      PROVE Inv'
  <2>1. boundary.step # "none" => boundary.run # g
    BY <1>a, <1>3, BoundaryRun DEF RunCommitReady
  <2>2. /\ machine'.gen = machine.gen
        /\ \/ machine' = machine /\ Goto(g, "cleanup")
           \/ /\ machine.state = "Starting" /\ machine'.state = "Ready"
              /\ Goto(g, "running") /\ mgrCurrent' = g
    BY <1>a, <1>3, MachineMoves DEF RunCommitReady, Result, CanMarkReady
  <2>3. Generations'
    BY <1>a, <1>3, <2>1, <2>2
       DEF RunCommitReady, Generations, None, NoGeneration, Result, Goto,
           RunTyped
  <2>4. Workers'
    BY <1>a, <1>3, <2>1, <2>2
       DEF RunCommitReady, Workers, WithWorker, AfterRun, Result, Goto, RunTyped
  <2>5. Contexts'
    <3>1. g \in pending
      BY <1>a, <1>3 DEF RunCommitReady, Workers, WithWorker
    <3>2. \/ UNCHANGED <<live, mgrCurrent>>
          \/ live' = live \cup {g} /\ mgrCurrent' = g
      BY <1>a, <1>3 DEF RunCommitReady
    <3>3. CASE UNCHANGED <<live, mgrCurrent>>
      BY <1>a, <3>3, <1>3 DEF RunCommitReady, Contexts
    <3>4. CASE live' = live \cup {g} /\ mgrCurrent' = g
      BY <1>a, <3>1, <3>4, <2>1, <1>3 DEF RunCommitReady, Contexts
    <3> QED BY <1>a, <3>2, <3>3, <3>4
  <2>6. Cleanups'
    BY <1>a, <1>3, <2>1, <2>2
       DEF RunCommitReady, Cleanups, CleanPc, Result, Goto, RunTyped
  <2>7. Shutdowns'
    BY <1>a, <1>3, <2>1, <2>2
       DEF RunCommitReady, Shutdowns, None, Result, Goto, RunTyped, OpTyped,
           OpAt
  <2>8. Readiness'
    <3>1. \A h \in Gen : h # g => pc'[h] = pc[h]
      BY <1>a, <2>2 DEF Goto, RunTyped
    <3>2. current = g /\ machine.gen = g
      BY <1>a, <1>3 DEF RunCommitReady, Generations, Gen, None, NoGeneration
    <3>3. CASE machine' = machine /\ Goto(g, "cleanup")
      <4>1. pc'[g] = "cleanup"
        BY <1>a, <3>3 DEF Goto, RunTyped
      <4>2. \A h \in Gen : pc'[h] # "running"
        BY <1>a, <3>1, <3>2, <4>1 DEF Generations
      <4> QED BY <1>a, <3>2, <4>1, <4>2, <2>2 DEF Readiness
    <3>4. CASE machine'.state = "Ready" /\ Goto(g, "running") /\ mgrCurrent' = g
      <4>1. pc'[g] = "running"
        BY <1>a, <3>4 DEF Goto, RunTyped
      <4>2. \A h \in Gen : pc'[h] = "running" => h = g
        BY <1>a, <3>1, <3>2 DEF Generations
      <4> QED BY <1>a, <3>2, <3>4, <4>1, <4>2, <2>2 DEF Readiness
    <3> QED BY <2>2, <3>3, <3>4
  <2>9. RecoverySparesNewer'
    BY <1>a, <2>2, <1>3 DEF RunCommitReady, RecoverySparesNewer
  <2>10. Guards'
    BY <1>a, <1>3 DEF RunCommitReady, Guards, Phase
  <2> QED BY <2>3, <2>4, <2>5, <2>6, <2>7, <2>8, <2>9, <2>10 DEF Inv
<1>4. ASSUME NEW g \in Gen, RunServe(g)
      PROVE Inv'
  <2>1. Generations'
    BY <1>a, <1>4
       DEF RunServe, Generations, None, NoGeneration, Result, Goto, RunTyped
  <2>2. Workers'
    BY <1>a, <1>4
       DEF RunServe, Workers, WithWorker, AfterRun, Result, Goto, RunTyped
  <2>3. Cleanups'
    BY <1>a, <1>4 DEF RunServe, Cleanups, CleanPc, Result, Goto, RunTyped
  <2>4. Shutdowns'
    BY <1>a, <1>4
       DEF RunServe, Shutdowns, None, Result, Goto, RunTyped, OpTyped, OpAt
  <2>5. Readiness'
    BY <1>a, <1>4 DEF RunServe, Readiness, Result, Goto, RunTyped
  <2>6. Contexts' /\ Guards' /\ RecoverySparesNewer'
    BY <1>a, <1>4 DEF RunServe, Contexts, Guards, RecoverySparesNewer, Phase
  <2> QED BY <2>1, <2>2, <2>3, <2>4, <2>5, <2>6 DEF Inv
<1>5. ASSUME NEW g \in Gen, RunCleanupBegin(g)
      PROVE Inv'
  <2>1. Generations'
    BY <1>a, <1>5
       DEF RunCleanupBegin, Generations, None, NoGeneration, Result, Goto,
           RunTyped
  <2>2. Workers'
    BY <1>a, <1>5
       DEF RunCleanupBegin, Workers, WithWorker, AfterRun, Result, Goto,
           RunTyped
  <2>3. Contexts'
    <3>1. boundary' = Held("run", g, "detach") \/ UNCHANGED boundary
      BY <1>a, <1>5 DEF RunCleanupBegin
    <3>2. boundary'.step # "drain" \/ UNCHANGED boundary
      BY <1>a, <3>1 DEF Held
    <3> QED BY <1>a, <3>2, <1>5 DEF RunCleanupBegin, Contexts
  <2>4. Cleanups'
    BY <1>a, <1>5 DEF RunCleanupBegin, Cleanups, CleanPc, Result, Goto, RunTyped
  <2>5. Shutdowns'
    BY <1>a, <1>5
       DEF RunCleanupBegin, Shutdowns, None, Result, Goto, RunTyped, OpTyped,
           OpAt
  <2>6. Guards'
    <3>1. Phase' = Phase
      BY <1>a, <1>5 DEF RunCleanupBegin, Phase
    <3>2. CASE BeginManagerStopGuard(g)
      BY <1>a, <3>1, <3>2, <1>5, GuardTaken DEF RunCleanupBegin
    <3>3. CASE UNCHANGED guardVars
      BY <1>a, <3>1, <3>3, <1>5 DEF RunCleanupBegin, Guards
    <3> QED BY <1>a, <3>2, <3>3, <1>5 DEF RunCleanupBegin
  <2>7. Readiness'
    BY <1>a, <1>5 DEF RunCleanupBegin, Readiness, Result, Goto, RunTyped
  <2>8. RecoverySparesNewer'
    BY <1>a, <1>5 DEF RunCleanupBegin, RecoverySparesNewer
  <2> QED BY <2>1, <2>2, <2>3, <2>4, <2>5, <2>6, <2>7, <2>8 DEF Inv
<1>6. ASSUME NEW g \in Gen, RunFinish(g)
      PROVE Inv'
  <2>1. machine.gen = g
    BY <1>a, <1>6 DEF RunFinish, Generations, Gen, None, NoGeneration
  <2>2. Goto(g, "complete") \/ (Goto(g, "fail") /\ g \in failed)
          \/ (Goto(g, "stop") /\ g \notin failed)
    BY <1>a, <1>6, <2>1 DEF RunFinish
  <2>3. Generations'
    BY <1>a, <1>6, <2>1, <2>2
       DEF RunFinish, Generations, None, NoGeneration, Goto, RunTyped
  <2>4. Workers'
    <3>1. \E to \in AfterRun : Goto(g, to)
      BY <1>a, <2>2 DEF AfterRun
    <3> QED BY <1>a, <3>1, <1>6
               DEF RunFinish, Goto, RunTyped, Workers, WithWorker, AfterRun
  <2>5. Cleanups'
    BY <1>a, <1>6, <2>1, <2>2 DEF RunFinish, Cleanups, CleanPc, Goto, RunTyped
  <2>6. Shutdowns'
    BY <1>a, <1>6, <2>1, <2>2
       DEF RunFinish, Shutdowns, None, Goto, RunTyped, OpTyped, OpAt
  <2>7. Readiness'
    BY <1>a, <1>6, <2>1, <2>2 DEF RunFinish, Readiness, Goto, RunTyped
  <2>8. Contexts' /\ Guards' /\ RecoverySparesNewer'
    BY <1>a, <1>6 DEF RunFinish, Contexts, Guards, RecoverySparesNewer, Phase
  <2> QED BY <2>3, <2>4, <2>5, <2>6, <2>7, <2>8 DEF Inv
<1>7. ASSUME NEW g \in Gen, RunFinishStatus(g)
      PROVE Inv'
  <2>1. Generations'
    BY <1>a, <1>7
       DEF RunFinishStatus, Generations, None, NoGeneration, FinishedStatus,
           CompleteStop, BeginStop, Fail, Goto, RunTyped
  <2>2. Workers'
    BY <1>a, <1>7
       DEF RunFinishStatus, Workers, WithWorker, AfterRun, Goto, RunTyped
  <2>3. Cleanups'
    BY <1>a, <1>7 DEF RunFinishStatus, Cleanups, CleanPc, Goto, RunTyped
  <2>4. Shutdowns'
    BY <1>a, <1>7
       DEF RunFinishStatus, Shutdowns, None, Goto, RunTyped, OpTyped, OpAt
  <2>5. Readiness'
    BY <1>a, <1>7
       DEF RunFinishStatus, Readiness, FinishedStatus, CompleteStop, BeginStop,
           Fail, Goto, RunTyped
  <2>6. RecoverySparesNewer'
    BY <1>a, <1>7
       DEF RunFinishStatus, RecoverySparesNewer, FinishedStatus, CompleteStop,
           BeginStop, Fail
  <2>7. Contexts' /\ Guards'
    BY <1>a, <1>7 DEF RunFinishStatus, Contexts, Guards, Phase
  <2> QED BY <2>1, <2>2, <2>3, <2>4, <2>5, <2>6, <2>7 DEF Inv
<1>8. ASSUME NEW g \in Gen, RunFinishRelease(g)
      PROVE Inv'
  <2>1. Generations'
    BY <1>a, <1>8
       DEF RunFinishRelease, Generations, None, NoGeneration, Goto, RunTyped
  <2>2. Workers'
    <3>1. current = g /\ pc[g] = "release" /\ pc' = [pc EXCEPT ![g] = "done"]
      BY <1>a, <1>8 DEF RunFinishRelease, Generations, Goto
    <3>2. \A h \in pending : h = g
      BY <1>a, <3>1 DEF Workers
    <3>3. g \in pending => current' = g
      BY <1>a, <3>1, <1>8
         DEF RunFinishRelease, Workers, AfterRun, KeepCleanupOwner
    <3> QED BY <1>a, <3>1, <3>2, <3>3, <1>8
               DEF RunFinishRelease, Workers, RunTyped, WorkerTyped, WithWorker,
                   AfterRun
  <2>3. Cleanups'
    BY <1>a, <1>8 DEF RunFinishRelease, Cleanups, CleanPc, Goto, RunTyped
  <2>4. Shutdowns'
    BY <1>a, <1>8
       DEF RunFinishRelease, Shutdowns, None, Goto, RunTyped, OpTyped, OpAt
  <2>5. Guards'
    <3>1. Phase' = Phase
      BY <1>a, <1>8 DEF RunFinishRelease, Phase
    <3>2. CASE g \in pending
      BY <1>a, <3>1, <3>2, <1>8 DEF RunFinishRelease, Guards
    <3>3. CASE g \notin pending
      BY <1>a, <3>1, <3>3, <1>8, GuardReleased DEF RunFinishRelease
    <3> QED BY <1>a, <3>2, <3>3
  <2>6. Readiness'
    BY <1>a, <1>8 DEF RunFinishRelease, Readiness, Goto, RunTyped
  <2>7. Contexts' /\ RecoverySparesNewer'
    BY <1>a, <1>8 DEF RunFinishRelease, Contexts, RecoverySparesNewer
  <2> QED BY <2>1, <2>2, <2>3, <2>4, <2>5, <2>6, <2>7 DEF Inv

\* runStartup, and the process's own exit.
<1>9. ASSUME NEW g \in Gen, WatchReady(g)
      PROVE Inv'
  <2>1. Generations' /\ Workers' /\ Contexts' /\ Cleanups' /\ Shutdowns'
          /\ Guards' /\ Readiness' /\ RecoverySparesNewer'
    BY <1>a, <1>9
       DEF WatchReady, Generations, Workers, Contexts, Cleanups, Shutdowns,
           Guards, Readiness, RecoverySparesNewer, Phase
  <2> QED BY <2>1 DEF Inv
<1>10. ASSUME NEW g \in Gen, WatchDone(g)
      PROVE Inv'
  <2>1. Generations' /\ Workers' /\ Contexts' /\ Cleanups' /\ Shutdowns'
          /\ Guards' /\ Readiness' /\ RecoverySparesNewer'
    BY <1>a, <1>10
       DEF WatchDone, Generations, Workers, Contexts, Cleanups, Shutdowns,
           Guards, Readiness, RecoverySparesNewer, Phase
  <2> QED BY <2>1 DEF Inv
<1>11. ASSUME NEW g \in Gen, RecoverCall(g)
      PROVE Inv'
  <2>1. Cleanups'
    BY <1>a, <1>11, OpMoves
       DEF RecoverCall, Cleanups, CleanPc, OpTake, NewOp, SwitchKind, RunTyped
  <2>2. Shutdowns'
    BY <1>a, <1>11, OpMoves
       DEF RecoverCall, Shutdowns, None, OpTake, NewOp, SwitchKind, RunTyped,
           OpTyped, OpAt
  <2>3. Phase' = Phase
    BY <1>a, <1>11, KindAt
       DEF RecoverCall, Phase, OpTake, NewOp, SwitchKind, OpTyped, OpAt
  <2>4. Guards'
    BY <1>a, <1>11, <2>3 DEF RecoverCall, Guards
  <2>5. RecoverySparesNewer'
    BY <1>a, <1>11, OpMoves
       DEF RecoverCall, RecoverySparesNewer, OpTake, NewOp, SwitchKind
  <2>6. Generations' /\ Workers' /\ Contexts' /\ Readiness'
    BY <1>a, <1>11 DEF RecoverCall, Generations, Workers, Contexts, Readiness
  <2> QED BY <2>1, <2>2, <2>4, <2>5, <2>6 DEF Inv
<1>12. ASSUME NEW g \in Gen, WorkerExit(g)
      PROVE Inv'
  <2>1. Workers'
    BY <1>a, <1>12 DEF WorkerExit, Workers, WithWorker, AfterRun, RunTyped
  <2>2. Generations' /\ Contexts' /\ Cleanups' /\ Shutdowns' /\ Guards'
          /\ Readiness' /\ RecoverySparesNewer'
    BY <1>a, <1>12
       DEF WorkerExit, Generations, Contexts, Cleanups, Shutdowns, Guards,
           Readiness, RecoverySparesNewer, Phase
  <2> QED BY <2>1, <2>2 DEF Inv

\* cleanupWorker under workerBoundaryMu.
<1>13. ASSUME CleanupDetach
      PROVE Inv'
  <2>1. boundary.run \in Gen /\ pc[boundary.run] \in {"cleaning", "done"}
    BY <1>a, <1>13, BoundaryRun DEF CleanupDetach
  <2>2. \/ /\ live' = live \ {boundary.run}
           /\ mgrCurrent' \in {None, mgrCurrent} /\ mgrCurrent' # boundary.run
           /\ mgrCurrent # boundary.run => mgrCurrent' = mgrCurrent
        \/ UNCHANGED <<live, mgrCurrent>> /\ boundary'.failed
    <3>1. PICK cleared \in IF boundary.run \in live THEN BOOLEAN ELSE {TRUE},
               closing \in CloseResult(boundary.run) :
                 /\ live' = IF cleared THEN live \ {boundary.run} ELSE live
                 /\ mgrCurrent' = IF cleared /\ boundary.run \in live
                      THEN None ELSE mgrCurrent
                 /\ boundary' = [boundary EXCEPT !.step = "drain",
                                   !.failed = ~cleared \/ closing = "stuck"]
      BY <1>a, <1>13 DEF CleanupDetach
    <3>2. CASE cleared
      <4>1. live' = live \ {boundary.run}
        BY <1>a, <3>1, <3>2
      <4>2. CASE boundary.run \in live
        <5>1. mgrCurrent' = None
          BY <1>a, <3>1, <3>2, <4>2
        <5>2. \A h \in live : h = boundary.run
          BY <1>a, <4>2 DEF Contexts, Workers
        <5> QED BY <1>a, <4>1, <5>1, <5>2, <2>1
                   DEF Contexts, Gen, None, NoGeneration
      <4>3. CASE boundary.run \notin live
        <5>1. mgrCurrent' = mgrCurrent
          BY <1>a, <3>1, <4>3
        <5> QED BY <1>a, <4>1, <4>3, <5>1, <2>1
                   DEF Contexts, Gen, None, NoGeneration
      <4> QED BY <4>2, <4>3
    <3>3. CASE ~cleared
      BY <1>a, <3>1, <3>3 DEF BoundaryTyped
    <3> QED BY <1>a, <3>2, <3>3
  <2>3. Contexts'
    <3>1. boundary'.run = boundary.run /\ pending' = pending
      BY <1>a, <1>13 DEF CleanupDetach, BoundaryTyped
    <3> QED BY <1>a, <3>1, <2>2 DEF Contexts
  <2>4. Readiness'
    <3>1. mgrCurrent' # mgrCurrent => mgrCurrent = boundary.run
      BY <1>a, <2>2
    <3>2. \A h \in Gen : pc[h] = "running" => h # boundary.run
      BY <1>a, <2>1
    <3> QED BY <1>a, <3>1, <3>2, <1>13 DEF CleanupDetach, Readiness
  <2>5. Generations' /\ Workers' /\ Cleanups' /\ Shutdowns' /\ Guards'
          /\ RecoverySparesNewer'
    BY <1>a, <1>13
       DEF CleanupDetach, Generations, Workers, Cleanups, Shutdowns, Guards,
           RecoverySparesNewer, Phase
  <2> QED BY <2>3, <2>4, <2>5 DEF Inv
<1>14. ASSUME CleanupDrain
      PROVE Inv'
  <2>1. boundary.run \in Gen /\ pc[boundary.run] \in {"cleaning", "done"}
    BY <1>a, <1>14, BoundaryRun DEF CleanupDrain
  <2>2. \/ /\ pending' = pending \ {boundary.run} /\ boundary.run \notin live
           /\ proc' = [proc EXCEPT ![boundary.run] = "none"]
        \/ pending' = pending /\ (proc' = proc
             \/ proc' = [proc EXCEPT ![boundary.run] = "none"])
    BY <1>a, <1>14 DEF CleanupDrain, CleanupOk, Contexts
  <2>3. \/ /\ pc[boundary.run] = "cleaning" /\ op' = op
                /\ Goto(boundary.run, "finish")
           /\ failed \subseteq failed'
           /\ boundary.run \in pending' => boundary.run \in failed'
        \/ /\ op.pc = "cleaning" /\ op.run = boundary.run
                /\ UNCHANGED <<pc, failed>>
           /\ \/ OpGoto("cleaned") /\ op.run \notin pending'
              \/ OpGoto("cleanFailed")
    <3>1. CASE boundary.holder = "run"
      <4>1. pc[boundary.run] = "cleaning"
        BY <1>a, <3>1, <2>1 DEF LocksAgree
      <4> QED BY <1>a, <3>1, <4>1, <1>14 DEF CleanupDrain, Result
    <3>2. CASE boundary.holder # "run"
      <4>1. op.pc = "cleaning" /\ op.run = boundary.run
        BY <1>a, <3>2, <1>14 DEF CleanupDrain, LocksAgree
      <4> QED BY <1>a, <3>2, <4>1, <1>14 DEF CleanupDrain
    <3> QED BY <1>a, <3>1, <3>2
  <2>4. Generations'
    BY <1>a, <2>1, <2>3, <1>14 DEF CleanupDrain, Generations, Goto, RunTyped
  <2>5. Workers'
    <3>1. CASE pc[boundary.run] = "cleaning" /\ Goto(boundary.run, "finish")
      BY <1>a, <2>1, <2>2, <2>3, <3>1, <1>14
         DEF CleanupDrain, Workers, Goto, RunTyped, WorkerTyped, WithWorker,
             AfterRun
    <3>2. CASE UNCHANGED <<pc, failed>> /\ op.pc = "cleaning"
            /\ op.run = boundary.run
      BY <1>a, <2>1, <2>2, <3>2, <1>14
         DEF CleanupDrain, Workers, Cleanups, CleanPc, WorkerTyped, WithWorker
    <3> QED BY <2>3, <3>1, <3>2
  <2>6. Contexts'
    <3>1. boundary'.step # "drain"
      BY <1>a, <1>14 DEF CleanupDrain, FreeBoundary, Held
    <3> QED BY <1>a, <3>1, <2>2, <1>14 DEF CleanupDrain, Contexts
  <2>7. Cleanups'
    <3>1. CASE pc[boundary.run] = "cleaning" /\ op' = op
            /\ Goto(boundary.run, "finish")
      BY <1>a, <2>1, <2>2, <3>1 DEF Cleanups, Goto, RunTyped
    <3>2. CASE /\ op.pc = "cleaning" /\ UNCHANGED pc
               /\ \/ OpGoto("cleaned") /\ op.run \notin pending'
                  \/ OpGoto("cleanFailed")
      BY <1>a, <3>2, OpMoves DEF Cleanups, CleanPc
    <3> QED BY <2>3, <3>1, <3>2
  <2>8. Shutdowns'
    <3>1. op'.kind = op.kind /\ op'.run = op.run /\ (op'.pc = "shutdown"
            => op.pc = "shutdown")
      BY <1>a, <2>3, OpMoves
    <3>2. exited => boundary.run \notin pending /\ pc[boundary.run] = "done"
      BY <1>a, <2>1, <1>14 DEF Shutdowns
    <3> QED BY <1>a, <3>1, <3>2, <2>1, <2>2, <2>3, <1>14
               DEF CleanupDrain, Shutdowns, Goto, RunTyped
  <2>9. Phase' = Phase
    BY <1>a, <1>14, OpMoves, KindAt DEF CleanupDrain, Phase, LocksAgree
  <2>10. Guards'
    BY <1>a, <1>14, <2>9 DEF CleanupDrain, Guards
  <2>11. Readiness'
    BY <1>a, <1>14, <2>1, <2>2, <2>3
       DEF CleanupDrain, Readiness, Result, Goto, RunTyped
  <2>12. RecoverySparesNewer'
    BY <1>a, <1>14, <2>1, <2>2, <2>3, OpMoves
       DEF CleanupDrain, RecoverySparesNewer
  <2> QED BY <2>4, <2>5, <2>6, <2>7, <2>8, <2>10, <2>11, <2>12 DEF Inv

\* Start and Restart.
<1>15. ASSUME Start
      PROVE Inv'
  <2>1. Generations'
    BY <1>a, <1>15, BeginRunFacts, Vacant
       DEF Start, Generations, None, NoGeneration, BeginStart, RunTyped
  <2>2. Workers'
    BY <1>a, <1>15, BeginRunFacts, Vacant
       DEF Start, Workers, WithWorker, AfterRun, RunTyped
  <2>3. Cleanups'
    <3>1. \/ op'.pc \notin CleanPc
          \/ OpPick("clean", current) /\ Done(current) /\ current \in Gen
               /\ UNCHANGED pc
      BY <1>a, <1>15, <1>b, OpMoves DEF Start, StartOver, CleanPc
    <3> QED BY <1>a, <3>1, OpMoves DEF Cleanups, Done, CleanPc
  <2>4. Shutdowns'
    BY <1>a, <1>15, OpMoves, BeginRunFacts, Vacant
       DEF Start, Shutdowns, None, StartOver, RunTyped, OpTyped, OpAt
  <2>5. Phase' = Phase
    BY <1>a, <1>15, OpMoves, KindAt
       DEF Start, Phase, SwitchPc, CleanPc, StartOver, SwitchKind
  <2>6. Guards'
    BY <1>a, <1>15, <2>5 DEF Start, Guards
  <2>7. Readiness'
    BY <1>a, <1>15, BeginRunFacts, Vacant
       DEF Start, Readiness, BeginStart, RunTyped
  <2>8. RecoverySparesNewer'
    <3>1. op'.kind # "recover"
      BY <1>a, <1>15, OpMoves DEF Start, StartOver, OpTyped, OpAt
    <3> QED BY <1>a, <3>1 DEF RecoverySparesNewer
  <2>9. Contexts'
    BY <1>a, <1>15 DEF Start, Contexts
  <2> QED BY <2>1, <2>2, <2>3, <2>4, <2>6, <2>7, <2>8, <2>9 DEF Inv
<1>16. ASSUME StartWait
      PROVE Inv'
  <2>1. Cleanups'
    BY <1>a, <1>16, OpMoves DEF StartWait, Cleanups, CleanPc, RunTyped
  <2>2. Shutdowns'
    BY <1>a, <1>16, OpMoves
       DEF StartWait, Shutdowns, None, RunTyped, OpTyped, OpAt
  <2>3. Phase' = Phase
    BY <1>a, <1>16, OpMoves, KindAt
       DEF StartWait, Phase, SwitchPc, CleanPc, SwitchKind
  <2>4. Guards'
    BY <1>a, <1>16, <2>3 DEF StartWait, Guards
  <2>5. RecoverySparesNewer'
    BY <1>a, <1>16, OpMoves DEF StartWait, RecoverySparesNewer
  <2>6. Generations' /\ Workers' /\ Contexts' /\ Readiness'
    BY <1>a, <1>16 DEF StartWait, Generations, Workers, Contexts, Readiness
  <2> QED BY <2>1, <2>2, <2>4, <2>5, <2>6 DEF Inv
<1>17. ASSUME StartCleaned
      PROVE Inv'
  <2>1. \/ current' = current
        \/ /\ current' = None /\ current = op.run /\ op.run \in Gen
           /\ pc[op.run] = "done" /\ op.run \notin pending
    BY <1>a, <1>17 DEF StartCleaned, Cleanups, CleanPc
  <2>2. Generations'
    BY <1>a, <2>1, <1>17 DEF StartCleaned, Generations
  <2>3. Workers'
    BY <1>a, <2>1, <1>17 DEF StartCleaned, Workers
  <2>4. Cleanups'
    BY <1>a, <1>17, <2>1, OpMoves DEF StartCleaned, Cleanups, CleanPc, RunTyped
  <2>5. Shutdowns'
    BY <1>a, <1>17, <2>1, OpMoves
       DEF StartCleaned, Shutdowns, None, RunTyped, OpTyped, OpAt
  <2>6. Phase' = Phase
    BY <1>a, <1>17, OpMoves, KindAt
       DEF StartCleaned, Phase, SwitchPc, CleanPc, SwitchKind
  <2>7. Guards'
    <3>1. CASE ReleaseManagerStopGuard(op.run)
      BY <1>a, <3>1, <2>6, <1>17, GuardReleased
         DEF StartCleaned, OpTyped, OpAt, WithRun, CleanPc
    <3>2. CASE UNCHANGED guardVars
      BY <1>a, <3>2, <2>6, <1>17 DEF StartCleaned, Guards
    <3> QED BY <1>a, <3>1, <3>2, <1>17 DEF StartCleaned
  <2>8. RecoverySparesNewer'
    BY <1>a, <1>17, <2>1, OpMoves DEF StartCleaned, RecoverySparesNewer
  <2>9. Contexts' /\ Readiness'
    BY <1>a, <1>17 DEF StartCleaned, Contexts, Readiness
  <2> QED BY <2>2, <2>3, <2>4, <2>5, <2>7, <2>8, <2>9 DEF Inv
<1>18. ASSUME Restart
      PROVE Inv'
  <2>1. Cleanups'
    BY <1>a, <1>18, OpMoves DEF Restart, Cleanups, CleanPc, RunTyped
  <2>2. Shutdowns'
    BY <1>a, <1>18, OpMoves
       DEF Restart, Shutdowns, None, RunTyped, OpTyped, OpAt
  <2>3. Phase' = Phase
    BY <1>a, <1>18, OpMoves, KindAt
       DEF Restart, Phase, SwitchPc, CleanPc, SwitchKind
  <2>4. Guards'
    BY <1>a, <1>18, <2>3 DEF Restart, Guards
  <2>5. RecoverySparesNewer'
    BY <1>a, <1>18, OpMoves DEF Restart, RecoverySparesNewer
  <2>6. Generations' /\ Workers' /\ Contexts' /\ Readiness'
    BY <1>a, <1>18 DEF Restart, Generations, Workers, Contexts, Readiness
  <2> QED BY <2>1, <2>2, <2>4, <2>5, <2>6 DEF Inv
<1>19. ASSUME OpStopPick
      PROVE Inv'
  <2>1. Cleanups'
    BY <1>a, <1>19, OpMoves
       DEF OpStopPick, Cleanups, CleanPc, AfterStop, RunTyped
  <2>2. Shutdowns'
    BY <1>a, <1>19, OpMoves
       DEF OpStopPick, Shutdowns, None, AfterStop, RunTyped, OpTyped, OpAt
  <2>3. Phase' = Phase
    BY <1>a, <1>19, OpMoves, KindAt
       DEF OpStopPick, Phase, SwitchPc, CleanPc, AfterStop, SwitchKind
  <2>4. Guards'
    BY <1>a, <1>19, <2>3 DEF OpStopPick, Guards
  <2>5. RecoverySparesNewer'
    BY <1>a, <1>19, OpMoves DEF OpStopPick, RecoverySparesNewer, AfterStop
  <2>6. Generations' /\ Workers' /\ Contexts' /\ Readiness'
    BY <1>a, <1>19 DEF OpStopPick, Generations, Workers, Contexts, Readiness
  <2> QED BY <2>1, <2>2, <2>4, <2>5, <2>6 DEF Inv
<1>20. ASSUME OpStopLock
      PROVE Inv'
  <2>1. machine'.gen = machine.gen /\ (machine' = machine
          \/ machine'.state \notin {"Starting", "Ready"})
    BY <1>a, <1>20, MachineMoves DEF OpStopLock
  <2>2. Generations'
    BY <1>a, <1>20, <2>1
       DEF OpStopLock, Generations, None, NoGeneration, RunTyped
  <2>3. Contexts'
    <3>1. boundary'.step # "drain" \/ UNCHANGED boundary
      BY <1>a, <1>20 DEF OpStopLock, Held, FreeBoundary
    <3> QED BY <1>a, <3>1, <1>20 DEF OpStopLock, Contexts
  <2>4. Cleanups'
    BY <1>a, <1>20, <2>1, OpMoves
       DEF OpStopLock, Cleanups, CleanPc, AfterStop, RunTyped
  <2>5. Shutdowns'
    BY <1>a, <1>20, <2>1, OpMoves
       DEF OpStopLock, Shutdowns, None, AfterStop, RunTyped, OpTyped, OpAt
  <2>6. Phase' = Phase
    BY <1>a, <1>20, OpMoves, KindAt
       DEF OpStopLock, Phase, SwitchPc, CleanPc, AfterStop, SwitchKind
  <2>7. Guards'
    BY <1>a, <1>20, <2>6 DEF OpStopLock, Guards
  <2>8. Readiness'
    BY <1>a, <1>20, <2>1 DEF OpStopLock, Readiness, RunTyped
  <2>9. RecoverySparesNewer'
    BY <1>a, <1>20, <2>1, OpMoves DEF OpStopLock, RecoverySparesNewer, AfterStop
  <2>10. Workers'
    BY <1>a, <1>20 DEF OpStopLock, Workers
  <2> QED BY <2>2, <2>3, <2>4, <2>5, <2>7, <2>8, <2>9, <2>10 DEF Inv
<1>21. ASSUME OpStopGuard
      PROVE Inv'
  <2>1. Contexts'
    <3>1. boundary'.step # "drain" \/ UNCHANGED boundary
      BY <1>a, <1>21 DEF OpStopGuard, Held, FreeBoundary
    <3> QED BY <1>a, <3>1, <1>21 DEF OpStopGuard, Contexts
  <2>2. Cleanups'
    BY <1>a, <1>21, OpMoves
       DEF OpStopGuard, Cleanups, CleanPc, AfterStop, RunTyped
  <2>3. Shutdowns'
    BY <1>a, <1>21, OpMoves
       DEF OpStopGuard, Shutdowns, None, AfterStop, RunTyped, OpTyped, OpAt
  <2>4. Phase' = Phase
    BY <1>a, <1>21, OpMoves, KindAt
       DEF OpStopGuard, Phase, SwitchPc, CleanPc, AfterStop, SwitchKind
  <2>5. Guards'
    BY <1>a, <2>4, <1>21, GuardTaken DEF OpStopGuard, OpTyped, OpAt, WithRun
  <2>6. RecoverySparesNewer'
    BY <1>a, <1>21, OpMoves DEF OpStopGuard, RecoverySparesNewer, AfterStop
  <2>7. Generations' /\ Workers' /\ Readiness'
    BY <1>a, <1>21 DEF OpStopGuard, Generations, Workers, Readiness
  <2> QED BY <2>1, <2>2, <2>3, <2>5, <2>6, <2>7 DEF Inv
<1>22. ASSUME RestartWait
      PROVE Inv'
  <2>1. Cleanups'
    BY <1>a, <1>22, OpMoves DEF RestartWait, Cleanups, CleanPc, RunTyped
  <2>2. Shutdowns'
    BY <1>a, <1>22, OpMoves
       DEF RestartWait, Shutdowns, None, RunTyped, OpTyped, OpAt
  <2>3. Phase' = Phase
    BY <1>a, <1>22, OpMoves, KindAt
       DEF RestartWait, Phase, SwitchPc, CleanPc, SwitchKind
  <2>4. Guards'
    BY <1>a, <1>22, <2>3 DEF RestartWait, Guards
  <2>5. RecoverySparesNewer'
    BY <1>a, <1>22, OpMoves DEF RestartWait, RecoverySparesNewer
  <2>6. Generations' /\ Workers' /\ Contexts' /\ Readiness'
    BY <1>a, <1>22 DEF RestartWait, Generations, Workers, Contexts, Readiness
  <2> QED BY <2>1, <2>2, <2>4, <2>5, <2>6 DEF Inv

\* A plugin-fault change.
<1>23. ASSUME FaultBegin
      PROVE Inv'
  <2>1. Cleanups'
    BY <1>a, <1>23, OpMoves DEF FaultBegin, Cleanups, CleanPc, RunTyped
  <2>2. Shutdowns'
    BY <1>a, <1>23, OpMoves
       DEF FaultBegin, Shutdowns, None, RunTyped, OpTyped, OpAt
  <2>3. Phase' = Phase
    BY <1>a, <1>23, OpMoves, KindAt
       DEF FaultBegin, Phase, SwitchPc, CleanPc, SwitchKind
  <2>4. Guards'
    BY <1>a, <1>23, <2>3 DEF FaultBegin, Guards
  <2>5. RecoverySparesNewer'
    BY <1>a, <1>23, OpMoves DEF FaultBegin, RecoverySparesNewer
  <2>6. Generations' /\ Workers' /\ Contexts' /\ Readiness'
    BY <1>a, <1>23 DEF FaultBegin, Generations, Workers, Contexts, Readiness
  <2> QED BY <2>1, <2>2, <2>4, <2>5, <2>6 DEF Inv
<1>24. ASSUME FaultEnd
      PROVE Inv'
  <2>1. Cleanups'
    BY <1>a, <1>24, OpMoves DEF FaultEnd, Cleanups, CleanPc, RunTyped
  <2>2. Shutdowns'
    BY <1>a, <1>24, OpMoves
       DEF FaultEnd, Shutdowns, None, RunTyped, OpTyped, OpAt
  <2>3. Phase' = Phase
    BY <1>a, <1>24, OpMoves, KindAt
       DEF FaultEnd, Phase, SwitchPc, CleanPc, SwitchKind
  <2>4. Guards'
    BY <1>a, <1>24, <2>3 DEF FaultEnd, Guards
  <2>5. RecoverySparesNewer'
    BY <1>a, <1>24, OpMoves DEF FaultEnd, RecoverySparesNewer
  <2>6. Generations' /\ Workers' /\ Contexts' /\ Readiness'
    BY <1>a, <1>24 DEF FaultEnd, Generations, Workers, Contexts, Readiness
  <2> QED BY <2>1, <2>2, <2>4, <2>5, <2>6 DEF Inv

\* ShutdownForApp under switchMu.
<1>25. ASSUME ShutdownRun
      PROVE Inv'
  <2>1. machine'.gen = machine.gen /\ (machine' = machine
          \/ machine'.state \notin {"Starting", "Ready"})
    BY <1>a, <1>25, MachineMoves DEF ShutdownRun, ShutdownDone, ShutdownComplete
  <2>2. Generations'
    BY <1>a, <1>25, <2>1
       DEF ShutdownRun, Generations, None, NoGeneration, RunTyped,
           ShutdownComplete, ShutdownDone
  <2>3. Cleanups'
    BY <1>a, <1>25, <1>b, OpMoves
       DEF ShutdownRun, ShutdownDone, ShutdownComplete, Done, Cleanups, CleanPc
  <2>4. Shutdowns'
    <3>1. ~exited
      BY <1>a, <1>25 DEF ShutdownRun, Shutdowns, OpTyped, OpAt
    <3>2. CASE exited'
      <4>1. op'.kind = "none" /\ UNCHANGED <<pc, pending>>
        BY <1>a, <3>1, <3>2, <1>25, OpMoves
           DEF ShutdownRun, ShutdownDone, ShutdownComplete
      <4>2. pending = {} /\ \A h \in Gen : pc[h] \in {"unborn", "done"}
        BY <1>a, <3>1, <3>2, Vacant, <1>25
           DEF ShutdownRun, ShutdownDone, Done, Workers, Generations,
               WorkerTyped
      <4> QED BY <1>a, <3>2, <4>1, <4>2 DEF Shutdowns
    <3>3. CASE ~exited'
      BY <1>a, <3>3, <1>25, OpMoves
         DEF ShutdownRun, ShutdownDone, ShutdownComplete, Shutdowns, OpTyped,
             OpAt
    <3> QED BY <1>a, <3>2, <3>3
  <2>5. Phase' = Phase
    BY <1>a, <1>25, OpMoves, KindAt
       DEF ShutdownRun, Phase, SwitchPc, CleanPc, ShutdownComplete,
           ShutdownDone, SwitchKind
  <2>6. Guards'
    BY <1>a, <1>25, <2>5 DEF ShutdownRun, Guards
  <2>7. Readiness'
    BY <1>a, <1>25, <2>1 DEF ShutdownRun, Readiness, RunTyped
  <2>8. RecoverySparesNewer'
    BY <1>a, <1>25, <2>1, OpMoves
       DEF ShutdownRun, RecoverySparesNewer, ShutdownComplete, ShutdownDone
  <2>9. Workers' /\ Contexts'
    BY <1>a, <1>25 DEF ShutdownRun, Workers, Contexts
  <2> QED BY <2>2, <2>3, <2>4, <2>6, <2>7, <2>8, <2>9 DEF Inv
<1>26. ASSUME ShutdownWait
      PROVE Inv'
  <2>1. machine'.gen = machine.gen /\ (machine' = machine
          \/ machine'.state \notin {"Starting", "Ready"})
    BY <1>a, <1>26, MachineMoves
       DEF ShutdownWait, ShutdownDone, ShutdownComplete
  <2>2. Generations'
    BY <1>a, <1>26, <2>1
       DEF ShutdownWait, Generations, None, NoGeneration, RunTyped,
           ShutdownComplete, ShutdownDone
  <2>3. Cleanups'
    BY <1>a, <1>26, OpMoves
       DEF ShutdownWait, ShutdownDone, ShutdownComplete, Done, Cleanups,
           CleanPc, OpTyped, OpAt, WithRun
  <2>4. Shutdowns'
    <3>1. ~exited
      BY <1>a, <1>26 DEF ShutdownWait, Shutdowns, OpTyped, OpAt
    <3>2. CASE exited'
      <4>1. op'.kind = "none" /\ UNCHANGED <<pc, pending>>
        BY <1>a, <3>1, <3>2, <1>26, OpMoves
           DEF ShutdownWait, ShutdownDone, ShutdownComplete
      <4>2. pending = {} /\ \A h \in Gen : pc[h] \in {"unborn", "done"}
        <5>1. pc[op.run] = "done" /\ op.run \notin pending
                /\ current \in {None, op.run}
          BY <1>a, <3>1, <3>2, <1>26
             DEF ShutdownWait, ShutdownDone, Done, Shutdowns, OpTyped, OpAt
        <5> QED BY <1>a, <5>1, Vacant
                   DEF Workers, Generations, WorkerTyped
      <4> QED BY <1>a, <3>2, <4>1, <4>2 DEF Shutdowns
    <3>3. CASE ~exited'
      BY <1>a, <3>3, <1>26, OpMoves
         DEF ShutdownWait, ShutdownDone, ShutdownComplete, Shutdowns, OpTyped,
             OpAt
    <3> QED BY <1>a, <3>2, <3>3
  <2>5. Phase' = Phase
    BY <1>a, <1>26, OpMoves, KindAt
       DEF ShutdownWait, Phase, SwitchPc, CleanPc, ShutdownComplete,
           ShutdownDone, SwitchKind
  <2>6. Guards'
    BY <1>a, <1>26, <2>5 DEF ShutdownWait, Guards
  <2>7. Readiness'
    BY <1>a, <1>26, <2>1 DEF ShutdownWait, Readiness, RunTyped
  <2>8. RecoverySparesNewer'
    BY <1>a, <1>26, <2>1, OpMoves
       DEF ShutdownWait, RecoverySparesNewer, ShutdownComplete, ShutdownDone
  <2>9. Workers' /\ Contexts'
    BY <1>a, <1>26 DEF ShutdownWait, Workers, Contexts
  <2> QED BY <2>2, <2>3, <2>4, <2>6, <2>7, <2>8, <2>9 DEF Inv
<1>27. ASSUME ShutdownCleaned
      PROVE Inv'
  <2>1. machine'.gen = machine.gen /\ (machine' = machine
          \/ machine'.state \notin {"Starting", "Ready"})
    BY <1>a, <1>27, MachineMoves DEF ShutdownCleaned
  <2>2. \/ current' = current
        \/ /\ current' = None /\ current = op.run /\ op.run \in Gen
           /\ pc[op.run] = "done" /\ op.run \notin pending
    BY <1>a, <1>27 DEF ShutdownCleaned, Cleanups, CleanPc
  <2>3. Generations'
    BY <1>a, <2>2, <2>1, <1>27 DEF ShutdownCleaned, Generations
  <2>4. Workers'
    BY <1>a, <2>2, <1>27 DEF ShutdownCleaned, Workers
  <2>5. Cleanups'
    BY <1>a, <1>27, <2>1, <2>2, OpMoves
       DEF ShutdownCleaned, Cleanups, CleanPc, RunTyped
  <2>6. Shutdowns'
    <3>1. op'.kind = "none"
      BY <1>a, <1>27, OpMoves DEF ShutdownCleaned
    <3>2. exited' => current' = None \/ exited
      BY <1>a, <1>27 DEF ShutdownCleaned, Shutdowns, OpTyped, OpAt, CleanPc
    <3>3. ~exited
      BY <1>a, <1>27 DEF ShutdownCleaned, Shutdowns
    <3>4. current' = None => pending' = {}
            /\ \A h \in Gen : pc'[h] \in {"unborn", "done"}
      <4>1. current' = None => pending' = {}
        BY <1>a, <2>2, Vacant, <1>27 DEF ShutdownCleaned, Workers, Inv
      <4>2. current' = None => \A h \in Gen : pc'[h] \in {"unborn", "done"}
        BY <1>a, <2>2, Vacant, <1>27 DEF ShutdownCleaned, Generations
      <4> QED BY <4>1, <4>2
    <3> QED BY <1>a, <3>1, <3>2, <3>3, <3>4 DEF Shutdowns
  <2>7. Phase' = Phase
    BY <1>a, <1>27, OpMoves, KindAt
       DEF ShutdownCleaned, Phase, SwitchPc, CleanPc, SwitchKind
  <2>8. Guards'
    <3>1. CASE ReleaseManagerStopGuard(op.run)
      BY <1>a, <3>1, <2>7, <1>27, GuardReleased
         DEF ShutdownCleaned, OpTyped, OpAt, WithRun, CleanPc
    <3>2. CASE UNCHANGED guardVars
      BY <1>a, <3>2, <2>7, <1>27 DEF ShutdownCleaned, Guards
    <3> QED BY <1>a, <3>1, <3>2, <1>27 DEF ShutdownCleaned
  <2>9. Readiness'
    BY <1>a, <1>27, <2>1, <2>2 DEF ShutdownCleaned, Readiness, RunTyped
  <2>10. RecoverySparesNewer'
    BY <1>a, <1>27, <2>1, <2>2, OpMoves DEF ShutdownCleaned, RecoverySparesNewer
  <2>11. Contexts'
    BY <1>a, <1>27 DEF ShutdownCleaned, Contexts
  <2> QED BY <2>3, <2>4, <2>5, <2>6, <2>8, <2>9, <2>10, <2>11 DEF Inv

\* applyRunContextLocked.
<1>28. ASSUME SwitchBegin
      PROVE Inv'
  <2>1. Cleanups'
    BY <1>a, <1>28, OpMoves DEF SwitchBegin, Cleanups, CleanPc, RunTyped
  <2>2. Shutdowns'
    BY <1>a, <1>28, OpMoves
       DEF SwitchBegin, Shutdowns, None, RunTyped, OpTyped, OpAt
  <2>3. \/ Phase = "none" /\ Phase' = "none" /\ switching' = switching
        \/ Phase = "none" /\ Phase' = "asking" /\ switching' = TRUE
    BY <1>a, <1>28, OpMoves, KindAt DEF SwitchBegin, Phase, SwitchPc, SwitchKind
  <2>4. Guards'
    BY <1>a, <1>28, <2>3 DEF SwitchBegin, Guards
  <2>5. RecoverySparesNewer'
    BY <1>a, <1>28, OpMoves DEF SwitchBegin, RecoverySparesNewer
  <2>6. Generations' /\ Workers' /\ Contexts' /\ Readiness'
    BY <1>a, <1>28 DEF SwitchBegin, Generations, Workers, Contexts, Readiness
  <2> QED BY <2>1, <2>2, <2>4, <2>5, <2>6 DEF Inv
<1>29. ASSUME SwitchGuard
      PROVE Inv'
  <2>1. Cleanups'
    BY <1>a, <1>29, OpMoves DEF SwitchGuard, Cleanups, CleanPc, RunTyped
  <2>2. Shutdowns'
    BY <1>a, <1>29, OpMoves
       DEF SwitchGuard, Shutdowns, None, RunTyped, OpTyped, OpAt
  <2>3. \/ Phase = "asking" /\ Phase' = "none" /\ switching' = FALSE
             /\ UNCHANGED <<switchGuarded, guardVars>>
        \/ Phase = "asking" /\ Phase' = "held" /\ ~mgrSwitching
             /\ mgrSwitching' = TRUE /\ switchGuarded' = TRUE
                  /\ UNCHANGED <<switching, guarded>>
    BY <1>a, <1>29, OpMoves, KindAt DEF SwitchGuard, Phase, SwitchPc, SwitchKind
  <2>4. Guards'
    BY <1>a, <2>3 DEF Guards, SwitchGuard
  <2>5. RecoverySparesNewer'
    BY <1>a, <1>29, OpMoves DEF SwitchGuard, RecoverySparesNewer
  <2>6. Generations' /\ Workers' /\ Contexts' /\ Readiness'
    BY <1>a, <1>29 DEF SwitchGuard, Generations, Workers, Contexts, Readiness
  <2> QED BY <2>1, <2>2, <2>4, <2>5, <2>6 DEF Inv
<1>30. ASSUME SwitchResolve
      PROVE Inv'
  <2>1. Cleanups'
    BY <1>a, <1>30, OpMoves
       DEF SwitchResolve, Cleanups, CleanPc, ToCandidate, RunTyped
  <2>2. Shutdowns'
    BY <1>a, <1>30, OpMoves
       DEF SwitchResolve, Shutdowns, None, ToCandidate, RunTyped, OpTyped, OpAt
  <2>3. Phase' = Phase
    BY <1>a, <1>30, OpMoves, KindAt
       DEF SwitchResolve, Phase, SwitchPc, CleanPc, ToCandidate, SwitchKind
  <2>4. Guards'
    BY <1>a, <1>30, <2>3 DEF SwitchResolve, Guards
  <2>5. RecoverySparesNewer'
    BY <1>a, <1>30, OpMoves DEF SwitchResolve, RecoverySparesNewer, ToCandidate
  <2>6. Generations' /\ Workers' /\ Contexts' /\ Readiness'
    BY <1>a, <1>30 DEF SwitchResolve, Generations, Workers, Contexts, Readiness
  <2> QED BY <2>1, <2>2, <2>4, <2>5, <2>6 DEF Inv
<1>31. ASSUME SwitchStop
      PROVE Inv'
  <2>1. machine'.gen = machine.gen /\ (machine' = machine
          \/ machine'.state \notin {"Starting", "Ready"})
    BY <1>a, <1>31, MachineMoves DEF SwitchStop
  <2>2. Generations'
    BY <1>a, <1>31, <2>1
       DEF SwitchStop, Generations, None, NoGeneration, RunTyped
  <2>3. Cleanups'
    BY <1>a, <1>31, <2>1, OpMoves DEF SwitchStop, Cleanups, CleanPc, RunTyped
  <2>4. Shutdowns'
    BY <1>a, <1>31, <2>1, OpMoves
       DEF SwitchStop, Shutdowns, None, RunTyped, OpTyped, OpAt
  <2>5. Phase' = Phase
    BY <1>a, <1>31, OpMoves, KindAt
       DEF SwitchStop, Phase, SwitchPc, CleanPc, SwitchKind
  <2>6. Guards'
    BY <1>a, <1>31, <2>5 DEF SwitchStop, Guards
  <2>7. Readiness'
    BY <1>a, <1>31, <2>1 DEF SwitchStop, Readiness, RunTyped
  <2>8. RecoverySparesNewer'
    BY <1>a, <1>31, <2>1, OpMoves DEF SwitchStop, RecoverySparesNewer
  <2>9. Workers' /\ Contexts'
    BY <1>a, <1>31 DEF SwitchStop, Workers, Contexts
  <2> QED BY <2>2, <2>3, <2>4, <2>6, <2>7, <2>8, <2>9 DEF Inv
<1>32. ASSUME SwitchStopWait
      PROVE Inv'
  <2>1. Cleanups'
    BY <1>a, <1>32, OpMoves
       DEF SwitchStopWait, AfterOldRun, ToCandidate, Done, Cleanups, CleanPc,
           OpTyped, OpAt, WithRun
  <2>2. Shutdowns'
    BY <1>a, <1>32, OpMoves
       DEF SwitchStopWait, Shutdowns, None, AfterOldRun, ToCandidate, RunTyped,
           OpTyped, OpAt
  <2>3. Phase' = Phase
    BY <1>a, <1>32, OpMoves, KindAt
       DEF SwitchStopWait, Phase, SwitchPc, CleanPc, AfterOldRun, ToCandidate,
           SwitchKind
  <2>4. Guards'
    BY <1>a, <1>32, <2>3 DEF SwitchStopWait, Guards
  <2>5. RecoverySparesNewer'
    BY <1>a, <1>32, OpMoves
       DEF SwitchStopWait, RecoverySparesNewer, AfterOldRun, ToCandidate
  <2>6. Generations' /\ Workers' /\ Contexts' /\ Readiness'
    BY <1>a, <1>32 DEF SwitchStopWait, Generations, Workers, Contexts, Readiness
  <2> QED BY <2>1, <2>2, <2>4, <2>5, <2>6 DEF Inv
<1>33. ASSUME SwitchCleaned
      PROVE Inv'
  <2>1. machine'.gen = machine.gen /\ (machine' = machine
          \/ machine'.state \notin {"Starting", "Ready"})
    BY <1>a, <1>33, MachineMoves DEF SwitchCleaned
  <2>2. \/ current' = current
        \/ /\ current' = None /\ current = op.run /\ op.run \in Gen
           /\ pc[op.run] = "done" /\ op.run \notin pending
    BY <1>a, <1>33 DEF SwitchCleaned, Cleanups, CleanPc
  <2>3. OpGoto("swEnd") \/ OpGoto("swDecide") \/ OpGoto("swPrepare")
    BY <1>a, <1>33 DEF SwitchCleaned, AfterOldRun, ToCandidate
  <2>4. Generations'
    BY <1>a, <2>2, <2>1, <1>33 DEF SwitchCleaned, Generations
  <2>5. Workers'
    BY <1>a, <2>2, <1>33 DEF SwitchCleaned, Workers
  <2>6. Cleanups'
    BY <1>a, <2>3, OpMoves DEF Cleanups, CleanPc
  <2>7. Shutdowns'
    BY <1>a, <1>33, <2>1, <2>2, <2>3, OpMoves
       DEF SwitchCleaned, Shutdowns, None, AfterOldRun, ToCandidate, RunTyped,
           OpTyped, OpAt
  <2>8. Phase' = Phase
    <3>1. op'.kind = op.kind /\ op'.pc \in {"swEnd", "swDecide", "swPrepare"}
      BY <1>a, <2>3, OpMoves
    <3> QED BY <1>a, <3>1, <1>33 DEF SwitchCleaned, Phase
  <2>9. Guards'
    BY <1>a, <1>33, <2>8 DEF SwitchCleaned, Guards
  <2>10. Readiness'
    BY <1>a, <1>33, <2>1, <2>2, <2>3 DEF SwitchCleaned, Readiness, RunTyped
  <2>11. RecoverySparesNewer'
    BY <1>a, <1>33, <2>1, <2>2, <2>3, OpMoves
       DEF SwitchCleaned, RecoverySparesNewer, AfterOldRun, ToCandidate
  <2>12. Contexts'
    BY <1>a, <1>33 DEF SwitchCleaned, Contexts
  <2> QED BY <2>4, <2>5, <2>6, <2>7, <2>9, <2>10, <2>11, <2>12 DEF Inv
<1>34. ASSUME SwitchPrepare
      PROVE Inv'
  <2>1. OpGoto("swDecide") \/ OpFollow(FALSE)
    BY <1>a, <1>34 DEF SwitchPrepare, RunResolvedContext
  <2>2. op'.kind = op.kind /\ op.kind \in SwitchKind
          /\ op'.pc \in {"swDecide", "swWait"}
    BY <1>a, <1>34, <2>1, KindAt
       DEF SwitchPrepare, OpTyped, OpGoto, OpFollow, SwitchPc
  <2>3. Generations'
    BY <1>a, <1>34, <2>1, <2>2, BeginRunFacts, Vacant
       DEF SwitchPrepare, Generations, None, NoGeneration, RunResolvedContext,
           RunTyped
  <2>4. Workers'
    BY <1>a, <1>34, <2>1, <2>2, BeginRunFacts, Vacant
       DEF SwitchPrepare, Workers, WithWorker, AfterRun, RunResolvedContext,
           RunTyped
  <2>5. Cleanups'
    BY <1>a, <2>2 DEF Cleanups, CleanPc
  <2>6. Shutdowns'
    BY <1>a, <2>2, <1>34 DEF SwitchPrepare, Shutdowns, SwitchKind
  <2>7. Phase' = Phase
    BY <1>a, <1>34, <2>2 DEF SwitchPrepare, Phase
  <2>8. Guards'
    BY <1>a, <1>34, <2>7 DEF SwitchPrepare, Guards
  <2>9. Readiness'
    BY <1>a, <1>34, <2>1, <2>2, BeginRunFacts, Vacant
       DEF SwitchPrepare, Readiness, RunResolvedContext, RunTyped
  <2>10. RecoverySparesNewer'
    BY <1>a, <1>34, <2>1, <2>2, OpMoves, BeginRunFacts, Vacant
       DEF SwitchPrepare, RecoverySparesNewer, RunResolvedContext, OpFollow,
           OpTyped
  <2>11. Contexts'
    BY <1>a, <1>34 DEF SwitchPrepare, Contexts
  <2> QED BY <2>3, <2>4, <2>5, <2>6, <2>8, <2>9, <2>10, <2>11 DEF Inv
<1>35. ASSUME SwitchWait
      PROVE Inv'
  <2>1. Cleanups'
    BY <1>a, <1>35, OpMoves DEF SwitchWait, Cleanups, CleanPc, RunTyped
  <2>2. Shutdowns'
    BY <1>a, <1>35, OpMoves
       DEF SwitchWait, Shutdowns, None, RunTyped, OpTyped, OpAt
  <2>3. Phase' = Phase
    BY <1>a, <1>35, OpMoves, KindAt
       DEF SwitchWait, Phase, SwitchPc, CleanPc, SwitchKind
  <2>4. Guards'
    BY <1>a, <1>35, <2>3 DEF SwitchWait, Guards
  <2>5. RecoverySparesNewer'
    BY <1>a, <1>35, OpMoves DEF SwitchWait, RecoverySparesNewer
  <2>6. Generations' /\ Workers' /\ Contexts' /\ Readiness'
    BY <1>a, <1>35 DEF SwitchWait, Generations, Workers, Contexts, Readiness
  <2> QED BY <2>1, <2>2, <2>4, <2>5, <2>6 DEF Inv
<1>36. ASSUME SwitchDrain
      PROVE Inv'
  <2>1. Cleanups'
    BY <1>a, <1>36, OpMoves DEF SwitchDrain, Cleanups, CleanPc, RunTyped
  <2>2. Shutdowns'
    BY <1>a, <1>36, OpMoves
       DEF SwitchDrain, Shutdowns, None, RunTyped, OpTyped, OpAt
  <2>3. Phase' = Phase
    BY <1>a, <1>36, OpMoves, KindAt
       DEF SwitchDrain, Phase, SwitchPc, CleanPc, SwitchKind
  <2>4. Guards'
    BY <1>a, <1>36, <2>3 DEF SwitchDrain, Guards
  <2>5. RecoverySparesNewer'
    BY <1>a, <1>36, OpMoves DEF SwitchDrain, RecoverySparesNewer
  <2>6. Generations' /\ Workers' /\ Contexts' /\ Readiness'
    BY <1>a, <1>36 DEF SwitchDrain, Generations, Workers, Contexts, Readiness
  <2> QED BY <2>1, <2>2, <2>4, <2>5, <2>6 DEF Inv
<1>37. ASSUME SwitchDecide
      PROVE Inv'
  <2>1. OpGoto("swEnd") \/ OpFollow(TRUE)
    BY <1>a, <1>37 DEF SwitchDecide, RunResolvedContext
  <2>2. op'.kind = op.kind /\ op.kind \in SwitchKind
          /\ op'.pc \in {"swEnd", "swWait"}
    BY <1>a, <1>37, <2>1, KindAt
       DEF SwitchDecide, OpTyped, OpGoto, OpFollow, SwitchPc
  <2>3. Generations'
    BY <1>a, <1>37, <2>1, <2>2, BeginRunFacts, Vacant
       DEF SwitchDecide, Generations, None, NoGeneration, RunResolvedContext,
           RunTyped
  <2>4. Workers'
    BY <1>a, <1>37, <2>1, <2>2, BeginRunFacts, Vacant
       DEF SwitchDecide, Workers, WithWorker, AfterRun, RunResolvedContext,
           RunTyped
  <2>5. Cleanups'
    BY <1>a, <2>2 DEF Cleanups, CleanPc
  <2>6. Shutdowns'
    BY <1>a, <2>2, <1>37 DEF SwitchDecide, Shutdowns, SwitchKind
  <2>7. Phase' = Phase
    BY <1>a, <1>37, <2>2 DEF SwitchDecide, Phase
  <2>8. Guards'
    BY <1>a, <1>37, <2>7 DEF SwitchDecide, Guards
  <2>9. Readiness'
    BY <1>a, <1>37, <2>1, <2>2, BeginRunFacts, Vacant
       DEF SwitchDecide, Readiness, RunResolvedContext, RunTyped
  <2>10. RecoverySparesNewer'
    BY <1>a, <1>37, <2>1, <2>2, OpMoves, BeginRunFacts, Vacant
       DEF SwitchDecide, RecoverySparesNewer, RunResolvedContext, OpFollow,
           OpTyped
  <2>11. Contexts'
    BY <1>a, <1>37 DEF SwitchDecide, Contexts
  <2> QED BY <2>3, <2>4, <2>5, <2>6, <2>8, <2>9, <2>10, <2>11 DEF Inv
<1>38. ASSUME SwitchEnd
      PROVE Inv'
  <2>1. Cleanups'
    BY <1>a, <1>38, OpMoves DEF SwitchEnd, Cleanups, CleanPc, RunTyped
  <2>2. Shutdowns'
    BY <1>a, <1>38, OpMoves
       DEF SwitchEnd, Shutdowns, None, RunTyped, OpTyped, OpAt
  <2>3. Phase = "held" /\ Phase' = "ended"
    BY <1>a, <1>38, OpMoves, KindAt DEF SwitchEnd, Phase, SwitchPc
  <2>4. Guards'
    BY <1>a, <1>38, <2>3 DEF SwitchEnd, Guards, KeepGuard
  <2>5. RecoverySparesNewer'
    BY <1>a, <1>38, OpMoves DEF SwitchEnd, RecoverySparesNewer
  <2>6. Generations' /\ Workers' /\ Contexts' /\ Readiness'
    BY <1>a, <1>38 DEF SwitchEnd, Generations, Workers, Contexts, Readiness
  <2> QED BY <2>1, <2>2, <2>4, <2>5, <2>6 DEF Inv
<1>39. ASSUME SwitchRelease
      PROVE Inv'
  <2>1. Cleanups'
    BY <1>a, <1>39, OpMoves DEF SwitchRelease, Cleanups, CleanPc, RunTyped
  <2>2. Shutdowns'
    BY <1>a, <1>39, OpMoves
       DEF SwitchRelease, Shutdowns, None, RunTyped, OpTyped, OpAt
  <2>3. Phase = "ended" /\ Phase' = "none"
    BY <1>a, <1>39, OpMoves, KindAt
       DEF SwitchRelease, Phase, SwitchPc, SwitchKind
  <2>4. Guards'
    BY <1>a, <1>39, <2>3 DEF SwitchRelease, Guards
  <2>5. RecoverySparesNewer'
    BY <1>a, <1>39, OpMoves DEF SwitchRelease, RecoverySparesNewer
  <2>6. Generations' /\ Workers' /\ Contexts' /\ Readiness'
    BY <1>a, <1>39 DEF SwitchRelease, Generations, Workers, Contexts, Readiness
  <2> QED BY <2>1, <2>2, <2>4, <2>5, <2>6 DEF Inv

\* The holder of switchMu takes the boundary.
<1>40. ASSUME OpCleanupBegin
      PROVE Inv'
  <2>1. Contexts'
    <3>1. boundary'.step # "drain" \/ UNCHANGED boundary
      BY <1>a, <1>40 DEF OpCleanupBegin, Held, FreeBoundary
    <3> QED BY <1>a, <3>1, <1>40 DEF OpCleanupBegin, Contexts
  <2>2. Cleanups'
    BY <1>a, <1>40, OpMoves DEF OpCleanupBegin, Cleanups, CleanPc, RunTyped
  <2>3. Shutdowns'
    BY <1>a, <1>40, OpMoves
       DEF OpCleanupBegin, Shutdowns, None, RunTyped, OpTyped, OpAt
  <2>4. Phase' = Phase
    BY <1>a, <1>40, OpMoves, KindAt DEF OpCleanupBegin, Phase, LocksAgree
  <2>5. Guards'
    <3>1. CASE BeginManagerStopGuard(op.run)
      BY <1>a, <3>1, <2>4, <1>40, GuardTaken
         DEF OpCleanupBegin, OpTyped, OpAt, WithRun, CleanPc
    <3>2. CASE UNCHANGED guardVars
      BY <1>a, <3>2, <2>4, <1>40 DEF OpCleanupBegin, Guards
    <3> QED BY <1>a, <3>1, <3>2, <1>40 DEF OpCleanupBegin
  <2>6. RecoverySparesNewer'
    BY <1>a, <1>40, OpMoves DEF OpCleanupBegin, RecoverySparesNewer
  <2>7. Generations' /\ Workers' /\ Readiness'
    BY <1>a, <1>40 DEF OpCleanupBegin, Generations, Workers, Readiness
  <2> QED BY <2>1, <2>2, <2>3, <2>5, <2>6, <2>7 DEF Inv

\* Host.Cancel past its look at switching.
<1>41. ASSUME CancelPick
      PROVE Inv'
  <2>1. Generations' /\ Workers' /\ Contexts' /\ Cleanups' /\ Shutdowns'
          /\ Guards' /\ Readiness' /\ RecoverySparesNewer'
    BY <1>a, <1>41
       DEF CancelPick, Generations, Workers, Contexts, Cleanups, Shutdowns,
           Guards, Readiness, RecoverySparesNewer, Phase
  <2> QED BY <2>1 DEF Inv
<1>42. ASSUME CancelLock
      PROVE Inv'
  <2>1. machine'.gen = machine.gen /\ (machine' = machine
          \/ machine'.state \notin {"Starting", "Ready"})
    BY <1>a, <1>42, MachineMoves DEF CancelLock
  <2>2. Generations'
    BY <1>a, <1>42, <2>1
       DEF CancelLock, Generations, None, NoGeneration, RunTyped
  <2>3. Contexts'
    <3>1. boundary'.step # "drain" \/ UNCHANGED boundary
      BY <1>a, <1>42 DEF CancelLock, Held, FreeBoundary
    <3> QED BY <1>a, <3>1, <1>42 DEF CancelLock, Contexts
  <2>4. Readiness'
    BY <1>a, <1>42, <2>1 DEF CancelLock, Readiness, RunTyped
  <2>5. RecoverySparesNewer'
    BY <1>a, <1>42, <2>1 DEF CancelLock, RecoverySparesNewer
  <2>6. Workers' /\ Cleanups' /\ Shutdowns' /\ Guards'
    BY <1>a, <1>42 DEF CancelLock, Workers, Cleanups, Shutdowns, Guards, Phase
  <2> QED BY <2>2, <2>3, <2>4, <2>5, <2>6 DEF Inv
<1>43. ASSUME CancelGuard
      PROVE Inv'
  <2>1. Contexts'
    <3>1. boundary'.step # "drain" \/ UNCHANGED boundary
      BY <1>a, <1>43 DEF CancelGuard, Held, FreeBoundary
    <3> QED BY <1>a, <3>1, <1>43 DEF CancelGuard, Contexts
  <2>2. Guards'
    BY <1>a, <1>43, GuardTaken DEF CancelGuard, Phase, CallTyped
  <2>3. Generations' /\ Workers' /\ Cleanups' /\ Shutdowns' /\ Readiness'
          /\ RecoverySparesNewer'
    BY <1>a, <1>43
       DEF CancelGuard, Generations, Workers, Cleanups, Shutdowns, Readiness,
           RecoverySparesNewer
  <2> QED BY <2>1, <2>2, <2>3 DEF Inv

\* Calls and cancellations.
<1>44. ASSUME Call
      PROVE Inv'
  <2>1. Cleanups'
    BY <1>a, <1>44, OpMoves
       DEF Call, Cleanups, CleanPc, OpTake, NewOp, SwitchKind, RunTyped
  <2>2. Shutdowns'
    BY <1>a, <1>44, OpMoves
       DEF Call, Shutdowns, None, OpTake, NewOp, SwitchKind, RunTyped, OpTyped,
           OpAt
  <2>3. Phase' = Phase
    BY <1>a, <1>44, KindAt
       DEF Call, Phase, OpTake, NewOp, SwitchKind, OpTyped, OpAt
  <2>4. Guards'
    BY <1>a, <1>44, <2>3 DEF Call, Guards
  <2>5. RecoverySparesNewer'
    BY <1>a, <1>44, OpMoves
       DEF Call, RecoverySparesNewer, OpTake, NewOp, SwitchKind
  <2>6. Generations' /\ Workers' /\ Contexts' /\ Readiness'
    BY <1>a, <1>44 DEF Call, Generations, Workers, Contexts, Readiness
  <2> QED BY <2>1, <2>2, <2>4, <2>5, <2>6 DEF Inv
<1>45. ASSUME CallerCancel
      PROVE Inv'
  <2>1. Cleanups'
    BY <1>a, <1>45, OpMoves
       DEF CallerCancel, Cleanups, CleanPc, OpTyped, RunTyped
  <2>2. Shutdowns'
    BY <1>a, <1>45, OpMoves
       DEF CallerCancel, Shutdowns, None, OpTyped, RunTyped, OpAt
  <2>3. Phase' = Phase
    BY <1>a, <1>45, KindAt DEF CallerCancel, Phase, OpTyped
  <2>4. Guards'
    BY <1>a, <1>45, <2>3 DEF CallerCancel, Guards
  <2>5. RecoverySparesNewer'
    BY <1>a, <1>45, OpMoves DEF CallerCancel, RecoverySparesNewer, OpTyped
  <2>6. Generations' /\ Workers' /\ Contexts' /\ Readiness'
    BY <1>a, <1>45 DEF CallerCancel, Generations, Workers, Contexts, Readiness
  <2> QED BY <2>1, <2>2, <2>4, <2>5, <2>6 DEF Inv
<1>46. ASSUME Cancel
      PROVE Inv'
  <2>1. Cleanups'
    BY <1>a, <1>46, OpMoves
       DEF Cancel, Cleanups, CleanPc, CancelVersionOperation, OpTyped, RunTyped
  <2>2. Shutdowns'
    BY <1>a, <1>46, OpMoves
       DEF Cancel, Shutdowns, None, CancelVersionOperation, OpTyped, RunTyped,
           OpAt
  <2>3. Phase' = Phase
    BY <1>a, <1>46, KindAt DEF Cancel, Phase, OpTyped, CancelVersionOperation
  <2>4. Guards'
    BY <1>a, <1>46, <2>3 DEF Cancel, Guards
  <2>5. RecoverySparesNewer'
    BY <1>a, <1>46, OpMoves
       DEF Cancel, RecoverySparesNewer, CancelVersionOperation, OpTyped
  <2>6. Generations' /\ Workers' /\ Contexts' /\ Readiness'
    BY <1>a, <1>46 DEF Cancel, Generations, Workers, Contexts, Readiness
  <2> QED BY <2>1, <2>2, <2>4, <2>5, <2>6 DEF Inv
<1>47. ASSUME QuitCall
      PROVE Inv'
  <2>1. Cleanups'
    BY <1>a, <1>47, OpMoves
       DEF QuitCall, Cleanups, CleanPc, CancelVersionOperation, OpTyped,
           RunTyped
  <2>2. Shutdowns'
    BY <1>a, <1>47, OpMoves
       DEF QuitCall, Shutdowns, None, CancelVersionOperation, OpTyped, RunTyped,
           OpAt
  <2>3. Phase' = Phase
    BY <1>a, <1>47, KindAt DEF QuitCall, Phase, OpTyped, CancelVersionOperation
  <2>4. Guards'
    BY <1>a, <1>47, <2>3 DEF QuitCall, Guards
  <2>5. RecoverySparesNewer'
    BY <1>a, <1>47, OpMoves
       DEF QuitCall, RecoverySparesNewer, CancelVersionOperation, OpTyped
  <2>6. Generations' /\ Workers' /\ Contexts' /\ Readiness'
    BY <1>a, <1>47 DEF QuitCall, Generations, Workers, Contexts, Readiness
  <2> QED BY <2>1, <2>2, <2>4, <2>5, <2>6 DEF Inv
<1>48. ASSUME ShutdownCall
      PROVE Inv'
  <2>1. Generations' /\ Workers' /\ Contexts' /\ Cleanups' /\ Shutdowns'
          /\ Guards' /\ Readiness' /\ RecoverySparesNewer'
    BY <1>a, <1>48
       DEF ShutdownCall, Generations, Workers, Contexts, Cleanups, Shutdowns,
           Guards, Readiness, RecoverySparesNewer, Phase
  <2> QED BY <2>1 DEF Inv
<1>49. ASSUME NEW kind \in {"quit", "shutdown"}, QuitLocked(kind)
      PROVE Inv'
  <2>1. Cleanups'
    BY <1>a, <1>49, OpMoves
       DEF QuitLocked, Cleanups, CleanPc, OpTake, NewOp, SwitchKind, RunTyped
  <2>2. Shutdowns'
    BY <1>a, <1>49, OpMoves
       DEF QuitLocked, Shutdowns, None, OpTake, NewOp, SwitchKind, RunTyped,
           OpTyped, OpAt
  <2>3. Phase' = Phase
    BY <1>a, <1>49, KindAt
       DEF QuitLocked, Phase, OpTake, NewOp, SwitchKind, OpTyped, OpAt
  <2>4. Guards'
    BY <1>a, <1>49, <2>3 DEF QuitLocked, Guards
  <2>5. RecoverySparesNewer'
    BY <1>a, <1>49, OpMoves
       DEF QuitLocked, RecoverySparesNewer, OpTake, NewOp, SwitchKind
  <2>6. Generations' /\ Workers' /\ Contexts' /\ Readiness'
    BY <1>a, <1>49 DEF QuitLocked, Generations, Workers, Contexts, Readiness
  <2> QED BY <2>1, <2>2, <2>4, <2>5, <2>6 DEF Inv

<1> QED
  BY <1>1, <1>2, <1>3, <1>4, <1>5, <1>6, <1>7, <1>8, <1>9, <1>10, <1>11, <1>12,
     <1>13, <1>14, <1>15, <1>16, <1>17, <1>18, <1>19, <1>20, <1>21, <1>22,
     <1>23, <1>24, <1>25, <1>26, <1>27, <1>28, <1>29, <1>30, <1>31, <1>32,
     <1>33, <1>34, <1>35, <1>36, <1>37, <1>38, <1>39, <1>40, <1>41, <1>42,
     <1>43, <1>44, <1>45, <1>46, <1>47, <1>48, <1>49
     DEF Next, RunStep, WatchStep, CleanupStep, OpStep, CancelStep, Environment

\* Inv holds in every reachable state of the Host, beside TypeOK.
THEOREM HostInvariant == Spec => [](TypeOK /\ Inv)
<1>1. Init => Inv
  <2> SUFFICES ASSUME Init PROVE Inv
    OBVIOUS
  <2>1. Generations /\ Workers /\ Contexts /\ Readiness
    BY DEF Init, Generations, Workers, Contexts, Readiness, NewMachine,
       FreeBoundary, Held, WithWorker, AfterRun
  <2>2. Cleanups /\ Shutdowns /\ RecoverySparesNewer
    BY DEF Init, IdleOp, NewOp, Cleanups, CleanPc, Shutdowns,
       RecoverySparesNewer
  <2>3. Guards
    BY DEF Init, IdleOp, NewOp, Guards, Phase, SwitchKind
  <2> QED BY <2>1, <2>2, <2>3 DEF Inv
<1>2. Inv /\ UNCHANGED vars => Inv'
  BY DEF vars, hostVars, callVars, runVars, workerVars, guardVars, Inv,
     Generations, Workers, Contexts, Cleanups, Shutdowns, Guards, Phase,
     Readiness, RecoverySparesNewer
<1>3. TypeOK /\ Inv /\ [Next]_vars => Inv'
  BY <1>2, InvStep
<1> QED BY <1>1, <1>3, HostTypeCorrect, PTL DEF Spec

-----------------------------------------------------------------------------
(* The properties.                                                         *)

\* An occupied process boundary always belongs to the Host's current run, so a
\* later call can still reach and clean it (finish's keepCleanupOwner, start,
\* stopRun, shutdownPendingRun).
THEOREM HostWorkerIsOwned == Spec => []WorkerIsOwned
<1>1. TypeOK /\ Inv => WorkerIsOwned
  BY DEF Inv, Workers, WorkerIsOwned, Occupied
<1> QED BY <1>1, HostInvariant, PTL

\* At most one process boundary is occupied: candidate, rollback and previous
\* generations never overlap (cleanupWorker, beginResolvedRun, restartLocked).
THEOREM HostNoOverlap == Spec => []NoOverlap
<1>1. TypeOK /\ Inv => NoOverlap
  BY DEF Inv, Workers, NoOverlap, Occupied
<1> QED BY <1>1, HostInvariant, PTL

\* The manager's current Run context is that of a run the Host still owns
\* (commitReady, clearCurrent, finish).
THEOREM HostCurrentContextIsOwned == Spec => []CurrentContextIsOwned
<1>1. TypeOK /\ Inv => CurrentContextIsOwned
  BY DEF Inv, Workers, Contexts, CurrentContextIsOwned
<1> QED BY <1>1, HostInvariant, PTL

\* The manager's mutation guard has exactly one owner and is never held for
\* nobody (beginManagerStopGuard, releaseManagerStopGuard, applyRunContextLocked).
THEOREM HostGuardHasOneOwner == Spec => []GuardHasOneOwner
<1>1. TypeOK /\ Inv => GuardHasOneOwner
  <2> SUFFICES ASSUME TypeOK, Inv PROVE GuardHasOneOwner
    OBVIOUS
  <2>1. OpTyped /\ Guards
    BY DEF TypeOK, Inv
  <2>2. switchGuarded /\ op.pc # "swRelease" <=> Phase = "held"
    BY <2>1, KindAt DEF Guards, Phase, SwitchPc
  <2> QED BY <2>1, <2>2 DEF Guards, GuardHasOneOwner
<1> QED BY <1>1, HostInvariant, PTL

\* A Ready status stands on a committed context until its cleanup starts
\* (commitReady, MarkReady, clearCurrent).
THEOREM HostReadyIsCommitted == Spec => []ReadyIsCommitted
<1>1. TypeOK /\ Inv => ReadyIsCommitted
  BY DEF Inv, Readiness, ReadyIsCommitted
<1> QED BY <1>1, HostInvariant, PTL

\* A recovery that waited for switchMu never touches a generation that began in
\* the meantime (applyRunContextLocked, runStartup).
THEOREM HostRecoverySparesNewer == Spec => []RecoverySparesNewer
<1>1. TypeOK /\ Inv => RecoverySparesNewer
  BY DEF Inv
<1> QED BY <1>1, HostInvariant, PTL

\* A shutdown that returned nil leaves no Worker behind and none on its way
\* (ShutdownForApp, shutdownPendingRun, switchMu).
THEOREM HostShutdownLeavesNoWorker == Spec => []ShutdownLeavesNoWorker
<1>1. TypeOK /\ Inv => ShutdownLeavesNoWorker
  BY DEF Inv, Workers, Shutdowns, ShutdownLeavesNoWorker, Occupied
<1> QED BY <1>1, HostInvariant, PTL

\* Only beginRunLocked counts a generation, and only when the Host has no run.
LEMMA OnlyBeginRunCounts ==
    ASSUME TypeOK, Next, machine'.gen # machine.gen
    PROVE  current = None
<1>a. MachineTyped
  BY DEF TypeOK
<1>1. ASSUME NEW g \in Gen, RunStep(g)
      PROVE  FALSE
  <2>1. CASE RunCommitReady(g)
    BY <2>1, <1>a, MachineMoves DEF RunCommitReady
  <2>2. CASE RunFinishStatus(g)
    <3>1. FinishedStatus(g).gen = machine.gen
      BY <1>a DEF FinishedStatus, MachineTyped, CompleteStop, BeginStop, Fail
    <3> QED BY <2>2, <3>1, <1>1 DEF RunFinishStatus
  <2> QED BY <1>1, <2>1, <2>2 DEF RunStep, RunStartWorker, RunWaitReady,
             RunServe, RunCleanupBegin, RunFinish, RunFinishRelease
<1>2. ASSUME NEW g \in Gen, WatchStep(g) \/ RecoverCall(g)
      PROVE  FALSE
  BY <1>2 DEF WatchStep, WatchReady, WatchDone, RecoverCall
<1>3. CASE CleanupStep
  BY <1>3 DEF CleanupStep, CleanupDetach, CleanupDrain
<1>4. CASE CancelStep
  <2>1. CASE CancelLock
    BY <2>1, <1>a, MachineMoves DEF CancelLock
  <2> QED BY <1>4, <2>1 DEF CancelStep, CancelPick, CancelGuard
<1>5. ASSUME NEW kind \in {"quit", "shutdown"}, QuitLocked(kind)
      PROVE  FALSE
  BY <1>5 DEF QuitLocked
<1>6. CASE Environment
  BY <1>6 DEF Environment, Call, CallerCancel, Cancel, QuitCall, ShutdownCall,
     WorkerExit
<1>7. CASE OpStep
  <2>1. CASE Start \/ SwitchPrepare \/ SwitchDecide
    BY <2>1 DEF Start, SwitchPrepare, SwitchDecide, RunResolvedContext
  <2>2. CASE OpStopLock \/ SwitchStop
    BY <2>2, <1>a, MachineMoves DEF OpStopLock, SwitchStop
  <2>3. CASE SwitchCleaned
    BY <2>3, <1>a, MachineMoves DEF SwitchCleaned
  <2>4. CASE ShutdownRun \/ ShutdownWait
    BY <2>4, <1>a, MachineMoves
       DEF ShutdownRun, ShutdownWait, ShutdownDone, ShutdownComplete
  <2>5. CASE ShutdownCleaned
    BY <2>5, <1>a, MachineMoves DEF ShutdownCleaned
  <2>6. CASE StartWait \/ StartCleaned \/ Restart \/ OpStopPick \/ OpStopGuard
             \/ RestartWait \/ FaultBegin \/ FaultEnd \/ OpCleanupBegin
    BY <2>6 DEF StartWait, StartCleaned, Restart, OpStopPick, OpStopGuard,
       RestartWait, FaultBegin, FaultEnd, OpCleanupBegin
  <2>7. CASE SwitchBegin \/ SwitchGuard \/ SwitchResolve \/ SwitchStopWait
             \/ SwitchWait \/ SwitchDrain \/ SwitchEnd \/ SwitchRelease
    BY <2>7 DEF SwitchBegin, SwitchGuard, SwitchResolve, SwitchStopWait,
       SwitchWait, SwitchDrain, SwitchEnd, SwitchRelease
  <2> QED BY <1>7, <2>1, <2>2, <2>3, <2>4, <2>5, <2>6, <2>7 DEF OpStep
<1> QED BY <1>1, <1>2, <1>3, <1>4, <1>5, <1>6, <1>7 DEF Next

\* A generation begins only when no earlier one has a cleanup pending (start,
\* beginResolvedRun, BeginStart).
THEOREM HostHandoverAfterCleanup == Spec => HandoverAfterCleanup
<1>1. TypeOK /\ Inv /\ [Next]_vars
        => [machine'.gen # machine.gen => pending = {}]_vars
  <2> SUFFICES ASSUME TypeOK, Inv, Next, machine'.gen # machine.gen
               PROVE  pending = {}
    OBVIOUS
  <2> QED BY OnlyBeginRunCounts, Vacant
<1> QED BY <1>1, HostInvariant, PTL DEF Spec, HandoverAfterCleanup

-----------------------------------------------------------------------------
(* The refinement.  The Host implements WorkerOwnership for any number of  *)
(* generations and any set of calls.  Nine actions are steps of the        *)
(* contract and all the others leave what it sees alone.  Beside Inv the   *)
(* argument needs that a run which can commit its context has a boundary   *)
(* that was not vacated.                                                   *)

\* A run between its spawn and its cleanup has a process boundary: only a
\* cleanup empties one (startWorker, cleanupWorker).
Spawned ==
    \A g \in Gen : pc[g] \in {"waiting", "committing", "running", "cleanup"}
                      => proc[g] # "none"

\* Neither a new run nor a step on a run that is not being cleaned up takes a
\* boundary away (beginRunLocked, run, cleanupWorker).
LEMMA SpawnedStep ==
    ASSUME TypeOK, Inv, Spawned, Next
    PROVE  Spawned'
<1> USE DEF hostVars, callVars, runVars, workerVars, guardVars
<1>a. RunTyped /\ WorkerTyped
  BY DEF TypeOK
<1>b. ASSUME UNCHANGED <<pc, proc>>
      PROVE  Spawned'
  BY <1>b DEF Spawned
<1>c. ASSUME BeginRun(TRUE) \/ BeginRun(FALSE), CanStartRun, UNCHANGED proc
      PROVE  Spawned'
  BY <1>a, <1>c, BeginRunFacts DEF Spawned, RunTyped
<1>1. ASSUME NEW g \in Gen, RunStep(g)
      PROVE  Spawned'
  <2>1. CASE RunStartWorker(g)
    BY <1>a, <2>1 DEF RunStartWorker, Result, Goto, Spawned, RunTyped,
       WorkerTyped
  <2>2. CASE RunWaitReady(g)
    BY <1>a, <2>2 DEF RunWaitReady, Result, Goto, Spawned, RunTyped
  <2>3. CASE RunCommitReady(g)
    BY <1>a, <2>3 DEF RunCommitReady, Result, Goto, Spawned, RunTyped
  <2>4. CASE RunServe(g)
    BY <1>a, <2>4 DEF RunServe, Result, Goto, Spawned, RunTyped
  <2>5. CASE RunCleanupBegin(g)
    BY <1>a, <2>5 DEF RunCleanupBegin, Result, Goto, Spawned, RunTyped
  <2>6. CASE RunFinish(g) \/ RunFinishStatus(g) \/ RunFinishRelease(g)
    BY <1>a, <2>6 DEF RunFinish, RunFinishStatus, RunFinishRelease, Goto,
       Spawned, RunTyped
  <2> QED BY <1>1, <2>1, <2>2, <2>3, <2>4, <2>5, <2>6 DEF RunStep
<1>2. ASSUME NEW g \in Gen, WatchStep(g) \/ RecoverCall(g)
      PROVE  Spawned'
  BY <1>2, <1>b DEF WatchStep, WatchReady, WatchDone, RecoverCall
<1>3. CASE CleanupStep
  <2>1. CASE CleanupDetach
    BY <1>b, <2>1 DEF CleanupDetach
  <2>2. CASE CleanupDrain
    <3>1. /\ boundary.run \in Gen
          /\ pc[boundary.run] \in {"cleaning", "done"}
      BY <2>2, BoundaryRun DEF CleanupDrain
    <3>2. /\ \/ UNCHANGED pc
             \/ Goto(boundary.run, "finish")
          /\ \/ UNCHANGED proc
             \/ proc' = [proc EXCEPT ![boundary.run] = "none"]
      BY <2>2 DEF CleanupDrain, Result
    <3>3. pc'[boundary.run] \in {"cleaning", "done", "finish"}
      BY <1>a, <3>1, <3>2 DEF Goto, RunTyped
    <3>4. \A h \in Gen : h # boundary.run => pc'[h] = pc[h] /\ proc'[h] = proc[h]
      BY <1>a, <3>1, <3>2 DEF Goto, RunTyped, WorkerTyped
    <3> QED BY <3>3, <3>4 DEF Spawned
  <2> QED BY <1>3, <2>1, <2>2 DEF CleanupStep
<1>4. CASE CancelStep
  BY <1>4, <1>b DEF CancelStep, CancelPick, CancelLock, CancelGuard
<1>5. ASSUME NEW kind \in {"quit", "shutdown"}, QuitLocked(kind)
      PROVE  Spawned'
  BY <1>5, <1>b DEF QuitLocked
<1>6. CASE Environment
  <2>1. ASSUME NEW g \in Gen, WorkerExit(g)
        PROVE  Spawned'
    BY <1>a, <2>1 DEF WorkerExit, Spawned, WorkerTyped
  <2> QED BY <1>6, <1>b, <2>1 DEF Environment, Call, CallerCancel, Cancel,
             QuitCall, ShutdownCall
<1>7. CASE OpStep
  <2>1. CASE Start
    BY <2>1, <1>b, <1>c DEF Start
  <2>2. CASE SwitchPrepare \/ SwitchDecide
    BY <2>2, <1>b, <1>c DEF SwitchPrepare, SwitchDecide, RunResolvedContext
  <2>3. CASE \/ StartWait \/ StartCleaned \/ Restart \/ OpStopPick
             \/ OpStopLock \/ OpStopGuard \/ RestartWait \/ FaultBegin
             \/ FaultEnd \/ OpCleanupBegin \/ ShutdownRun \/ ShutdownWait
             \/ ShutdownCleaned
    BY <2>3, <1>b DEF StartWait, StartCleaned, Restart, OpStopPick, OpStopLock,
       OpStopGuard, RestartWait, FaultBegin, FaultEnd, OpCleanupBegin,
       ShutdownRun, ShutdownWait, ShutdownCleaned
  <2>4. CASE \/ SwitchBegin \/ SwitchGuard \/ SwitchResolve \/ SwitchStop
             \/ SwitchStopWait \/ SwitchCleaned \/ SwitchWait \/ SwitchDrain
             \/ SwitchEnd \/ SwitchRelease
    BY <2>4, <1>b DEF SwitchBegin, SwitchGuard, SwitchResolve, SwitchStop,
       SwitchStopWait, SwitchCleaned, SwitchWait, SwitchDrain, SwitchEnd,
       SwitchRelease
  <2> QED BY <1>7, <2>1, <2>2, <2>3, <2>4 DEF OpStep
<1> QED BY <1>1, <1>2, <1>3, <1>4, <1>5, <1>6, <1>7 DEF Next

-----------------------------------------------------------------------------
(* The steps of the contract.                                              *)

\* What the contract sees of a step: nothing, when no run begins or ends, no
\* run leaves "starting" and no boundary is occupied or vacated.
LEMMA Quiet ==
    ASSUME TypeOK, UNCHANGED <<current, mgrCurrent>>,
           machine'.gen = machine.gen,
           \A g \in Gen : /\ pc'[g] = "starting" <=> pc[g] = "starting"
                          /\ proc'[g] = "none" <=> proc[g] = "none"
    PROVE  UNCHANGED Ownership!vars
<1>1. current = None \/ current \in Gen
  BY DEF TypeOK, HostTyped, Gen, None, NoGeneration
<1>2. Stage' = Stage
  BY <1>1 DEF Stage, Occupied
<1> QED BY <1>2 DEF Ownership!vars

\* Only a run's goroutine takes it out of "starting", and only cleanups and
\* exits touch a boundary, so a step that leaves pc and proc is quiet.
LEMMA QuietStep ==
    ASSUME TypeOK, UNCHANGED <<current, mgrCurrent, pc, proc>>,
           machine'.gen = machine.gen
    PROVE  UNCHANGED Ownership!vars
  BY Quiet

\* beginRunLocked admits a generation (start, beginResolvedRun).
LEMMA AdmitStep ==
    ASSUME TypeOK, Inv, current = None, CanStartRun,
           BeginRun(TRUE) \/ BeginRun(FALSE), UNCHANGED <<proc, mgrCurrent>>
    PROVE  Ownership!Admit
<1>1. machine.gen \in Nat /\ machine.gen < MaxGen /\ NextGen # None
  BY MaxGenAssumption DEF TypeOK, MachineTyped, CanStartRun, NextGen, None,
     NoGeneration
<1>2. machine'.gen = NextGen /\ current' = NextGen /\ NextGen \in Gen
  BY BeginRunFacts
<1>3. pc'[NextGen] = "starting"
  BY <1>2, BeginRunFacts DEF TypeOK, RunTyped
<1>4. Stage' = "starting"
  BY <1>1, <1>2, <1>3 DEF Stage
<1> QED BY <1>1, <1>2, <1>4 DEF Ownership!Admit, NextGen, None, NoGeneration

\* Letting a run go whose cleanup is no longer pending releases the boundary
\* (finish, start, stopRun, shutdownPendingRun).
LEMMA ReleaseStep ==
    ASSUME TypeOK, Inv, current \in Gen, pc[current] # "starting",
           current \notin pending, current' = None,
           machine'.gen = machine.gen, UNCHANGED mgrCurrent
    PROVE  Ownership!Release
<1>1. proc[current] = "none" /\ current # None
  BY DEF Inv, Workers, Gen, None, NoGeneration
<1>2. Stage = "down"
  BY <1>1 DEF Stage, Occupied
<1>3. mgrCurrent = None
  BY DEF Inv, Contexts, Workers
<1>4. Stage' = "idle"
  BY DEF Stage
<1> QED BY <1>2, <1>3, <1>4 DEF Ownership!Release, None, NoGeneration

\* The generation of a finished status is the one it had (finish).
LEMMA FinishedGen ==
    ASSUME MachineTyped, NEW g \in Gen
    PROVE  FinishedStatus(g).gen = machine.gen
  BY DEF FinishedStatus, MachineTyped, CompleteStop, BeginStop, Fail

\* Every step of the goroutine of a generation is the contract's or none: its
\* spawn launches, a failed one vacates, its commit publishes, and its release
\* gives an empty boundary up (run).
LEMMA RunRefines ==
    ASSUME TypeOK, Inv, Spawned, NEW g \in Gen, RunStep(g)
    PROVE  Ownership!Next \/ UNCHANGED Ownership!vars
<1> USE DEF hostVars, callVars, runVars, workerVars, guardVars
<1>a. RunTyped /\ WorkerTyped /\ MachineTyped
  BY DEF TypeOK
<1>b. g # None
  BY DEF Gen, None, NoGeneration
<1>c. pc[g] \notin {"unborn", "done"} => current = g
  BY DEF Inv, Generations
<1>1. CASE RunStartWorker(g)
  <2>1. current = g /\ Stage = "starting"
    BY <1>1, <1>b, <1>c DEF RunStartWorker, Stage
  <2>2. UNCHANGED <<machine, current, mgrCurrent>>
    BY <1>1 DEF RunStartWorker
  <2>3. proc[g] = "none"
    BY <1>1 DEF RunStartWorker, Inv, Workers
  <2>4. \/ pc'[g] = "finish" /\ proc'[g] = "none"
        \/ pc'[g] = "waiting" /\ proc'[g] = "alive"
    BY <1>1, <1>a, <2>3 DEF RunStartWorker, Result, Goto, RunTyped, WorkerTyped
  <2>5. Stage' \in {"up", "down"}
    BY <1>b, <2>1, <2>2, <2>4 DEF Stage, Occupied
  <2> QED BY <2>1, <2>2, <2>5 DEF Ownership!Next, Ownership!Launch,
             Ownership!Vacate
<1>2. CASE RunCommitReady(g)
  <2>1. current = g /\ proc[g] # "none"
    BY <1>2, <1>c DEF RunCommitReady, Spawned
  <2>2. Stage = "up"
    BY <1>2, <1>b, <2>1 DEF RunCommitReady, Stage, Occupied
  <2>3. UNCHANGED <<current, proc>> /\ machine'.gen = machine.gen
    BY <1>2, <1>a, MachineMoves DEF RunCommitReady
  <2>4. pc'[g] # "starting"
    BY <1>2, <1>a DEF RunCommitReady, Result, Goto, RunTyped
  <2>5. Stage' = "up"
    BY <1>b, <2>1, <2>3, <2>4 DEF Stage, Occupied
  <2>6. \/ UNCHANGED mgrCurrent
        \/ mgrCurrent = None /\ mgrCurrent' = g
    BY <1>2 DEF RunCommitReady
  <2> QED BY <2>1, <2>2, <2>3, <2>5, <2>6 DEF Ownership!Next,
             Ownership!Publish, Ownership!vars, None, NoGeneration
<1>3. CASE RunFinishRelease(g)
  <2>1. current = g /\ pc[g] = "release"
    BY <1>3, <1>c DEF RunFinishRelease
  <2>2. UNCHANGED <<machine, mgrCurrent, proc>>
    BY <1>3 DEF RunFinishRelease
  <2>3. CASE KeepCleanupOwner(g)
    <3>1. UNCHANGED current
      BY <1>3, <2>3 DEF RunFinishRelease
    <3>2. \A h \in Gen : pc'[h] = "starting" <=> pc[h] = "starting"
      BY <1>3, <1>a, <2>1 DEF RunFinishRelease, Goto, RunTyped
    <3> QED BY <2>2, <3>1, <3>2, Quiet
  <2>4. CASE ~KeepCleanupOwner(g)
    <3>1. g \notin pending
      BY <2>1, <2>4 DEF KeepCleanupOwner, Inv, Workers, AfterRun
    <3>2. current' = None
      BY <1>3, <2>1, <2>4 DEF RunFinishRelease
    <3> QED BY <2>1, <2>2, <3>1, <3>2, ReleaseStep DEF Ownership!Next
  <2> QED BY <2>3, <2>4
<1>4. CASE \/ RunWaitReady(g) \/ RunServe(g) \/ RunCleanupBegin(g)
           \/ RunFinish(g) \/ RunFinishStatus(g)
  <2>1. UNCHANGED <<current, mgrCurrent, proc>>
    BY <1>4 DEF RunWaitReady, RunServe, RunCleanupBegin, RunFinish,
       RunFinishStatus
  <2>2. machine'.gen = machine.gen
    BY <1>4, <1>a, FinishedGen DEF RunWaitReady, RunServe, RunCleanupBegin,
       RunFinish, RunFinishStatus
  <2>3. \A h \in Gen : pc'[h] = "starting" <=> pc[h] = "starting"
    BY <1>4, <1>a DEF RunWaitReady, RunServe, RunCleanupBegin, RunFinish,
       RunFinishStatus, Result, Goto, RunTyped
  <2> QED BY <2>1, <2>2, <2>3, Quiet
<1> QED BY <1>1, <1>2, <1>3, <1>4 DEF RunStep

\* cleanupWorker retracts the context and then vacates the boundary.
LEMMA CleanupRefines ==
    ASSUME TypeOK, Inv, CleanupStep
    PROVE  Ownership!Next \/ UNCHANGED Ownership!vars
<1> USE DEF hostVars, callVars, runVars, workerVars, guardVars
<1>a. RunTyped /\ WorkerTyped
  BY DEF TypeOK
<1>1. boundary.run \in Gen /\ pc[boundary.run] \in {"cleaning", "done"}
  BY BoundaryRun DEF CleanupStep, CleanupDetach, CleanupDrain
<1>2. CASE CleanupDetach
  <2>1. UNCHANGED <<machine, current, pc, proc>>
    BY <1>2 DEF CleanupDetach
  <2>2. mgrCurrent' = mgrCurrent \/ mgrCurrent' = None
    BY <1>2 DEF CleanupDetach
  <2>3. Stage' = Stage
    BY <2>1 DEF Stage, Occupied
  <2> QED BY <2>1, <2>2, <2>3 DEF Ownership!Next, Ownership!Retract,
             Ownership!vars, None, NoGeneration
<1>3. CASE CleanupDrain
  <2>1. UNCHANGED <<machine, current, mgrCurrent>>
    BY <1>3 DEF CleanupDrain
  <2>2. /\ \/ UNCHANGED pc
           \/ Goto(boundary.run, "finish")
        /\ \/ UNCHANGED proc
           \/ proc' = [proc EXCEPT ![boundary.run] = "none"]
    BY <1>3 DEF CleanupDrain, Result
  <2>3. \A h \in Gen : pc'[h] = "starting" <=> pc[h] = "starting"
    BY <1>a, <1>1, <2>2 DEF Goto, RunTyped
  <2>4. CASE \A h \in Gen : proc'[h] = "none" <=> proc[h] = "none"
    BY <2>1, <2>3, <2>4, Quiet
  <2>5. CASE \E h \in Gen : ~(proc'[h] = "none" <=> proc[h] = "none")
    <3>1. proc[boundary.run] # "none" /\ proc'[boundary.run] = "none"
      BY <1>a, <1>1, <2>2, <2>5 DEF WorkerTyped
    <3>2. current = boundary.run /\ current # None
      BY <1>1, <3>1 DEF Inv, Workers, Gen, None, NoGeneration
    <3>3. Stage = "up"
      BY <1>1, <3>1, <3>2 DEF Stage, Occupied
    <3>4. Stage' = "down"
      BY <1>1, <2>1, <2>3, <3>1, <3>2 DEF Stage, Occupied
    <3> QED BY <2>1, <3>3, <3>4 DEF Ownership!Next, Ownership!Vacate
  <2> QED BY <2>4, <2>5
<1> QED BY <1>2, <1>3 DEF CleanupStep

\* A call begins a run only over nothing, and lets one go only after its
\* cleanup (start, restartLocked, applyRunContextLocked, ShutdownForApp).
LEMMA OpRefines ==
    ASSUME TypeOK, Inv, OpStep
    PROVE  Ownership!Next \/ UNCHANGED Ownership!vars
<1> USE DEF hostVars, callVars, runVars, workerVars, guardVars
<1>a. MachineTyped /\ OpTyped
  BY DEF TypeOK
<1>b. op.pc = "cleaned" => /\ op.run \in Gen /\ op.run \notin pending
                           /\ pc[op.run] # "starting"
  BY DEF Inv, Cleanups, CleanPc
<1>1. CASE Start
  <2>1. \/ /\ current = None /\ CanStartRun /\ BeginRun(TRUE)
        \/ UNCHANGED <<machine, current, pc>>
    BY <1>1 DEF Start
  <2>2. UNCHANGED <<proc, mgrCurrent>>
    BY <1>1 DEF Start
  <2> QED BY <2>1, <2>2, AdmitStep, QuietStep DEF Ownership!Next
<1>2. CASE SwitchPrepare \/ SwitchDecide
  <2>1. \/ /\ current = None /\ CanStartRun /\ BeginRun(FALSE)
        \/ UNCHANGED <<machine, current, pc>>
    BY <1>2 DEF SwitchPrepare, SwitchDecide, RunResolvedContext
  <2>2. UNCHANGED <<proc, mgrCurrent>>
    BY <1>2 DEF SwitchPrepare, SwitchDecide
  <2> QED BY <2>1, <2>2, AdmitStep, QuietStep DEF Ownership!Next
<1>3. CASE StartCleaned \/ SwitchCleaned \/ ShutdownCleaned
  <2>1. UNCHANGED <<pc, proc, mgrCurrent>>
    BY <1>3 DEF StartCleaned, SwitchCleaned, ShutdownCleaned
  <2>2. machine'.gen = machine.gen
    BY <1>3, <1>a, MachineMoves DEF StartCleaned, SwitchCleaned, ShutdownCleaned
  <2>3. \/ UNCHANGED current
        \/ op.pc = "cleaned" /\ current = op.run /\ current' = None
    BY <1>3 DEF StartCleaned, SwitchCleaned, ShutdownCleaned
  <2> QED BY <1>b, <2>1, <2>2, <2>3, QuietStep, ReleaseStep DEF Ownership!Next
<1>4. CASE OpStopLock \/ SwitchStop \/ ShutdownRun \/ ShutdownWait
  <2>1. UNCHANGED <<current, mgrCurrent, pc, proc>>
    BY <1>4 DEF OpStopLock, SwitchStop, ShutdownRun, ShutdownWait
  <2>2. machine'.gen = machine.gen
    BY <1>4, <1>a, MachineMoves DEF OpStopLock, SwitchStop, ShutdownRun,
       ShutdownWait, ShutdownDone, ShutdownComplete
  <2> QED BY <2>1, <2>2, QuietStep
<1>5. CASE \/ StartWait \/ Restart \/ OpStopPick \/ OpStopGuard \/ RestartWait
           \/ FaultBegin \/ FaultEnd \/ OpCleanupBegin
  <2>1. UNCHANGED <<machine, current, mgrCurrent, pc, proc>>
    BY <1>5 DEF StartWait, Restart, OpStopPick, OpStopGuard, RestartWait,
       FaultBegin, FaultEnd, OpCleanupBegin
  <2> QED BY <2>1, QuietStep
<1>6. CASE \/ SwitchBegin \/ SwitchGuard \/ SwitchResolve \/ SwitchStopWait
           \/ SwitchWait \/ SwitchDrain \/ SwitchEnd \/ SwitchRelease
  <2>1. UNCHANGED <<machine, current, mgrCurrent, pc, proc>>
    BY <1>6 DEF SwitchBegin, SwitchGuard, SwitchResolve, SwitchStopWait,
       SwitchWait, SwitchDrain, SwitchEnd, SwitchRelease
  <2> QED BY <2>1, QuietStep
<1> QED BY <1>1, <1>2, <1>3, <1>4, <1>5, <1>6 DEF OpStep

\* Every step of the Host is a step of the contract or none of its business.
LEMMA StepRefines ==
    ASSUME TypeOK, Inv, Spawned, Next
    PROVE  Ownership!Next \/ UNCHANGED Ownership!vars
<1> USE DEF hostVars, callVars, runVars, workerVars, guardVars
<1>a. MachineTyped /\ WorkerTyped
  BY DEF TypeOK
<1>1. ASSUME NEW g \in Gen, WatchStep(g) \/ RecoverCall(g)
      PROVE  UNCHANGED Ownership!vars
  <2>1. UNCHANGED <<machine, current, mgrCurrent, pc, proc>>
    BY <1>1 DEF WatchStep, WatchReady, WatchDone, RecoverCall
  <2> QED BY <2>1, QuietStep
<1>2. CASE CancelStep
  <2>1. UNCHANGED <<current, mgrCurrent, pc, proc>>
    BY <1>2 DEF CancelStep, CancelPick, CancelLock, CancelGuard
  <2>2. machine'.gen = machine.gen
    BY <1>2, <1>a, MachineMoves DEF CancelStep, CancelPick, CancelLock,
       CancelGuard
  <2> QED BY <2>1, <2>2, QuietStep
<1>3. ASSUME NEW kind \in {"quit", "shutdown"}, QuitLocked(kind)
      PROVE  UNCHANGED Ownership!vars
  <2>1. UNCHANGED <<machine, current, mgrCurrent, pc, proc>>
    BY <1>3 DEF QuitLocked
  <2> QED BY <2>1, QuietStep
<1>4. CASE Environment
  <2>1. ASSUME NEW g \in Gen, WorkerExit(g)
        PROVE  UNCHANGED Ownership!vars
    <3>1. UNCHANGED <<machine, current, mgrCurrent, pc>>
      BY <2>1 DEF WorkerExit
    <3>2. \A h \in Gen : proc'[h] = "none" <=> proc[h] = "none"
      BY <1>a, <2>1 DEF WorkerExit, WorkerTyped
    <3> QED BY <3>1, <3>2, Quiet
  <2>2. CASE Call \/ CallerCancel \/ Cancel \/ QuitCall \/ ShutdownCall
    <3>1. UNCHANGED <<machine, current, mgrCurrent, pc, proc>>
      BY <2>2 DEF Call, CallerCancel, Cancel, QuitCall, ShutdownCall
    <3> QED BY <3>1, QuietStep
  <2> QED BY <1>4, <2>1, <2>2 DEF Environment
<1> QED BY <1>1, <1>2, <1>3, <1>4, RunRefines, CleanupRefines, OpRefines
           DEF Next

\* The Host implements WorkerOwnership: generations are admitted, launched,
\* published, retracted, vacated and released in the contract's order, one at a
\* time (beginRunLocked, run, cleanupWorker, finish).
THEOREM HostImplementsOwnership == Spec => ImplementsOwnership
<1>1. Init => Spawned
  BY DEF Init, Spawned
<1>2. TypeOK /\ Inv /\ Spawned /\ [Next]_vars => Spawned'
  <2>1. Spawned /\ UNCHANGED vars => Spawned'
    BY DEF vars, workerVars, Spawned
  <2> QED BY <2>1, SpawnedStep
<1>3. Spec => []Spawned
  BY <1>1, <1>2, HostInvariant, PTL DEF Spec
<1>4. Init => Ownership!Init
  BY DEF Init, Ownership!Init, Stage, NewMachine, None, NoGeneration
<1>5. TypeOK /\ Inv /\ Spawned /\ [Next]_vars => [Ownership!Next]_(Ownership!vars)
  <2>1. UNCHANGED vars => UNCHANGED Ownership!vars
    BY DEF vars, hostVars, workerVars, Ownership!vars, Stage, Occupied
  <2> QED BY <2>1, StepRefines
<1> QED BY <1>3, <1>4, <1>5, HostInvariant, PTL
        DEF Spec, ImplementsOwnership, Ownership!Spec
=============================================================================
