---------------------------- MODULE DesktopProofs ----------------------------
(***************************************************************************)
(* The quit flow, the updater, the trailing publisher, the Worker's        *)
(* process boundary, the preferences and the location of the data, for any *)
(* number of requests, goroutines, timers, setters and processes.  One     *)
(* component runs (MCDesktop.part), so the invariant of the composition is *)
(* that of the component that runs, and a step of the composition is one   *)
(* of its steps (DesktopSteps).                                            *)
(*                                                                         *)
(* None of the properties is inductive.  What carries them is who owns     *)
(* what: the flow and the question of a quit (QuitFlowOwned,               *)
(* QuitConfirmOwned), busy and the backend an operation works with         *)
(* (UpdateSingle, UpdateFollows), the outbox and its order (PublishSingle, *)
(* PublishOrdered, PublishTimed, PublishLatest), the handles and the lock  *)
(* of a job (JobHandles, JobLock), the lock of the preferences             *)
(* (SettingsLocked, SettingsCurrent) and that of the recorded root         *)
(* (StorageOwns, DaemonHeld).                                              *)
(***************************************************************************)
EXTENDS MCDesktop, TLAPS, FiniteSetTheorems, SequenceTheorems, Integers

\* A set whose members are all equal has at most one.
LEMMA AtMostOne ==
    ASSUME NEW S, \A x, y \in S : x = y
    PROVE  Cardinality(S) <= 1
<1>1. CASE S = {}
  BY <1>1, FS_EmptySet
<1>2. CASE S # {}
  <2>1. PICK x : x \in S
    BY <1>2
  <2>2. S = {x}
    BY <2>1
  <2>3. QED
    BY <2>2, FS_Singleton
<1>3. QED
  BY <1>1, <1>2

\* Taking the head of a queue.
LEMMA QueueTake ==
    ASSUME NEW S, NEW s \in Seq(S), s # <<>>
    PROVE  /\ Len(s) \in Nat /\ Len(s) >= 1 /\ Head(s) = s[1] /\ s[1] \in S
           /\ Tail(s) \in Seq(S) /\ Len(Tail(s)) = Len(s) - 1
           /\ \A i \in 1..Len(Tail(s)) : Tail(s)[i] = s[i + 1]
<1>1. Len(s) \in Nat \ {0}
  BY EmptySeq
<1>2. Len(s) >= 1 /\ 1 \in 1..Len(s)
  BY <1>1
<1>3. s[1] \in S
  BY <1>2, ElementOfSeq
<1>4. Head(s) = s[1]
  OBVIOUS
<1>5. QED
  BY <1>1, <1>2, <1>3, <1>4, HeadTailProperties

\* A queue with a member is not empty.
LEMMA QueueHolds ==
    ASSUME NEW S, NEW s \in Seq(S)
    PROVE  s # <<>> <=> Len(s) # 0
BY EmptySeq

-----------------------------------------------------------------------------
(* QuitFlow: the quit requests, the confirmation and the drain             *)

\* Between Begin's acceptance and its end a request has the flow.
InFlow == {"cleaning", "reset", "reopen", "release", "quit", "done"}
\* Where a request that was asked about holds the confirmation.
Holding == {"inspecting", "asking", "guard", "drain", "cancel", "handler", "begin"}

\* inProgress is set as long as a request has the flow, and one has it at most
\* (QuitFlow.Begin).
QuitFlowOwned ==
    /\ \A r \in Requests : at[r] \in InFlow => inProgress
    /\ \A r, q \in Requests : at[r] \in InFlow /\ at[q] \in InFlow => r = q

\* confirmBusy belongs to the one request that is on its way through the
\* question (quitConfirmation).
QuitConfirmOwned ==
    /\ confirmBusy <=> asked # {}
    /\ \A r, q \in asked : r = q
    /\ \A r \in asked : at[r] \in Holding

\* What holds after every step of the quit flow.
QuitInv == Quit!TypeOK /\ QuitFlowOwned /\ QuitConfirmOwned /\ Quit!DrainCancels

\* A request that returns gives the confirmation back if it had it, and only then.
LEMMA ReturnConfirm ==
    ASSUME Quit!TypeOK, QuitConfirmOwned, NEW r \in Requests, NEW label, Quit!Return(r, label)
    PROVE  QuitConfirmOwned'
<1> USE DEF Quit!TypeOK, QuitConfirmOwned, Quit!Return, Quit!Goto
<1>1. \A q \in asked' : q \in asked /\ q # r /\ at'[q] = at[q]
  OBVIOUS
<1>2. CASE r \in asked
  <2>1. asked' = {} /\ ~confirmBusy'
    BY <1>2
  <2>2. QED
    BY <1>1, <2>1
<1>3. CASE r \notin asked
  BY <1>1, <1>3
<1>4. QED
  BY <1>2, <1>3

\* A request outside the flow that goes elsewhere outside the flow leaves it alone.
LEMMA FlowKept ==
    ASSUME Quit!TypeOK, QuitFlowOwned, NEW r \in Requests, NEW label, label \notin InFlow,
           Quit!Goto(r, label), inProgress' = inProgress
    PROVE  QuitFlowOwned'
<1>1. \A q \in Requests : at'[q] \in InFlow => at[q] \in InFlow
  BY DEF Quit!TypeOK, Quit!Goto
<1>2. QED
  BY <1>1 DEF QuitFlowOwned

\* No request, shutdown or call breaks it (quit_flow.go, quit_confirm.go, server.go).
LEMMA QuitStep ==
    ASSUME QuitInv, [Quit!Next]_quitVars
    PROVE  QuitInv'
<1> USE DEF QuitInv, QuitFlowOwned, QuitConfirmOwned, Quit!TypeOK, Quit!DrainCancels,
        Quit!Labels, Quit!Goto, Quit!CallAt, Quit!control, InFlow, Holding
<1>1. ASSUME NEW r \in Requests, Quit!Confirm(r)
       PROVE  QuitInv'
  BY <1>1 DEF Quit!Confirm
<1>2. ASSUME NEW r \in Requests, Quit!RemoteQuit(r)
       PROVE  QuitInv'
  BY <1>2 DEF Quit!RemoteQuit
<1>3. ASSUME NEW r \in Requests, Quit!Inspect(r)
       PROVE  QuitInv'
  BY <1>3 DEF Quit!Inspect
<1>4. ASSUME NEW r \in Requests, Quit!Answer(r)
       PROVE  QuitInv'
  <2>1. CASE Quit!Goto(r, "guard") /\ UNCHANGED <<asked, confirmBusy>>
    BY <1>4, <2>1 DEF Quit!Answer
  <2>2. CASE Quit!Return(r, "idle")
    <3>1. QuitConfirmOwned'
      BY <2>2, ReturnConfirm
    <3>2. QuitFlowOwned'
      BY <1>4, <2>2, FlowKept DEF Quit!Answer, Quit!Return
    <3>3. confirmBusy' \in BOOLEAN
      BY <2>2, Zenon DEF Quit!Return
    <3>4. /\ at' \in [Requests -> Quit!Labels] /\ asked' \subseteq Requests
          /\ \A q \in Requests : at[q] = "cancel" => at'[q] = "cancel"
          /\ UNCHANGED <<exitPending, quitting, inProgress, draining, shuttingDown, call,
                         tracked, revoked, shutdown>>
      BY <1>4, <2>2 DEF Quit!Answer, Quit!Return
    <3> HIDE DEF QuitFlowOwned, QuitConfirmOwned
    <3>5. QED
      BY <3>1, <3>2, <3>3, <3>4
  <2>3. QED
    BY <1>4, <2>1, <2>2 DEF Quit!Answer
<1>5. ASSUME NEW r \in Requests, Quit!Guard(r)
       PROVE  QuitInv'
  <2>1. exitPending' \in BOOLEAN
    BY <1>5, Zenon DEF Quit!Guard
  <2>2. CASE Quit!Goto(r, "drain") /\ UNCHANGED <<asked, confirmBusy>>
    BY <1>5, <2>1, <2>2 DEF Quit!Guard
  <2>3. ASSUME NEW label \in {"idle", "installing"}, Quit!Return(r, label)
        PROVE  QuitInv'
    <3>1. QuitConfirmOwned'
      BY <2>3, ReturnConfirm
    <3>2. QuitFlowOwned'
      BY <1>5, <2>3, FlowKept DEF Quit!Guard, Quit!Return
    <3>3. confirmBusy' \in BOOLEAN
      BY <2>3, Zenon DEF Quit!Return
    <3>4. /\ at' \in [Requests -> Quit!Labels] /\ asked' \subseteq Requests
          /\ \A q \in Requests : at[q] = "cancel" => at'[q] = "cancel"
          /\ UNCHANGED <<quitting, inProgress, draining, shuttingDown, call, tracked, revoked,
                         shutdown>>
      BY <1>5, <2>3 DEF Quit!Guard, Quit!Return
    <3> HIDE DEF QuitFlowOwned, QuitConfirmOwned
    <3>5. QED
      BY <2>1, <3>1, <3>2, <3>3, <3>4
  <2>4. QED
    BY <1>5, <2>2, <2>3 DEF Quit!Guard
<1>6. ASSUME NEW r \in Requests, Quit!InstallOnExit(r)
       PROVE  QuitInv'
  <2>1. exitPending' \in BOOLEAN
    BY <1>6, Zenon DEF Quit!InstallOnExit
  <2>2. QED
    BY <1>6, <2>1 DEF Quit!InstallOnExit
<1>7. ASSUME NEW r \in Requests, Quit!Drain(r)
       PROVE  QuitInv'
  BY <1>7 DEF Quit!Drain
<1>8. ASSUME NEW r \in Requests, Quit!CancelCalls(r)
       PROVE  QuitInv'
  BY <1>8 DEF Quit!CancelCalls
<1>9. ASSUME NEW r \in Requests, Quit!BeginQuit(r)
       PROVE  QuitInv'
  BY <1>9 DEF Quit!BeginQuit
<1>10. ASSUME NEW r \in Requests, Quit!Begin(r)
       PROVE  QuitInv'
  <2>1. confirmBusy' \in BOOLEAN
    BY <1>10, Zenon DEF Quit!Begin, Quit!Return
  <2>2. (Quit!TypeOK)'
    BY <1>10, <2>1 DEF Quit!Begin, Quit!Return
  <2>3. QuitFlowOwned'
    BY <1>10, <2>1 DEF Quit!Begin, Quit!Return
  <2>4. QuitConfirmOwned'
    BY <1>10, <2>1 DEF Quit!Begin, Quit!Return
  <2>5. (Quit!DrainCancels)'
    BY <1>10, <2>1 DEF Quit!Begin, Quit!Return
  <2>6. QED
    BY <2>2, <2>3, <2>4, <2>5
<1>11. ASSUME NEW r \in Requests, Quit!Cleaned(r)
       PROVE  QuitInv'
  BY <1>11 DEF Quit!Cleaned
<1>12. ASSUME NEW r \in Requests, Quit!ResetDrain(r)
       PROVE  QuitInv'
  <2>1. draining' \in BOOLEAN
    BY <1>12, Zenon DEF Quit!ResetDrain
  <2>2. QED
    BY <1>12, <2>1 DEF Quit!ResetDrain
<1>13. ASSUME NEW r \in Requests, Quit!CancelQuit(r)
       PROVE  QuitInv'
  <2>1. quitting' \in BOOLEAN
    BY <1>13, Zenon DEF Quit!CancelQuit
  <2>2. QED
    BY <1>13, <2>1 DEF Quit!CancelQuit
<1>14. ASSUME NEW r \in Requests, Quit!Release(r)
       PROVE  QuitInv'
  <2>1. inProgress' \in BOOLEAN
    BY <1>14, Zenon DEF Quit!Release
  <2>2. QED
    BY <1>14, <2>1 DEF Quit!Release
<1>15. ASSUME NEW r \in Requests, Quit!Quit(r)
       PROVE  QuitInv'
  BY <1>15 DEF Quit!Quit
<1>16. ASSUME Quit!SessionEnds
       PROVE  QuitInv'
  BY <1>16 DEF Quit!SessionEnds
<1>17. ASSUME Quit!OnShutdown
       PROVE  QuitInv'
  <2>1. draining' \in BOOLEAN
    BY <1>17, Zenon DEF Quit!OnShutdown
  <2>2. shuttingDown' \in BOOLEAN
    BY <1>17, Zenon DEF Quit!OnShutdown
  <2>3. quitting' \in BOOLEAN
    BY <1>17, Zenon DEF Quit!OnShutdown
  <2>4. QED
    BY <1>17, <2>1, <2>2, <2>3 DEF Quit!OnShutdown
<1>18. ASSUME NEW c \in Calls, Quit!Admit(c)
       PROVE  QuitInv'
  BY <1>18 DEF Quit!Admit, Quit!Refused
<1>19. ASSUME NEW c \in Calls, Quit!Invoke(c)
       PROVE  QuitInv'
  BY <1>19 DEF Quit!Invoke, Quit!Refused
<1>20. ASSUME NEW c \in Calls, Quit!TrackCall(c)
       PROVE  QuitInv'
  BY <1>20 DEF Quit!TrackCall
<1>21. ASSUME NEW c \in Calls, Quit!CallReturns(c)
       PROVE  QuitInv'
  BY <1>21 DEF Quit!CallReturns
<1>22. CASE UNCHANGED quitVars
  BY <1>22 DEF quitVars
<1>23. QED
  BY <1>1, <1>2, <1>3, <1>4, <1>5, <1>6, <1>7, <1>8, <1>9, <1>10, <1>11, <1>12,
     <1>13, <1>14, <1>15, <1>16, <1>17, <1>18, <1>19, <1>20, <1>21, <1>22
     DEF Quit!Next, Quit!RequestStep

\* No request is under way when the daemon starts.
LEMMA QuitStart ==
    ASSUME Quit!Init
    PROVE  QuitInv
BY DEF Quit!Init, QuitInv, QuitFlowOwned, QuitConfirmOwned, Quit!TypeOK, Quit!DrainCancels,
       Quit!Labels, InFlow, Holding

\* The instance counts with the same Cardinality.
LEMMA QuitCount == \A S : Quit!Cardinality(S) = Cardinality(S)
BY DEF Quit!Cardinality, Cardinality

\* What the invariant says of the quit: one cleanup, a question that is released,
\* no call left uncancelled.
LEMMA QuitSafe ==
    ASSUME QuitInv
    PROVE  Quit!OneCleanup /\ Quit!DrainCancels /\ Quit!ConfirmationReleased
<1> DEFINE S == {r \in Requests : at[r] \in InFlow}
<1>1. (\A x, y \in S : x = y) /\ \A x, y \in asked : x = y
  BY DEF QuitInv, QuitFlowOwned, QuitConfirmOwned
<1> HIDE DEF S
<1>2. Cardinality(S) <= 1 /\ Cardinality(asked) <= 1
  BY <1>1, AtMostOne
<1>3. Quit!OneCleanup
  BY <1>2, QuitCount DEF S, InFlow, Quit!OneCleanup
<1>4. Quit!ConfirmationReleased
  BY <1>2, QuitCount DEF QuitInv, QuitConfirmOwned, Holding, Quit!ConfirmationReleased
<1>5. QED
  BY <1>3, <1>4 DEF QuitInv

-----------------------------------------------------------------------------
(* SelfUpdate: operations and channel switches                             *)

\* The labels of an operation and of a switch.
OpAts == {"none", "check", "checking", "found", "download", "begin", "downloading",
          "verifying", "staged", "install", "rechecked", "installing"}
SwAts == {"none", "wait", "discard", "swap", "reset", "trigger"}

\* A goroutine that runs no operation.
LEMMA OpRest == Update!Rest \in Update!Ops /\ Update!Rest.at = "none"
BY UpdateAssumption DEF Update!Ops, Update!None, Update!Rest, Update!Releases, Update!Backends

\* Replacing one operation leaves the others as they are.
LEMMA OpReplaced ==
    ASSUME op \in [Runners -> Update!Ops], NEW r \in Runners, NEW X \in Update!Ops,
           op' = [op EXCEPT ![r] = X]
    PROVE  /\ op' \in [Runners -> Update!Ops]
           /\ op'[r] = X
           /\ \A q \in Runners \ {r} : op'[q] = op[q]
OBVIOUS

\* An operation that goes on keeps its backend, its release and whether it is the exit's.
LEMMA OpMoves ==
    ASSUME op \in [Runners -> Update!Ops], NEW r \in Runners, NEW a \in OpAts,
           op' = [op EXCEPT ![r].at = a]
    PROVE  /\ op' \in [Runners -> Update!Ops]
           /\ \A q \in Runners \ {r} : op'[q] = op[q]
           /\ op'[r].at = a /\ op'[r].be = op[r].be /\ op'[r].rel = op[r].rel
<1> DEFINE X == [op[r] EXCEPT !.at = a]
<1>1. X \in Update!Ops /\ X.at = a /\ X.be = op[r].be /\ X.rel = op[r].rel
  BY DEF Update!Ops, Update!None, OpAts
<1>2. op' = [op EXCEPT ![r] = X]
  OBVIOUS
<1> HIDE DEF X
<1>3. QED
  BY <1>1, <1>2, OpReplaced

\* The operation reads the backend that is followed now.
LEMMA OpBinds ==
    ASSUME op \in [Runners -> Update!Ops], NEW r \in Runners, NEW a \in OpAts,
           backend \in Update!Backends, op' = [op EXCEPT ![r].at = a, ![r].be = backend]
    PROVE  /\ op' \in [Runners -> Update!Ops]
           /\ \A q \in Runners \ {r} : op'[q] = op[q]
           /\ op'[r].at = a /\ op'[r].be = backend /\ op'[r].rel = op[r].rel
<1> DEFINE X == [op[r] EXCEPT !.at = a, !.be = backend]
<1>1. X \in Update!Ops /\ X.at = a /\ X.be = backend /\ X.rel = op[r].rel
  BY DEF Update!Ops, Update!None, OpAts
<1>2. op' = [op EXCEPT ![r] = X]
  BY DEF Update!Ops
<1> HIDE DEF X
<1>3. QED
  BY <1>1, <1>2, OpReplaced

\* runDownload copies the remembered release.
LEMMA OpCopies ==
    ASSUME op \in [Runners -> Update!Ops], NEW r \in Runners, release \in Update!Releases,
           op' = [op EXCEPT ![r].at = "begin", ![r].rel = release, ![r].dead = op[r].ctxDone]
    PROVE  /\ op' \in [Runners -> Update!Ops]
           /\ \A q \in Runners \ {r} : op'[q] = op[q]
           /\ op'[r].at = "begin" /\ op'[r].rel = release
<1> DEFINE X == [op[r] EXCEPT !.at = "begin", !.rel = release, !.dead = op[r].ctxDone]
<1>1. X \in Update!Ops /\ X.at = "begin" /\ X.rel = release
  BY DEF Update!Ops, Update!None
<1>2. op' = [op EXCEPT ![r] = X]
  BY DEF Update!Ops
<1> HIDE DEF X
<1>3. QED
  BY <1>1, <1>2, OpReplaced

\* A cancellation is only noted: what an operation does and holds stays.
LEMMA OpCancelled ==
    ASSUME op \in [Runners -> Update!Ops], started \in BOOLEAN
    PROVE  /\ Update!Cancelled \in [Runners -> Update!Ops]
           /\ \A q \in Runners : /\ Update!Cancelled[q].at = op[q].at
                                 /\ Update!Cancelled[q].be = op[q].be
                                 /\ Update!Cancelled[q].rel = op[q].rel
<1>1. ASSUME NEW q \in Runners
      PROVE  /\ Update!Cancelled[q] \in Update!Ops
             /\ Update!Cancelled[q].at = op[q].at
             /\ Update!Cancelled[q].be = op[q].be
             /\ Update!Cancelled[q].rel = op[q].rel
  BY ZenonT(60) DEF Update!Cancelled, Update!Ops
<1>2. QED
  BY <1>1 DEF Update!Cancelled

\* The same for the switches.
LEMMA SwMoves ==
    ASSUME sw \in [Switchers -> Update!Switches], NEW s \in Switchers, NEW a \in SwAts,
           sw' = [sw EXCEPT ![s].at = a]
    PROVE  /\ sw' \in [Switchers -> Update!Switches]
           /\ \A t \in Switchers \ {s} : sw'[t] = sw[t]
           /\ sw'[s].at = a
<1> DEFINE X == [sw[s] EXCEPT !.at = a]
<1>1. X \in Update!Switches /\ X.at = a
  BY DEF Update!Switches, Update!None, SwAts
<1>2. sw' = [sw EXCEPT ![s] = X]
  OBVIOUS
<1> HIDE DEF X
<1>3. QED
  BY <1>1, <1>2

\* A switcher that runs no channel switch.
LEMMA SwReset == Update!SwRest \in Update!Switches /\ Update!SwRest.at = "none"
BY UpdateAssumption DEF Update!Switches, Update!None, Update!SwRest, Update!Releases, Update!Backends

\* The steps of an operation at which it holds a release, and at which it holds
\* the backend it works with.
Downloading == {"begin", "downloading", "verifying", "staged"}
Staging == {"downloading", "verifying", "staged"}

\* busy is exactly that a goroutine runs an operation, and one does at most: busy
\* is taken only when it is free and given back by the goroutine that took it.
UpdateSingle ==
    /\ \A r \in Runners : op[r].at # "none" => busy
    /\ \A r, q \in Runners : op[r].at # "none" /\ op[q].at # "none" => r = q

\* As long as no operation began inside a switch, no operation runs inside one,
\* so an operation works with the backend that is followed: what it found, copied
\* and staged is of that backend's channel (runCheck, runDownload, SetChannel).
UpdateFollows ==
    ~overlapped =>
        /\ Update!Switching => ~busy
        /\ release \in {"none", channel[backend]}
        /\ \A r \in Runners :
              /\ op[r].at = "checking" => op[r].be = backend
              /\ op[r].at \in Downloading => op[r].rel = channel[backend]
              /\ op[r].at \in Staging => op[r].be = backend
              /\ op[r].at \in {"downloading", "verifying"} => phase # "ready"
              /\ op[r].at = "staged" => /\ staged[backend] = channel[backend]
                                        /\ disk = channel[backend]

\* What holds after every step of the updater.
UpdateInv == Update!TypeOK /\ UpdateSingle /\ UpdateFollows /\ Update!ReadyIsThisChannel

\* The goroutine that runs is the only one.
LEMMA UpdateAlone ==
    ASSUME UpdateSingle, NEW r \in Runners, op[r].at # "none"
    PROVE  busy /\ \A q \in Runners \ {r} : op[q].at = "none"
BY DEF UpdateSingle

\* After the deferred calls of an operation none runs.
LEMMA UpdateEnds ==
    ASSUME Update!TypeOK, UpdateSingle, NEW r \in Runners, op[r].at # "none", Update!End(r)
    PROVE  /\ op' \in [Runners -> Update!Ops] /\ busy' \in BOOLEAN /\ quits' \in BOOLEAN
           /\ exitClaimed' \in BOOLEAN /\ active' \in Runners \cup {"none"}
           /\ ~busy' /\ \A q \in Runners : op'[q].at = "none"
<1>1. op' \in [Runners -> Update!Ops] /\ \A q \in Runners : op'[q].at = "none"
  BY OpRest, OpReplaced, UpdateAlone DEF Update!TypeOK, Update!End
<1>2. busy' \in BOOLEAN /\ ~busy'
  BY Zenon DEF Update!End
<1>3. quits' \in BOOLEAN /\ exitClaimed' \in BOOLEAN
  BY Zenon DEF Update!End
<1>4. active' \in Runners \cup {"none"}
  BY DEF Update!End, Update!TypeOK, Update!None
<1>5. QED
  BY <1>1, <1>2, <1>3, <1>4

\* Taking busy: it was free, so nobody ran, and the goroutine that begins is alone.
LEMMA UpdateBegins ==
    ASSUME Update!TypeOK, UpdateSingle, NEW a \in OpAts, NEW auto \in BOOLEAN,
           NEW exit \in BOOLEAN, Update!Begin(a, auto, exit)
    PROVE  /\ op' \in [Runners -> Update!Ops] /\ busy' \in BOOLEAN /\ overlapped' \in BOOLEAN
           /\ busy' /\ overlapped' = (overlapped \/ Update!Switching)
           /\ \E f \in Runners : /\ op'[f].at = a
                                 /\ \A q \in Runners \ {f} : op'[q].at = "none"
<1> DEFINE f == Update!FreeRunner
           X == [Update!Rest EXCEPT !.at = a, !.auto = auto, !.exit = exit]
<1>1. \A q \in Runners : op[q].at = "none"
  BY DEF UpdateSingle, Update!Begin
<1>2. f \in Runners
  BY <1>1, UpdateAssumption DEF Update!FreeRunner, Update!None
<1>3. X \in Update!Ops /\ X.at = a
  BY OpRest DEF Update!Ops, Update!None, OpAts
<1>4. op' = [op EXCEPT ![f] = X]
  BY DEF Update!Begin
<1>5. op' \in [Runners -> Update!Ops] /\ op'[f].at = a /\ \A q \in Runners \ {f} : op'[q].at = "none"
  <2> HIDE DEF X, f
  <2>1. QED
    BY <1>1, <1>2, <1>3, <1>4, OpReplaced DEF Update!TypeOK
<1>6. busy' \in BOOLEAN /\ busy' /\ overlapped' = (overlapped \/ Update!Switching)
  BY Zenon DEF Update!Begin
<1>7. overlapped' \in BOOLEAN
  BY <1>6, Zenon
<1>8. QED
  BY <1>2, <1>5, <1>6, <1>7

\* What it takes for the rest of the invariant: the new operations are known to be
\* quiet, or to be one that has bound nothing yet.
Unbound == {"none", "check", "found", "download", "install", "rechecked", "installing"}
\* An operation that has bound no backend and no release follows any channel.
LEMMA UpdateFollowsQuiet ==
    ASSUME UpdateFollows, \A q \in Runners : op'[q].at \in Unbound,
           ~overlapped' => /\ ~overlapped
                           /\ (Update!Switching)' => ~busy'
                           /\ release' \in {"none", channel'[backend']}
    PROVE  UpdateFollows'
BY DEF UpdateFollows, Unbound, Downloading, Staging

\* Where no operation runs, none runs twice.
LEMMA UpdateSingleIdle ==
    ASSUME \A q \in Runners : op'[q].at = "none"
    PROVE  UpdateSingle'
BY DEF UpdateSingle

\* A goroutine that takes busy: what it will work with is not bound yet.
LEMMA UpdateBegun ==
    ASSUME UpdateInv, NEW a \in Unbound, NEW auto \in BOOLEAN, NEW exit \in BOOLEAN,
           Update!Begin(a, auto, exit),
           UNCHANGED <<phase, release, exitClaimed, started, active, backend, channel, staged,
                       disk, sw, quits>>,
           armed' \subseteq BOOLEAN
    PROVE  UpdateInv'
<1> USE DEF UpdateInv
<1>a. a \in OpAts
  BY DEF Unbound, OpAts
<1>1. /\ op' \in [Runners -> Update!Ops] /\ busy' \in BOOLEAN /\ overlapped' \in BOOLEAN
      /\ busy' /\ overlapped' = (overlapped \/ Update!Switching)
  BY <1>a, UpdateBegins
<1>2. PICK f \in Runners : op'[f].at = a /\ \A q \in Runners \ {f} : op'[q].at = "none"
  BY <1>a, UpdateBegins
<1>3. Update!TypeOK'
  BY <1>1 DEF Update!TypeOK
<1>4. UpdateSingle'
  BY <1>1, <1>2 DEF UpdateSingle
<1>5. (Update!Switching)' = Update!Switching
  BY DEF Update!Switching
<1>6. \A q \in Runners : op'[q].at \in Unbound
  BY <1>2 DEF Unbound
<1>7. ~overlapped' => ~overlapped /\ ~Update!Switching
  BY <1>1
<1>8. UpdateFollows'
  <2>1. ~overlapped' => release' \in {"none", channel'[backend']}
    BY <1>7 DEF UpdateFollows
  <2>2. QED
    BY <1>5, <1>6, <1>7, <2>1, UpdateFollowsQuiet
<1>9. (Update!ReadyIsThisChannel)'
  BY <1>5, <1>7 DEF Update!ReadyIsThisChannel
<1>10. QED
  BY <1>3, <1>4, <1>8, <1>9

\* A cancellation of what runs: SetChannel and Stop.
LEMMA UpdateCancels ==
    ASSUME UpdateInv, op' = Update!Cancelled, started' = FALSE, active' = "none",
           UNCHANGED <<phase, release, busy, exitClaimed, backend, channel, staged, disk, armed,
                       quits, overlapped>>,
           sw' \in [Switchers -> Update!Switches], (Update!Switching)' = Update!Switching
    PROVE  UpdateInv'
<1> USE DEF UpdateInv
<1>1. /\ op' \in [Runners -> Update!Ops]
      /\ \A q \in Runners : op'[q].at = op[q].at /\ op'[q].be = op[q].be /\ op'[q].rel = op[q].rel
  BY OpCancelled DEF Update!TypeOK
<1>2. started' \in BOOLEAN
  BY Zenon
<1>3. Update!TypeOK'
  BY <1>1, <1>2 DEF Update!TypeOK, Update!None
<1>4. UpdateSingle'
  BY <1>1 DEF UpdateSingle
<1>5. UpdateFollows'
  BY <1>1 DEF UpdateFollows
<1>6. (Update!ReadyIsThisChannel)'
  BY DEF Update!ReadyIsThisChannel
<1>7. QED
  BY <1>3, <1>4, <1>5, <1>6

\* The deferred calls, after a step that leaves the switches alone.
LEMMA UpdateEnded ==
    ASSUME UpdateInv, NEW r \in Runners, op[r].at # "none", Update!End(r), Update!Quiet,
           phase' \in Update!Phases, release' = release, disk' \in Update!Releases,
           staged' = staged,
           phase' = "ready" /\ ~overlapped =>
               staged[backend] = channel[backend] /\ disk' = channel[backend]
    PROVE  UpdateInv'
<1> USE DEF UpdateInv
<1>1. /\ op' \in [Runners -> Update!Ops] /\ busy' \in BOOLEAN /\ quits' \in BOOLEAN
      /\ exitClaimed' \in BOOLEAN /\ active' \in Runners \cup {"none"}
      /\ ~busy' /\ \A q \in Runners : op'[q].at = "none"
  BY UpdateEnds
<1>2. Update!TypeOK'
  BY <1>1 DEF Update!TypeOK, Update!Quiet, Update!None
<1>3. UpdateSingle'
  BY <1>1, UpdateSingleIdle
<1>4. UpdateFollows'
  BY <1>1, UpdateFollowsQuiet DEF UpdateFollows, Update!Quiet, Unbound
<1>5. (Update!ReadyIsThisChannel)'
  BY DEF Update!ReadyIsThisChannel, Update!Quiet
<1>6. QED
  BY <1>2, <1>3, <1>4, <1>5

\* A step of an operation that goes on.
LEMMA UpdateGoesOn ==
    ASSUME UpdateInv, NEW r \in Runners, op[r].at # "none", Update!Quiet,
           op' \in [Runners -> Update!Ops], \A q \in Runners \ {r} : op'[q] = op[q],
           UNCHANGED <<busy, exitClaimed, quits>>, active' \in Runners \cup {"none"},
           phase' \in Update!Phases, release' \in Update!Releases, disk' \in Update!Releases,
           staged' \in [Update!Backends -> Update!Releases],
           ~overlapped =>
              /\ release' \in {"none", channel[backend]}
              /\ op'[r].at = "checking" => op'[r].be = backend
              /\ op'[r].at \in Downloading => op'[r].rel = channel[backend]
              /\ op'[r].at \in Staging => op'[r].be = backend
              /\ op'[r].at \in {"downloading", "verifying"} => phase' # "ready"
              /\ op'[r].at = "staged" => /\ staged'[backend] = channel[backend]
                                         /\ disk' = channel[backend],
           phase' = "ready" /\ ~overlapped =>
               \/ staged'[backend] = channel[backend] /\ disk' = channel[backend]
               \/ phase = "ready" /\ UNCHANGED <<disk, staged>>
    PROVE  UpdateInv'
<1> USE DEF UpdateInv
<1>1. busy /\ \A q \in Runners \ {r} : op[q].at = "none"
  BY UpdateAlone
<1>2. Update!TypeOK'
  BY DEF Update!TypeOK, Update!Quiet, Update!None
<1>3. UpdateSingle'
  BY <1>1 DEF UpdateSingle
<1>4. (Update!Switching)' = Update!Switching
  BY DEF Update!Switching, Update!Quiet
<1>5. UpdateFollows'
  <2> SUFFICES ASSUME ~overlapped
               PROVE  UpdateFollows'
    BY DEF UpdateFollows, Update!Quiet
  <2>1. (Update!Switching)' => ~busy'
    BY <1>4 DEF UpdateFollows
  <2>2. \A q \in Runners \ {r} : op'[q].at = "none"
    BY <1>1
  <2>3. QED
    BY <2>1, <2>2 DEF UpdateFollows, Update!Quiet, Downloading, Staging
<1>6. (Update!ReadyIsThisChannel)'
  BY <1>4 DEF Update!ReadyIsThisChannel, Update!Quiet
<1>7. QED
  BY <1>2, <1>3, <1>5, <1>6

\* Every step of the coordinator, of its goroutines and of its switches keeps the
\* invariant.
LEMMA UpdateStep ==
    ASSUME UpdateInv, [Update!Next]_updateVars
    PROVE  UpdateInv'
<1> USE DEF UpdateInv
<1>t. /\ phase \in Update!Phases /\ release \in Update!Releases /\ disk \in Update!Releases
      /\ backend \in Update!Backends /\ channel \in [Update!Backends -> Update!Releases]
      /\ staged \in [Update!Backends -> Update!Releases] /\ armed \subseteq BOOLEAN
      /\ active \in Runners \cup {"none"}
      /\ op \in [Runners -> Update!Ops] /\ sw \in [Switchers -> Update!Switches]
      /\ \A r \in Runners : op[r].be \in Update!Backends /\ op[r].rel \in Update!Releases
      /\ \A s \in Switchers : sw[s].be \in Update!Backends /\ sw[s].to \in Update!Releases
  <2>1. Update!TypeOK
    OBVIOUS
  <2>2. /\ \A o \in Update!Ops : o.be \in Update!Backends /\ o.rel \in Update!Releases
        /\ \A w \in Update!Switches : w.be \in Update!Backends /\ w.to \in Update!Releases
    BY DEF Update!Ops, Update!Switches
  <2>3. QED
    BY <2>1, <2>2 DEF Update!TypeOK, Update!None
<1>u. CASE UNCHANGED updateVars
  BY <1>u DEF updateVars, Update!TypeOK, UpdateSingle, UpdateFollows, Update!Switching,
              Update!ReadyIsThisChannel
<1>1. CASE Update!TriggerRead
  <2>1. armed' \subseteq BOOLEAN
    BY <1>1, <1>t DEF Update!TriggerRead
  <2>2. QED
    BY <1>1, <2>1 DEF Update!TriggerRead, Update!TypeOK, UpdateSingle, UpdateFollows,
                      Update!Switching, Update!ReadyIsThisChannel
<1>2. CASE Update!Trigger
  <2>1. PICK auto \in armed :
            /\ armed' = armed \ {auto}
            /\ \/ Update!Begin("check", auto, FALSE)
               \/ busy /\ UNCHANGED <<busy, op, overlapped>>
    BY <1>2 DEF Update!Trigger
  <2>2. armed' \subseteq BOOLEAN /\ auto \in BOOLEAN
    BY <2>1, <1>t
  <2>3. CASE Update!Begin("check", auto, FALSE)
    BY <1>2, <2>2, <2>3, UpdateBegun DEF Update!Trigger, Unbound
  <2>4. CASE UNCHANGED <<busy, op, overlapped>>
    BY <1>2, <2>2, <2>4 DEF Update!Trigger, Update!TypeOK, UpdateSingle, UpdateFollows,
                            Update!Switching, Update!ReadyIsThisChannel
  <2>5. QED
    BY <2>1, <2>3, <2>4
<1>3. CASE Update!ActionDownload
  BY <1>3, <1>t, UpdateBegun DEF Update!ActionDownload, Unbound
<1>4. CASE Update!ActionInstall
  BY <1>4, <1>t, UpdateBegun DEF Update!ActionInstall, Unbound
<1>5. CASE Update!InstallOnExit
  <2> DEFINE f == Update!FreeRunner
             X == [Update!Rest EXCEPT !.at = "install", !.exit = TRUE]
             C == Update!Cancelled
  <2>1. \A q \in Runners : op[q].at = "none"
    BY <1>5 DEF UpdateSingle, Update!InstallOnExit
  <2>2. f \in Runners
    BY <2>1, UpdateAssumption DEF Update!FreeRunner, Update!None
  <2>3. X \in Update!Ops /\ X.at = "install"
    BY OpRest DEF Update!Ops, Update!None
  <2>4. op' = [C EXCEPT ![f] = X]
    BY <1>5 DEF Update!InstallOnExit
  <2>5. C \in [Runners -> Update!Ops] /\ \A q \in Runners : C[q].at = "none"
    BY <2>1, OpCancelled DEF Update!TypeOK
  <2>6. /\ op' \in [Runners -> Update!Ops] /\ op'[f].at = "install"
        /\ \A q \in Runners \ {f} : op'[q].at = "none"
    <3> HIDE DEF X, f, C
    <3>1. QED
      BY <2>2, <2>3, <2>4, <2>5
  <2>7. /\ busy' \in BOOLEAN /\ busy' /\ exitClaimed' \in BOOLEAN /\ quits' \in BOOLEAN
        /\ started' \in BOOLEAN /\ overlapped' = (overlapped \/ Update!Switching)
    BY <1>5, Zenon DEF Update!InstallOnExit
  <2>8. overlapped' \in BOOLEAN
    BY <2>7, Zenon
  <2>9. (Update!Switching)' = Update!Switching
    BY <1>5 DEF Update!Switching, Update!InstallOnExit
  <2>10. ~overlapped' => ~overlapped /\ ~Update!Switching
    BY <2>7
  <2> HIDE DEF X, f, C
  <2>11. Update!TypeOK'
    BY <1>5, <2>6, <2>7, <2>8 DEF Update!InstallOnExit, Update!TypeOK, Update!None
  <2>12. UpdateSingle'
    BY <2>6, <2>7 DEF UpdateSingle
  <2>13. UpdateFollows'
    <3>1. \A q \in Runners : op'[q].at \in Unbound
      BY <2>6 DEF Unbound
    <3>2. ~overlapped' => release' \in {"none", channel'[backend']}
      BY <1>5, <2>10 DEF UpdateFollows, Update!InstallOnExit
    <3>3. QED
      BY <2>9, <2>10, <3>1, <3>2, UpdateFollowsQuiet
  <2>14. (Update!ReadyIsThisChannel)'
    BY <1>5, <2>9, <2>10 DEF Update!ReadyIsThisChannel, Update!InstallOnExit
  <2>15. QED
    BY <2>11, <2>12, <2>13, <2>14
<1>6. CASE Update!Stop
  <2>1. (Update!Switching)' = Update!Switching
    BY <1>6 DEF Update!Stop, Update!Switching
  <2>2. QED
    BY <1>6, <1>t, <2>1, UpdateCancels DEF Update!Stop, Update!None
<1>7. CASE Update!Start
  <2>1. started' \in BOOLEAN
    BY <1>7, Zenon DEF Update!Start
  <2>2. QED
    BY <1>7, <2>1 DEF Update!Start, Update!TypeOK, UpdateSingle, UpdateFollows,
                      Update!Switching, Update!ReadyIsThisChannel
<1>8. ASSUME NEW r \in Runners, Update!CheckBegins(r) PROVE UpdateInv'
  <2>1. /\ op' \in [Runners -> Update!Ops]
        /\ \A q \in Runners \ {r} : op'[q] = op[q]
        /\ op'[r].at = "checking" /\ op'[r].be = backend
    BY <1>8, <1>t, OpBinds DEF Update!CheckBegins, OpAts
  <2>2. QED
    BY <1>8, <1>t, <2>1, UpdateGoesOn
       DEF Update!CheckBegins, UpdateFollows, Update!Phases, Downloading, Staging
<1>9. ASSUME NEW r \in Runners, Update!CheckEnds(r) PROVE UpdateInv'
  <2>1. CASE /\ Update!End(r) /\ phase' \in {"error", "uptodate"} /\ UNCHANGED release
    BY <1>9, <1>t, <2>1, UpdateEnded DEF Update!CheckEnds, Update!Phases
  <2>2. CASE release' = channel[op[r].be] /\ Update!Stay(r, "found") /\ UNCHANGED phase
    <3>1. /\ op' \in [Runners -> Update!Ops]
          /\ op'[r].at = "found" /\ \A q \in Runners \ {r} : op'[q] = op[q]
      BY <1>9, <1>t, <2>2, OpMoves DEF Update!Stay, OpAts
    <3>2. ~overlapped => release' = channel[backend]
      BY <1>9, <2>2 DEF UpdateFollows, Update!CheckEnds
    <3>3. QED
      BY <1>9, <1>t, <2>2, <3>1, <3>2, UpdateGoesOn
         DEF Update!CheckEnds, Update!Stay, Downloading, Staging
  <2>3. QED
    BY <1>9, <2>1, <2>2 DEF Update!CheckEnds, Update!Fail
<1>10. ASSUME NEW r \in Runners, Update!Found(r) PROVE UpdateInv'
  <2>1. CASE Update!Stay(r, "download")
    <3>1. /\ op' \in [Runners -> Update!Ops]
          /\ op'[r].at = "download" /\ \A q \in Runners \ {r} : op'[q] = op[q]
      BY <1>10, <1>t, <2>1, OpMoves DEF Update!Stay, OpAts
    <3>2. QED
      BY <1>10, <1>t, <2>1, <3>1, UpdateGoesOn
         DEF Update!Found, Update!Stay, Update!Phases, UpdateFollows, Downloading, Staging
  <2>2. CASE Update!End(r)
    BY <1>10, <1>t, <2>2, UpdateEnded DEF Update!Found, Update!Phases
  <2>3. QED
    BY <1>10, <2>1, <2>2 DEF Update!Found
<1>11. ASSUME NEW r \in Runners, Update!DownloadBegins(r) PROVE UpdateInv'
  <2>1. CASE Update!Fail(r)
    BY <1>11, <1>t, <2>1, UpdateEnded DEF Update!DownloadBegins, Update!Fail, Update!Phases
  <2>2. CASE /\ op' = [op EXCEPT ![r].at = "begin", ![r].rel = release, ![r].dead = op[r].ctxDone]
             /\ active' = r /\ release # "none"
             /\ UNCHANGED <<phase, busy, exitClaimed, quits>>
    <3>1. /\ op' \in [Runners -> Update!Ops]
          /\ op'[r].at = "begin" /\ op'[r].rel = release
          /\ \A q \in Runners \ {r} : op'[q] = op[q]
      BY <1>t, <2>2, OpCopies
    <3>2. ~overlapped => release = channel[backend]
      BY <2>2 DEF UpdateFollows
    <3>3. QED
      BY <1>11, <1>t, <2>2, <3>1, <3>2, UpdateGoesOn
         DEF Update!DownloadBegins, Downloading, Staging
  <2>3. QED
    BY <1>11, <2>1, <2>2 DEF Update!DownloadBegins, Update!None
<1>12. ASSUME NEW r \in Runners, Update!StageBegins(r) PROVE UpdateInv'
  <2>1. /\ op' \in [Runners -> Update!Ops]
        /\ \A q \in Runners \ {r} : op'[q] = op[q]
        /\ op'[r].at = "downloading" /\ op'[r].be = backend /\ op'[r].rel = op[r].rel
    BY <1>12, <1>t, OpBinds DEF Update!StageBegins, OpAts
  <2>2. QED
    BY <1>12, <1>t, <2>1, UpdateGoesOn
       DEF Update!StageBegins, UpdateFollows, Update!Phases, Downloading, Staging
<1>13. ASSUME NEW r \in Runners, Update!Downloads(r) PROVE UpdateInv'
  <2>1. CASE Update!Fail(r)
    BY <1>13, <1>t, <2>1, UpdateEnded DEF Update!Downloads, Update!Fail, Update!Phases
  <2>2. CASE Update!End(r) /\ UNCHANGED phase
    BY <1>13, <1>t, <2>2, UpdateEnded DEF Update!Downloads, UpdateFollows
  <2>3. CASE phase' = "verifying" /\ Update!Stay(r, "verifying")
    <3>1. /\ op' \in [Runners -> Update!Ops]
          /\ op'[r].at = "verifying" /\ op'[r].be = op[r].be /\ op'[r].rel = op[r].rel
          /\ \A q \in Runners \ {r} : op'[q] = op[q]
      BY <1>13, <1>t, <2>3, OpMoves DEF Update!Stay, OpAts
    <3>2. QED
      BY <1>13, <1>t, <2>3, <3>1, UpdateGoesOn
         DEF Update!Downloads, Update!Stay, Update!Phases, UpdateFollows, Downloading, Staging
  <2>4. QED
    BY <1>13, <2>1, <2>2, <2>3 DEF Update!Downloads
<1>14. ASSUME NEW r \in Runners, Update!Verifies(r) PROVE UpdateInv'
  <2>1. CASE Update!Fail(r) /\ disk' \in {disk, op[r].rel} /\ UNCHANGED staged
    BY <1>14, <1>t, <2>1, UpdateEnded DEF Update!Verifies, Update!Fail, Update!Phases
  <2>2. CASE /\ disk' = op[r].rel
             /\ staged' = [staged EXCEPT ![op[r].be] = op[r].rel]
             /\ Update!Stay(r, "staged") /\ UNCHANGED phase
    <3>1. /\ op' \in [Runners -> Update!Ops]
          /\ op'[r].at = "staged" /\ op'[r].be = op[r].be /\ op'[r].rel = op[r].rel
          /\ \A q \in Runners \ {r} : op'[q] = op[q]
      BY <1>14, <1>t, <2>2, OpMoves DEF Update!Stay, OpAts
    <3>2. staged' \in [Update!Backends -> Update!Releases] /\ disk' \in Update!Releases
      BY <1>t, <2>2
    <3>3. ~overlapped => /\ op[r].be = backend /\ op[r].rel = channel[backend]
                         /\ phase # "ready"
                         /\ release \in {"none", channel[backend]}
      BY <1>14 DEF Update!Verifies, UpdateFollows, Downloading, Staging
    <3>4. ~overlapped => staged'[backend] = channel[backend] /\ disk' = channel[backend]
      BY <1>t, <2>2, <3>3
    <3>5. QED
      BY <1>14, <1>t, <2>2, <3>1, <3>2, <3>3, <3>4, UpdateGoesOn
         DEF Update!Verifies, Update!Stay
  <2>3. QED
    BY <1>14, <2>1, <2>2 DEF Update!Verifies
<1>15. ASSUME NEW r \in Runners, Update!Ready(r) PROVE UpdateInv'
  BY <1>15, <1>t, UpdateEnded DEF Update!Ready, Update!Phases, UpdateFollows
<1>16. ASSUME NEW r \in Runners, Update!Recheck(r) PROVE UpdateInv'
  <2>1. CASE Update!Fail(r)
    BY <1>16, <1>t, <2>1, UpdateEnded DEF Update!Recheck, Update!Fail, Update!Phases
  <2>2. CASE Update!Stay(r, "rechecked") /\ UNCHANGED phase
    <3>1. /\ op' \in [Runners -> Update!Ops]
          /\ op'[r].at = "rechecked" /\ \A q \in Runners \ {r} : op'[q] = op[q]
      BY <1>16, <1>t, <2>2, OpMoves DEF Update!Stay, OpAts
    <3>2. QED
      BY <1>16, <1>t, <2>2, <3>1, UpdateGoesOn
         DEF Update!Recheck, Update!Stay, UpdateFollows, Downloading, Staging
  <2>3. QED
    BY <1>16, <2>1, <2>2 DEF Update!Recheck
<1>17. ASSUME NEW r \in Runners, Update!StopUI(r) PROVE UpdateInv'
  <2>1. CASE Update!Fail(r)
    BY <1>17, <1>t, <2>1, UpdateEnded DEF Update!StopUI, Update!Fail, Update!Phases
  <2>2. CASE /\ phase' = "installing"
             /\ op' = [op EXCEPT ![r].at = "installing", ![r].be = backend]
             /\ UNCHANGED <<busy, active, exitClaimed, quits>>
    <3>1. /\ op' \in [Runners -> Update!Ops]
          /\ op'[r].at = "installing" /\ \A q \in Runners \ {r} : op'[q] = op[q]
      BY <1>t, <2>2, OpBinds DEF OpAts
    <3>2. QED
      BY <1>17, <1>t, <2>2, <3>1, UpdateGoesOn
         DEF Update!StopUI, Update!Phases, UpdateFollows, Downloading, Staging
  <2>3. QED
    BY <1>17, <2>1, <2>2 DEF Update!StopUI
<1>18. ASSUME NEW r \in Runners, Update!Install(r) PROVE UpdateInv'
  <2>1. CASE Update!Fail(r)
    BY <1>18, <1>t, <2>1, UpdateEnded DEF Update!Install, Update!Fail, Update!Phases
  <2>2. CASE Update!End(r) /\ UNCHANGED phase
    <3>1. phase = "ready" /\ ~overlapped /\ Update!Switching => FALSE
      BY <1>18, UpdateAlone DEF Update!Install, UpdateFollows
    <3>2. QED
      BY <1>18, <1>t, <2>2, <3>1, UpdateEnded DEF Update!Install, Update!ReadyIsThisChannel
  <2>3. QED
    BY <1>18, <2>1, <2>2 DEF Update!Install
<1>19. ASSUME NEW s \in Switchers, NEW c \in Channels, Update!SwitchBegins(s, c) PROVE UpdateInv'
  <2> DEFINE W == [at |-> "wait", to |-> c, be |-> backend]
  <2>1. W \in Update!Switches /\ W.at = "wait"
    BY <1>t DEF Update!Switches, Update!Releases
  <2>2. sw' = [sw EXCEPT ![s] = W]
    BY <1>19 DEF Update!SwitchBegins
  <2> HIDE DEF W
  <2>3. sw' \in [Switchers -> Update!Switches] /\ (Update!Switching)' = Update!Switching
    BY <1>19, <1>t, <2>1, <2>2 DEF Update!Switching, Update!SwitchBegins, Update!None
  <2>4. QED
    BY <1>19, <2>3, UpdateCancels DEF Update!SwitchBegins, Update!None
<1>20. ASSUME NEW s \in Switchers, Update!SwitchIdle(s) PROVE UpdateInv'
  <2>1. /\ sw' \in [Switchers -> Update!Switches]
        /\ (Update!Switching)' => Update!Switching \/ ~busy
        /\ Update!Switching => (Update!Switching)'
    <3>1. CASE ~busy /\ sw' = [sw EXCEPT ![s].at = "discard"]
      <4>1. /\ sw' \in [Switchers -> Update!Switches] /\ sw'[s].at = "discard"
            /\ \A t \in Switchers \ {s} : sw'[t] = sw[t]
        BY <1>t, <3>1, SwMoves DEF SwAts
      <4>2. QED
        BY <3>1, <4>1 DEF Update!Switching
    <3>2. CASE sw' = [sw EXCEPT ![s] = Update!SwRest]
      BY <1>20, <1>t, <3>2, SwReset DEF Update!Switching, Update!SwitchIdle
    <3>3. QED
      BY <1>20, <3>1, <3>2 DEF Update!SwitchIdle
  <2>2. Update!TypeOK'
    BY <1>20, <2>1 DEF Update!SwitchIdle, Update!TypeOK
  <2>3. UpdateSingle'
    BY <1>20 DEF Update!SwitchIdle, UpdateSingle
  <2>4. UpdateFollows'
    BY <1>20, <2>1 DEF Update!SwitchIdle, UpdateFollows
  <2>5. (Update!ReadyIsThisChannel)'
    BY <1>20, <2>1 DEF Update!SwitchIdle, Update!ReadyIsThisChannel
  <2>6. QED
    BY <2>2, <2>3, <2>4, <2>5
<1>21. ASSUME NEW s \in Switchers, Update!Discard(s) PROVE UpdateInv'
  <2>1. /\ sw' \in [Switchers -> Update!Switches] /\ sw'[s].at = "swap"
        /\ \A t \in Switchers \ {s} : sw'[t] = sw[t]
    BY <1>21, <1>t, SwMoves DEF Update!Discard, SwAts
  <2>2. Update!Switching /\ (Update!Switching)'
    BY <1>21, <2>1 DEF Update!Discard, Update!Switching
  <2>3. staged' \in [Update!Backends -> Update!Releases] /\ disk' \in Update!Releases
    BY <1>21, <1>t DEF Update!Discard, Update!Releases, Update!None
  <2>4. Update!TypeOK'
    BY <1>21, <2>1, <2>3 DEF Update!Discard, Update!TypeOK
  <2>5. UpdateSingle'
    BY <1>21 DEF Update!Discard, UpdateSingle
  <2>6. UpdateFollows'
    <3>1. ~overlapped => ~busy /\ \A q \in Runners : op'[q].at \in Unbound
      BY <1>21, <2>2 DEF Update!Discard, UpdateFollows, UpdateSingle, Unbound
    <3>2. CASE overlapped
      BY <1>21, <3>2 DEF Update!Discard, UpdateFollows
    <3>3. CASE ~overlapped
      BY <1>21, <3>1, <3>3, UpdateFollowsQuiet DEF Update!Discard, UpdateFollows
    <3>4. QED
      BY <3>2, <3>3
  <2>7. (Update!ReadyIsThisChannel)'
    BY <2>2 DEF Update!ReadyIsThisChannel
  <2>8. QED
    BY <2>4, <2>5, <2>6, <2>7
<1>22. ASSUME NEW s \in Switchers, Update!Swap(s) PROVE UpdateInv'
  <2>1. /\ sw' \in [Switchers -> Update!Switches] /\ sw'[s].at = "reset"
        /\ \A t \in Switchers \ {s} : sw'[t] = sw[t]
    BY <1>22, <1>t, SwMoves DEF Update!Swap, SwAts
  <2>2. Update!Switching /\ (Update!Switching)'
    BY <1>22, <2>1 DEF Update!Swap, Update!Switching
  <2>3. /\ backend' \in Update!Backends /\ release' = "none"
        /\ channel' \in [Update!Backends -> Update!Releases]
    BY <1>22, <1>t, UpdateAssumption DEF Update!Swap, Update!Backends, Update!None
  <2>4. Update!TypeOK'
    BY <1>22, <2>1, <2>3 DEF Update!Swap, Update!TypeOK, Update!Releases, Update!None
  <2>5. UpdateSingle'
    BY <1>22 DEF Update!Swap, UpdateSingle
  <2>6. UpdateFollows'
    <3>1. ~overlapped => ~busy /\ \A q \in Runners : op'[q].at \in Unbound
      BY <1>22, <2>2 DEF Update!Swap, UpdateFollows, UpdateSingle, Unbound
    <3>2. CASE overlapped
      BY <1>22, <3>2 DEF Update!Swap, UpdateFollows
    <3>3. CASE ~overlapped
      BY <1>22, <2>3, <3>1, <3>3, UpdateFollowsQuiet DEF Update!Swap
    <3>4. QED
      BY <3>2, <3>3
  <2>7. (Update!ReadyIsThisChannel)'
    BY <2>2 DEF Update!ReadyIsThisChannel
  <2>8. QED
    BY <2>4, <2>5, <2>6, <2>7
<1>23. ASSUME NEW s \in Switchers, Update!Reset(s) PROVE UpdateInv'
  <2>1. /\ sw' \in [Switchers -> Update!Switches] /\ sw'[s].at = "trigger"
        /\ \A t \in Switchers \ {s} : sw'[t] = sw[t]
    BY <1>23, <1>t, SwMoves DEF Update!Reset, SwAts
  <2>2. (Update!Switching)' => Update!Switching
    BY <2>1 DEF Update!Switching
  <2>3. Update!TypeOK'
    BY <1>23, <2>1 DEF Update!Reset, Update!TypeOK, Update!Phases
  <2>4. UpdateSingle'
    BY <1>23 DEF Update!Reset, UpdateSingle
  <2>5. UpdateFollows'
    BY <1>23, <2>2 DEF Update!Reset, UpdateFollows
  <2>6. (Update!ReadyIsThisChannel)'
    BY <1>23 DEF Update!Reset, Update!ReadyIsThisChannel
  <2>7. QED
    BY <2>3, <2>4, <2>5, <2>6
<1>24. ASSUME NEW s \in Switchers, Update!CheckNew(s) PROVE UpdateInv'
  <2>1. /\ sw' \in [Switchers -> Update!Switches]
        /\ (Update!Switching)' = Update!Switching
    BY <1>24, <1>t, SwReset DEF Update!CheckNew, Update!Switching
  <2>a. armed' \subseteq BOOLEAN
    <3>1. armed' = armed \/ armed' = armed \cup {FALSE}
      BY <1>24 DEF Update!CheckNew
    <3>2. armed \subseteq BOOLEAN
      BY <1>t
    <3>3. QED
      BY <3>1, <3>2
  <2>2. Update!TypeOK'
    BY <1>24, <2>1, <2>a DEF Update!CheckNew, Update!TypeOK
  <2>3. UpdateSingle'
    BY <1>24 DEF Update!CheckNew, UpdateSingle
  <2>4. UpdateFollows'
    BY <1>24, <2>1 DEF Update!CheckNew, UpdateFollows
  <2>5. (Update!ReadyIsThisChannel)'
    BY <1>24, <2>1 DEF Update!CheckNew, Update!ReadyIsThisChannel
  <2>6. QED
    BY <2>2, <2>3, <2>4, <2>5
<1>25. QED
  BY <1>u, <1>1, <1>2, <1>3, <1>4, <1>5, <1>6, <1>7, <1>8, <1>9, <1>10, <1>11, <1>12, <1>13,
     <1>14, <1>15, <1>16, <1>17, <1>18, <1>19, <1>20, <1>21, <1>22, <1>23, <1>24
     DEF Update!Next, Update!RunnerNext, Update!SwitchNext, updateVars

\* No operation, no switch and nothing staged when the updater is made.
LEMMA UpdateStart ==
    ASSUME Update!Init
    PROVE  UpdateInv
<1> USE DEF Update!Init
<1>1. op \in [Runners -> Update!Ops] /\ \A r \in Runners : op[r].at = "none"
  BY OpRest
<1>2. sw \in [Switchers -> Update!Switches] /\ ~Update!Switching
  BY SwReset DEF Update!Switching
<1>3. /\ backend \in Update!Backends /\ channel \in [Update!Backends -> Update!Releases]
      /\ staged \in [Update!Backends -> Update!Releases]
  BY UpdateAssumption DEF Update!Backends, Update!Releases
<1>4. Update!TypeOK
  BY <1>1, <1>2, <1>3 DEF Update!TypeOK, Update!Phases, Update!Releases, Update!None
<1>5. UpdateSingle /\ UpdateFollows /\ Update!ReadyIsThisChannel
  BY <1>1, <1>2 DEF UpdateSingle, UpdateFollows, Update!ReadyIsThisChannel, Downloading, Staging,
                    Update!None
<1>6. QED
  BY <1>4, <1>5 DEF UpdateInv

\* The instance counts as FiniteSets does.
LEMMA UpdateCount == \A S : Update!Cardinality(S) = Cardinality(S)
BY DEF Update!Cardinality, Cardinality

\* The invariant gives the two promises the run checks of the updater.
LEMMA UpdateSafe ==
    ASSUME UpdateInv
    PROVE  Update!OneOperation /\ Update!ReadyIsThisChannel
<1> DEFINE S == {r \in Runners : op[r].at # "none"}
<1>1. \A x, y \in S : x = y
  BY DEF UpdateInv, UpdateSingle
<1> HIDE DEF S
<1>2. Cardinality(S) <= 1
  BY <1>1, AtMostOne
<1>3. Update!OneOperation
  BY <1>2, UpdateCount DEF S, UpdateInv, UpdateSingle, Update!OneOperation, Update!None
<1>4. QED
  BY <1>3 DEF UpdateInv

\* Only the deferred calls of the exit's goroutine take its claim away, and they quit.
LEMMA ExitQuits ==
    ASSUME [Update!Next]_updateVars
    PROVE  Update!ExitQuitsStep
BY ZenonT(60) DEF Update!Next, updateVars, Update!RunnerNext, Update!SwitchNext, Update!ExitQuitsStep,
       Update!TriggerRead, Update!Trigger, Update!ActionDownload, Update!ActionInstall,
       Update!InstallOnExit, Update!Stop, Update!Start, Update!CheckBegins, Update!CheckEnds,
       Update!Found, Update!DownloadBegins, Update!StageBegins, Update!Downloads,
       Update!Verifies, Update!Ready, Update!Recheck, Update!StopUI, Update!Install,
       Update!SwitchBegins, Update!SwitchIdle, Update!Discard, Update!Swap, Update!Reset,
       Update!CheckNew, Update!End, Update!Fail, Update!Stay

-----------------------------------------------------------------------------
(* Publishing: the trailing publisher                                      *)

\* One goroutine drains as long as drainingOut is set, and none otherwise
\* (enqueueLocked, drain).
PublishSingle ==
    /\ \A d, e \in Publish!Drainers :
          drainer[d].at # "idle" /\ drainer[e].at # "idle" => d = e
    /\ drainingOut <=> \E d \in Publish!Drainers : drainer[d].at # "idle"
    /\ outbox # <<>> => drainingOut

\* The values on their way are in the order enqueue accepted them: the published
\* one, the one the drainer holds, the queued ones, the pending one.
PublishOrdered ==
    /\ published <= accepted
    /\ \A d \in Publish!Drainers : drainer[d].at = "publish" =>
          /\ published < drainer[d].v /\ drainer[d].v <= accepted
          /\ \A i \in 1..Len(outbox) : drainer[d].v < outbox[i]
          /\ pendingValue # 0 => drainer[d].v < pendingValue
    /\ \A i \in 1..Len(outbox) :
          /\ published < outbox[i] /\ outbox[i] <= accepted
          /\ \A j \in 1..Len(outbox) : i < j => outbox[i] < outbox[j]
          /\ pendingValue # 0 => outbox[i] < pendingValue
    /\ pendingValue # 0 => published < pendingValue

\* The armed timer is the newest one and its callback is still to come.
PublishTimed ==
    /\ timer # 0 => /\ timer = timerID /\ timerID < 2 * MaxTimers
                    /\ timer \in firing /\ ~closed
    /\ pendingValue # 0 => timer # 0

\* The last accepted value is the last of those on their way.
PublishLatest ==
    ~closed =>
        /\ pendingValue # 0 => pendingValue = accepted
        /\ pendingValue = 0 /\ outbox # <<>> => outbox[Len(outbox)] = accepted
        /\ pendingValue = 0 /\ outbox = <<>> =>
              \/ published = accepted
              \/ \E d \in Publish!Drainers : drainer[d].at = "publish" /\ drainer[d].v = accepted

\* What holds after every step of the trailing publisher.
PublishInv ==
    Publish!TypeOK /\ PublishSingle /\ PublishOrdered /\ PublishTimed /\ PublishLatest

\* Who drains moves on, and nobody else.
LEMMA TurnReplaced ==
    ASSUME drainer \in [Publish!Drainers -> Publish!Turns], NEW d \in Publish!Drainers,
           NEW X \in Publish!Turns, drainer' = [drainer EXCEPT ![d] = X]
    PROVE  /\ drainer' \in [Publish!Drainers -> Publish!Turns] /\ drainer'[d] = X
           /\ \A e \in Publish!Drainers \ {d} : drainer'[e] = drainer[e]
OBVIOUS

\* Queueing a value larger than every queued one; the first to queue drains.
LEMMA PublishQueues ==
    ASSUME Publish!TypeOK, PublishSingle, NEW d \in Publish!Drainers, NEW value \in 1..MaxValues,
           Publish!EnqueueLocked(d, value)
    PROVE  /\ outbox' \in Seq(1..MaxValues) /\ Len(outbox') = Len(outbox) + 1
           /\ \A i \in 1..Len(outbox) : outbox'[i] = outbox[i]
           /\ outbox'[Len(outbox')] = value
           /\ drainer' \in [Publish!Drainers -> Publish!Turns]
           /\ drainingOut' \in BOOLEAN /\ PublishSingle'
           /\ \A e \in Publish!Drainers :
                  /\ drainer'[e].at = "publish" <=> drainer[e].at = "publish"
                  /\ drainer'[e].at = "publish" => drainer'[e].v = drainer[e].v
<1>1. /\ outbox' \in Seq(1..MaxValues) /\ Len(outbox') = Len(outbox) + 1
      /\ \A i \in 1..Len(outbox) : outbox'[i] = outbox[i]
      /\ outbox'[Len(outbox')] = value
  BY DEF Publish!TypeOK, Publish!EnqueueLocked
<1>2. drainingOut' \in BOOLEAN /\ drainingOut'
  BY Zenon DEF Publish!EnqueueLocked
<1>3. CASE drainingOut
  <2>1. drainer' = drainer
    BY <1>3 DEF Publish!EnqueueLocked
  <2>2. QED
    BY <1>1, <1>2, <1>3, <2>1 DEF Publish!TypeOK, PublishSingle
<1>4. CASE ~drainingOut
  <2> DEFINE X == [drainer[d] EXCEPT !.at = "drain"]
  <2>1. X \in Publish!Turns /\ X.at = "drain"
    BY DEF Publish!TypeOK, Publish!Turns
  <2>2. drainer' = [drainer EXCEPT ![d] = X]
    BY <1>4 DEF Publish!EnqueueLocked
  <2> HIDE DEF X
  <2>3. /\ drainer' \in [Publish!Drainers -> Publish!Turns] /\ drainer'[d].at = "drain"
        /\ \A e \in Publish!Drainers \ {d} : drainer'[e] = drainer[e]
    BY <2>1, <2>2, TurnReplaced DEF Publish!TypeOK
  <2>4. \A e \in Publish!Drainers : drainer[e].at = "idle"
    BY <1>4 DEF PublishSingle
  <2>5. QED
    BY <1>1, <1>2, <2>3, <2>4 DEF PublishSingle
<1>5. QED
  BY <1>3, <1>4 DEF Publish!TypeOK

\* A value newer than everything on its way keeps the order when it is queued.
LEMMA PublishExtended ==
    ASSUME Publish!TypeOK, PublishOrdered, NEW value \in 1..MaxValues,
           published < value, accepted <= accepted', value <= accepted', accepted' \in 0..MaxValues,
           \A d \in Publish!Drainers : drainer[d].at = "publish" => drainer[d].v < value,
           \A i \in 1..Len(outbox) : outbox[i] < value,
           outbox' \in Seq(1..MaxValues), Len(outbox') = Len(outbox) + 1,
           \A i \in 1..Len(outbox) : outbox'[i] = outbox[i],
           outbox'[Len(outbox')] = value, pendingValue' = 0, published' = published,
           \A e \in Publish!Drainers :
                 /\ drainer'[e].at = "publish" <=> drainer[e].at = "publish"
                 /\ drainer'[e].at = "publish" => drainer'[e].v = drainer[e].v
    PROVE  PublishOrdered'
<1>t. /\ accepted \in Nat /\ published \in Nat /\ value \in Nat /\ accepted' \in Nat
      /\ Len(outbox) \in Nat /\ \A i \in 1..Len(outbox) : outbox[i] \in Nat
      /\ \A d \in Publish!Drainers : drainer[d].v \in Nat
  <2>1. \A X \in Publish!Turns : X.v \in Nat
    BY PublishAssumption DEF Publish!Turns
  <2>2. \A d \in Publish!Drainers : drainer[d].v \in Nat
    BY <2>1 DEF Publish!TypeOK
  <2>3. outbox \in Seq(1..MaxValues) /\ 1..MaxValues \subseteq Nat /\ 0..MaxValues \subseteq Nat
    BY PublishAssumption DEF Publish!TypeOK
  <2>4. Len(outbox) \in Nat /\ \A i \in 1..Len(outbox) : outbox[i] \in 1..MaxValues
    BY <2>3, LenProperties, ElementOfSeq, Zenon
  <2>5. accepted \in 0..MaxValues /\ published \in 0..MaxValues
    BY DEF Publish!TypeOK
  <2>6. QED
    BY <2>2, <2>3, <2>4, <2>5
<1>1. \A i \in 1..Len(outbox') : i \in 1..Len(outbox) \/ (i = Len(outbox') /\ outbox'[i] = value)
  BY <1>t
<1>2. ASSUME NEW d \in Publish!Drainers, drainer'[d].at = "publish"
      PROVE  /\ published' < drainer'[d].v /\ drainer'[d].v <= accepted'
             /\ \A i \in 1..Len(outbox') : drainer'[d].v < outbox'[i]
  <2>1. drainer[d].at = "publish" /\ drainer'[d].v = drainer[d].v /\ drainer[d].v < value
    BY <1>2
  <2>2. /\ published < drainer[d].v /\ drainer[d].v <= accepted
        /\ \A i \in 1..Len(outbox) : drainer[d].v < outbox[i]
    BY <2>1 DEF PublishOrdered
  <2>3. published' < drainer'[d].v /\ drainer'[d].v <= accepted'
    BY <1>t, <2>1, <2>2
  <2>4. ASSUME NEW i \in 1..Len(outbox') PROVE drainer'[d].v < outbox'[i]
    <3>1. CASE i \in 1..Len(outbox)
      BY <2>1, <2>2, <3>1
    <3>2. CASE outbox'[i] = value
      BY <2>1, <3>2
    <3>3. QED
      BY <1>1, <3>1, <3>2
  <2>5. QED
    BY <2>3, <2>4
<1>3. ASSUME NEW i \in 1..Len(outbox')
      PROVE  /\ published' < outbox'[i] /\ outbox'[i] <= accepted'
             /\ \A j \in 1..Len(outbox') : i < j => outbox'[i] < outbox'[j]
  <2>1. CASE i \in 1..Len(outbox)
    <3>1. /\ published < outbox[i] /\ outbox[i] <= accepted /\ outbox[i] < value
          /\ \A j \in 1..Len(outbox) : i < j => outbox[i] < outbox[j]
      BY <2>1 DEF PublishOrdered
    <3>2. published' < outbox'[i] /\ outbox'[i] <= accepted'
      BY <1>t, <2>1, <3>1
    <3>3. ASSUME NEW j \in 1..Len(outbox'), i < j PROVE outbox'[i] < outbox'[j]
      <4>1. CASE j \in 1..Len(outbox)
        BY <2>1, <3>1, <3>3, <4>1
      <4>2. CASE outbox'[j] = value
        BY <2>1, <3>1, <4>2
      <4>3. QED
        BY <1>1, <4>1, <4>2
    <3>4. QED
      BY <3>2, <3>3
  <2>2. CASE i = Len(outbox') /\ outbox'[i] = value
    BY <1>t, <2>2
  <2>3. QED
    BY <1>1, <2>1, <2>2
<1>4. published' <= accepted'
  BY <1>t DEF PublishOrdered
<1>5. QED
  BY <1>2, <1>3, <1>4 DEF PublishOrdered

\* clearPendingLocked leaves no timer and no pending value.
LEMMA PublishClears ==
    ASSUME Publish!TypeOK, PublishTimed, Publish!ClearPending
    PROVE  /\ pendingValue' = 0 /\ timer' = 0 /\ timerID' \in 0..(2 * MaxTimers)
           /\ firing' \subseteq 1..(2 * MaxTimers)
BY PublishAssumption DEF Publish!TypeOK, PublishTimed, Publish!ClearPending

\* The empty outbox is an outbox.
LEMMA PublishEmpty == <<>> \in Seq(1..MaxValues)
OBVIOUS

\* Nothing is accepted, queued or timed when the publisher is made.
LEMMA PublishStart ==
    ASSUME Publish!Init
    PROVE  PublishInv
<1> USE DEF Publish!Init
<1>1. /\ drainer \in [Publish!Drainers -> Publish!Turns]
      /\ \A d \in Publish!Drainers : drainer[d].at = "idle"
  BY PublishAssumption DEF Publish!Idle, Publish!Turns
<1>2. Publish!TypeOK
  <2>1. recent \in BOOLEAN /\ hasPublished \in BOOLEAN /\ drainingOut \in BOOLEAN /\ closed \in BOOLEAN
    BY Zenon
  <2>2. outbox \in Seq(1..MaxValues)
    BY PublishEmpty, Zenon
  <2>3. QED
    BY <1>1, <2>1, <2>2, PublishAssumption DEF Publish!TypeOK
<1>3. QED
  BY <1>1, <1>2 DEF PublishInv, PublishSingle, PublishOrdered, PublishTimed, PublishLatest

\* Every step of the publisher keeps the invariant, and none publishes an older value.
LEMMA PublishStep ==
    ASSUME PublishInv, [Publish!Next]_publishVars
    PROVE  PublishInv' /\ Publish!NeverBackwardsStep
<1> USE DEF PublishInv
<1>t. /\ pendingValue \in 0..MaxValues /\ accepted \in 0..MaxValues /\ published \in 0..MaxValues
      /\ timer \in 0..(2 * MaxTimers) /\ timerID \in 0..(2 * MaxTimers)
      /\ firing \subseteq 1..(2 * MaxTimers)
      /\ outbox \in Seq(1..MaxValues) /\ drainer \in [Publish!Drainers -> Publish!Turns]
      /\ \A d \in Publish!Drainers : drainer[d].v \in 0..MaxValues
  BY PublishAssumption DEF Publish!TypeOK, Publish!Turns
<1>n. published' = published => Publish!NeverBackwardsStep
  BY <1>t, PublishAssumption DEF Publish!NeverBackwardsStep
<1>1. ASSUME NEW d \in Publishers, Publish!Enqueue(d)
      PROVE  PublishInv'
  <2>1. CASE /\ pendingValue' = accepted + 1
             /\ IF timer = 0
                THEN /\ timerID < 2 * MaxTimers - 1
                     /\ timerID' = timerID + 1 /\ timer' = timerID + 1
                     /\ firing' = firing \cup {timerID + 1}
                ELSE UNCHANGED <<timer, timerID, firing>>
             /\ UNCHANGED <<recent, hasPublished, outbox, drainingOut, drainer>>
    <3>0. /\ accepted' = accepted + 1 /\ accepted + 1 \in 1..MaxValues /\ ~closed
          /\ closed' = closed /\ published' = published
      BY <1>1, <1>t, PublishAssumption DEF Publish!Enqueue
    <3>1. Publish!TypeOK' /\ PublishTimed'
      <4>1. CASE timer = 0
        <5>1. timerID + 1 \in 1..(2 * MaxTimers) /\ timerID + 1 < 2 * MaxTimers
          BY <1>t, <2>1, <4>1, PublishAssumption
        <5>2. PublishTimed'
          BY <1>t, <2>1, <3>0, <4>1, <5>1, PublishAssumption DEF PublishTimed
        <5>3. firing' \subseteq 1..(2 * MaxTimers)
          BY <1>t, <2>1, <4>1, <5>1
        <5>4. timerID + 1 \in 0..(2 * MaxTimers) /\ accepted + 1 \in 0..MaxValues
          BY <3>0, <5>1, PublishAssumption
        <5>5. timer' = timerID + 1 /\ timerID' = timerID + 1
          BY <2>1, <4>1
        <5>6. Publish!TypeOK'
          BY <2>1, <3>0, <5>3, <5>4, <5>5 DEF Publish!TypeOK
        <5>7. QED
          BY <5>2, <5>6
      <4>2. CASE timer # 0
        <5>1. PublishTimed'
          BY <1>t, <2>1, <3>0, <4>2 DEF PublishTimed
        <5>2. accepted + 1 \in 0..MaxValues /\ UNCHANGED <<timer, timerID, firing>>
          BY <2>1, <3>0, <4>2, PublishAssumption
        <5>3. Publish!TypeOK'
          BY <2>1, <3>0, <5>2 DEF Publish!TypeOK
        <5>4. QED
          BY <5>1, <5>3
      <4>3. QED
        BY <4>1, <4>2
    <3>2. PublishSingle'
      BY <2>1 DEF PublishSingle
    <3>3. PublishOrdered' /\ PublishLatest'
      BY <1>1, <1>t, <2>1, PublishAssumption DEF Publish!Enqueue, PublishOrdered, PublishLatest
    <3>4. QED
      BY <3>1, <3>2, <3>3
  <2>2. CASE /\ Publish!ClearPending /\ recent' = TRUE /\ hasPublished' = TRUE
             /\ Publish!EnqueueLocked(d, accepted + 1)
    <3>a. recent' \in BOOLEAN /\ hasPublished' \in BOOLEAN
      BY <2>2, Zenon
    <3>b. d \in Publish!Drainers /\ accepted + 1 \in 1..MaxValues
      BY <1>1, <1>t, PublishAssumption DEF Publish!Enqueue, Publish!Drainers
    <3>c. /\ outbox' \in Seq(1..MaxValues) /\ Len(outbox') = Len(outbox) + 1
          /\ \A i \in 1..Len(outbox) : outbox'[i] = outbox[i]
          /\ outbox'[Len(outbox')] = accepted + 1
          /\ drainer' \in [Publish!Drainers -> Publish!Turns]
          /\ drainingOut' \in BOOLEAN /\ PublishSingle'
          /\ \A e \in Publish!Drainers :
                 /\ drainer'[e].at = "publish" <=> drainer[e].at = "publish"
                 /\ drainer'[e].at = "publish" => drainer'[e].v = drainer[e].v
      BY <2>2, <3>b, PublishQueues
    <3>d. /\ pendingValue' = 0 /\ timer' = 0 /\ timerID' \in 0..(2 * MaxTimers)
          /\ firing' \subseteq 1..(2 * MaxTimers)
      BY <2>2, PublishClears
    <3>1. Publish!TypeOK' /\ PublishTimed'
      BY <1>1, <1>t, <3>a, <3>b, <3>c, <3>d, PublishAssumption
         DEF Publish!Enqueue, Publish!TypeOK, PublishTimed
    <3>e. /\ published < accepted + 1 /\ accepted' = accepted + 1 /\ published' = published
          /\ accepted <= accepted' /\ accepted + 1 <= accepted' /\ accepted' \in 0..MaxValues
          /\ \A e \in Publish!Drainers : drainer[e].at = "publish" => drainer[e].v < accepted + 1
          /\ \A i \in 1..Len(outbox) : outbox[i] < accepted + 1
      BY <1>1, <1>t, <3>b, PublishAssumption DEF Publish!Enqueue, PublishOrdered
    <3>2. PublishOrdered'
      BY <3>b, <3>c, <3>d, <3>e, PublishExtended
    <3>3. PublishLatest'
      BY <1>1, <1>t, <3>c, <3>d DEF Publish!Enqueue, PublishLatest
    <3>4. QED
      BY <3>1, <3>2, <3>3, <3>c
  <2>3. QED
    BY <1>1, <2>1, <2>2 DEF Publish!Enqueue
<1>2. ASSUME NEW d \in Publish!Drainers, Publish!DrainTake(d)
      PROVE  PublishInv'
  <2>1. CASE closed \/ outbox = <<>>
    <3>1. Publish!Idle \in Publish!Turns /\ Publish!Idle.at = "idle"
      BY PublishAssumption DEF Publish!Idle, Publish!Turns
    <3>2. /\ drainer' \in [Publish!Drainers -> Publish!Turns]
          /\ \A e \in Publish!Drainers : drainer'[e].at = "idle"
      BY <1>2, <1>t, <2>1, <3>1, TurnReplaced DEF Publish!DrainTake, PublishSingle
    <3>3. drainingOut' \in BOOLEAN /\ ~drainingOut'
      BY <1>2, <2>1, Zenon DEF Publish!DrainTake
    <3>a. outbox' = <<>>
      BY <1>2, <2>1, Zenon DEF Publish!DrainTake
    <3>4. outbox' = <<>> /\ outbox' \in Seq(1..MaxValues)
      BY <3>a, PublishEmpty, Zenon
    <3>5. Publish!TypeOK' /\ PublishSingle'
      BY <1>2, <3>2, <3>3, <3>4 DEF Publish!DrainTake, Publish!TypeOK, PublishSingle
    <3>6. PublishTimed'
      BY <1>2 DEF Publish!DrainTake, PublishTimed
    <3>7. PublishOrdered'
      BY <1>2, <1>t, <3>2, <3>4 DEF Publish!DrainTake, PublishOrdered
    <3>8. PublishLatest'
      BY <1>2, <1>t, <2>1, <3>2, <3>4 DEF Publish!DrainTake, PublishSingle, PublishLatest
    <3>9. QED
      BY <3>5, <3>6, <3>7, <3>8
  <2>2. CASE ~closed /\ outbox # <<>>
    <3> DEFINE X == [at |-> "publish", v |-> Head(outbox)]
    <3>1. /\ Len(outbox) >= 1 /\ Head(outbox) = outbox[1] /\ Head(outbox) \in 1..MaxValues
          /\ outbox' = Tail(outbox) /\ Len(outbox') = Len(outbox) - 1
          /\ outbox' \in Seq(1..MaxValues)
          /\ \A i \in 1..Len(outbox') : outbox'[i] = outbox[i + 1]
      <4>1. outbox' = Tail(outbox)
        BY <1>2, <2>2 DEF Publish!DrainTake
      <4>2. outbox \in Seq(1..MaxValues) /\ outbox # <<>>
        BY <1>t, <2>2
      <4>3. QED
        BY <4>1, <4>2, QueueTake
    <3>2. X \in Publish!Turns /\ X.at = "publish" /\ X.v = outbox[1]
      BY <3>1, PublishAssumption DEF Publish!Turns
    <3>3. drainer' = [drainer EXCEPT ![d] = X]
      BY <1>2, <2>2 DEF Publish!DrainTake
    <3> HIDE DEF X
    <3>4. /\ drainer' \in [Publish!Drainers -> Publish!Turns]
          /\ drainer'[d].at = "publish" /\ drainer'[d].v = outbox[1]
          /\ \A e \in Publish!Drainers \ {d} : drainer'[e].at = "idle"
      BY <1>2, <1>t, <3>2, <3>3, TurnReplaced DEF Publish!DrainTake, PublishSingle
    <3>5. Publish!TypeOK'
      BY <1>2, <2>2, <3>1, <3>4 DEF Publish!DrainTake, Publish!TypeOK
    <3>6. PublishSingle'
      BY <1>2, <2>2, <3>4 DEF Publish!DrainTake, PublishSingle
    <3>7. PublishTimed'
      BY <1>2 DEF Publish!DrainTake, PublishTimed
    <3>8. PublishOrdered'
      <4>1. /\ published' = published /\ accepted' = accepted /\ pendingValue' = pendingValue
            /\ PublishOrdered
        BY <1>2 DEF Publish!DrainTake
      <4>2. /\ published < outbox[1] /\ outbox[1] <= accepted
            /\ pendingValue # 0 => published < pendingValue /\ outbox[1] < pendingValue
            /\ \A i \in 1..Len(outbox) : 1 < i => outbox[1] < outbox[i]
        BY <1>t, <3>1, <4>1 DEF PublishOrdered
      <4>3. ASSUME NEW e \in Publish!Drainers, drainer'[e].at = "publish"
            PROVE  /\ published' < drainer'[e].v /\ drainer'[e].v <= accepted'
                   /\ \A i \in 1..Len(outbox') : drainer'[e].v < outbox'[i]
                   /\ pendingValue' # 0 => drainer'[e].v < pendingValue'
        <5>1. drainer'[e].v = outbox[1]
          BY <3>4, <4>3
        <5>2. \A i \in 1..Len(outbox') : i + 1 \in 1..Len(outbox) /\ 1 < i + 1
          BY <1>t, <3>1
        <5>3. QED
          BY <3>1, <4>1, <4>2, <5>1, <5>2
      <4>4. ASSUME NEW i \in 1..Len(outbox')
            PROVE  /\ published' < outbox'[i] /\ outbox'[i] <= accepted'
                   /\ \A j \in 1..Len(outbox') : i < j => outbox'[i] < outbox'[j]
                   /\ pendingValue' # 0 => outbox'[i] < pendingValue'
        <5>1. /\ \A j \in 1..Len(outbox') : j + 1 \in 1..Len(outbox)
              /\ \A j \in 1..Len(outbox') : i < j => i + 1 < j + 1
          BY <1>t, <3>1
        <5>2. /\ published < outbox[i + 1] /\ outbox[i + 1] <= accepted
              /\ \A j \in 1..Len(outbox) : i + 1 < j => outbox[i + 1] < outbox[j]
              /\ pendingValue # 0 => outbox[i + 1] < pendingValue
          BY <4>1, <5>1 DEF PublishOrdered
        <5>3. QED
          BY <3>1, <4>1, <5>1, <5>2
      <4>5. published' <= accepted' /\ (pendingValue' # 0 => published' < pendingValue')
        BY <4>1 DEF PublishOrdered
      <4>6. QED
        BY <4>3, <4>4, <4>5 DEF PublishOrdered
    <3>9. PublishLatest'
      <4>1. CASE Len(outbox) = 1
        BY <1>2, <1>t, <2>2, <3>1, <3>4, <4>1 DEF Publish!DrainTake, PublishLatest
      <4>2. CASE Len(outbox) # 1
        <5>1. outbox' # <<>> /\ outbox'[Len(outbox')] = outbox[Len(outbox)]
          <6>1. Len(outbox) \in Nat /\ Len(outbox') \in 1..Len(outbox')
            BY <1>t, <3>1, <4>2
          <6>2. outbox'[Len(outbox')] = outbox[Len(outbox') + 1] /\ Len(outbox') + 1 = Len(outbox)
            BY <3>1, <6>1
          <6>3. outbox' # <<>>
            <7>1. Len(outbox') # 0 /\ outbox' \in Seq(1..MaxValues)
              BY <3>1, <6>1
            <7>2. QED
              BY <7>1, QueueHolds
          <6>4. QED
            BY <6>2, <6>3
        <5>2. QED
          BY <1>2, <2>2, <5>1 DEF Publish!DrainTake, PublishLatest
      <4>3. QED
        BY <4>1, <4>2
    <3>10. QED
      BY <3>5, <3>6, <3>7, <3>8, <3>9
  <2>3. QED
    BY <2>1, <2>2
<1>3. ASSUME NEW d \in Publish!Drainers, Publish!Publish(d)
      PROVE  PublishInv' /\ Publish!NeverBackwardsStep
  <2> DEFINE X == [at |-> "drain", v |-> 0]
  <2>1. X \in Publish!Turns /\ X.at = "drain"
    BY PublishAssumption DEF Publish!Turns
  <2>2. drainer' = [drainer EXCEPT ![d] = X]
    BY <1>3 DEF Publish!Publish
  <2> HIDE DEF X
  <2>3. /\ drainer' \in [Publish!Drainers -> Publish!Turns] /\ drainer'[d].at = "drain"
        /\ \A e \in Publish!Drainers \ {d} : drainer'[e].at = "idle"
    BY <1>3, <1>t, <2>1, <2>2, TurnReplaced DEF Publish!Publish, PublishSingle
  <2>4. Publish!TypeOK'
    BY <1>3, <1>t, <2>3 DEF Publish!Publish, Publish!TypeOK
  <2>5. PublishSingle'
    BY <1>3, <2>3 DEF Publish!Publish, PublishSingle
  <2>6. PublishTimed'
    BY <1>3 DEF Publish!Publish, PublishTimed
  <2>7. PublishOrdered' /\ Publish!NeverBackwardsStep
    BY <1>3, <1>t, <2>3, PublishAssumption
       DEF Publish!Publish, PublishOrdered, Publish!NeverBackwardsStep
  <2>8. PublishLatest'
    <3>1. \A e \in Publish!Drainers : drainer[e].at = "publish" => e = d
      BY <1>3 DEF Publish!Publish, PublishSingle
    <3>2. ~closed /\ pendingValue = 0 /\ outbox = <<>> => published' = accepted
      <4>1. published < drainer[d].v /\ drainer[d].v <= accepted
        BY <1>3 DEF Publish!Publish, PublishOrdered
      <4>2. published # accepted
        BY <1>t, <4>1, PublishAssumption
      <4>3. QED
        BY <1>3, <3>1, <4>2 DEF Publish!Publish, PublishLatest
    <3>3. QED
      BY <1>3, <3>2 DEF Publish!Publish, PublishLatest
  <2>9. QED
    BY <2>4, <2>5, <2>6, <2>7, <2>8
<1>4. ASSUME NEW id \in firing, Publish!Flush(id)
      PROVE  PublishInv'
  <2>1. CASE closed \/ timerID # id
    <3>1. UNCHANGED <<recent, hasPublished, pendingValue, timer, outbox, drainingOut, drainer,
                      timerID, closed, accepted, published>> /\ firing' = firing \ {id}
      BY <1>4, <2>1 DEF Publish!Flush
    <3>2. QED
      BY <1>t, <2>1, <3>1 DEF Publish!TypeOK, PublishSingle, PublishOrdered, PublishTimed,
                              PublishLatest
  <2>2. CASE ~closed /\ timerID = id /\ pendingValue = 0
    <3>1. UNCHANGED <<recent, hasPublished, pendingValue, outbox, drainingOut, drainer,
                      timerID, closed, accepted, published>> /\ firing' = firing \ {id} /\ timer' = 0
      BY <1>4, <2>2 DEF Publish!Flush
    <3>2. QED
      BY <1>t, <2>2, <3>1, PublishAssumption
         DEF Publish!TypeOK, PublishSingle, PublishOrdered, PublishTimed, PublishLatest
  <2>3. CASE ~closed /\ timerID = id /\ pendingValue # 0
    <3>0. /\ UNCHANGED <<timerID, closed, accepted, published>>
          /\ firing' = firing \ {id} /\ timer' = 0 /\ pendingValue' = 0
          /\ Publish!EnqueueLocked("flush", pendingValue)
      BY <1>4, <2>3 DEF Publish!Flush
    <3>a. recent' \in BOOLEAN /\ hasPublished' \in BOOLEAN
      BY <1>4, <2>3, Zenon DEF Publish!Flush
    <3>b. "flush" \in Publish!Drainers /\ pendingValue \in 1..MaxValues
      BY <1>t, <2>3, PublishAssumption DEF Publish!Drainers
    <3>c. /\ outbox' \in Seq(1..MaxValues) /\ Len(outbox') = Len(outbox) + 1
          /\ \A i \in 1..Len(outbox) : outbox'[i] = outbox[i]
          /\ outbox'[Len(outbox')] = pendingValue
          /\ drainer' \in [Publish!Drainers -> Publish!Turns]
          /\ drainingOut' \in BOOLEAN /\ PublishSingle'
          /\ \A e \in Publish!Drainers :
                 /\ drainer'[e].at = "publish" <=> drainer[e].at = "publish"
                 /\ drainer'[e].at = "publish" => drainer'[e].v = drainer[e].v
      BY <3>0, <3>b, PublishQueues
    <3>1. Publish!TypeOK' /\ PublishTimed'
      BY <1>t, <3>0, <3>a, <3>c, PublishAssumption DEF Publish!TypeOK, PublishTimed
    <3>2. PublishOrdered'
      BY <1>t, <2>3, <3>0, <3>b, <3>c, PublishExtended DEF PublishOrdered, PublishLatest
    <3>3. PublishLatest'
      BY <1>t, <2>3, <3>0, <3>c DEF PublishLatest
    <3>4. QED
      BY <3>1, <3>2, <3>3, <3>c
  <2>4. QED
    BY <2>1, <2>2, <2>3
<1>5. ASSUME Publish!Elapse
      PROVE  PublishInv'
  <2>1. recent' \in BOOLEAN
    BY <1>5, Zenon DEF Publish!Elapse
  <2>2. Publish!TypeOK'
    BY <1>5, <2>1 DEF Publish!Elapse, Publish!TypeOK
  <2>3. PublishSingle' /\ PublishOrdered' /\ PublishTimed' /\ PublishLatest'
    BY <1>5 DEF Publish!Elapse, PublishSingle, PublishOrdered, PublishTimed, PublishLatest
  <2>4. QED
    BY <2>2, <2>3
<1>6. ASSUME Publish!ClosePublisher
      PROVE  PublishInv'
  <2>1. closed' \in BOOLEAN /\ closed'
    BY <1>6, Zenon DEF Publish!ClosePublisher
  <2>2. /\ pendingValue' = 0 /\ timer' = 0 /\ timerID' \in 0..(2 * MaxTimers)
        /\ firing' \subseteq 1..(2 * MaxTimers)
    BY <1>6, PublishClears DEF Publish!ClosePublisher
  <2>3. outbox' = <<>> /\ outbox' \in Seq(1..MaxValues)
    BY <1>6, PublishEmpty, Zenon DEF Publish!ClosePublisher
  <2>4. Publish!TypeOK'
    BY <1>6, <1>t, <2>1, <2>2, <2>3, PublishAssumption DEF Publish!ClosePublisher, Publish!TypeOK
  <2>5. PublishSingle' /\ PublishTimed' /\ PublishLatest'
    BY <1>6, <2>1, <2>2, <2>3 DEF Publish!ClosePublisher, PublishSingle, PublishTimed, PublishLatest
  <2>6. PublishOrdered'
    BY <1>6, <1>t, <2>2, <2>3 DEF Publish!ClosePublisher, PublishOrdered
  <2>7. QED
    BY <2>4, <2>5, <2>6
<1>7. ASSUME UNCHANGED publishVars
      PROVE  PublishInv'
  <2>1. Publish!TypeOK'
    BY <1>7 DEF publishVars, Publish!TypeOK
  <2>2. PublishSingle' /\ PublishOrdered' /\ PublishTimed' /\ PublishLatest'
    BY <1>7 DEF publishVars, PublishSingle, PublishOrdered, PublishTimed, PublishLatest
  <2>3. QED
    BY <2>1, <2>2
<1>8. QED
  BY <1>n, <1>1, <1>2, <1>3, <1>4, <1>5, <1>6, <1>7
     DEF Publish!Next, publishVars, Publish!Enqueue, Publish!DrainTake, Publish!Flush,
         Publish!Elapse, Publish!ClosePublisher

\* The invariant gives the promise the run checks: no accepted value is stranded.
LEMMA PublishSafe ==
    ASSUME PublishInv
    PROVE  Publish!LatestIsShown
BY DEF PublishInv, Publish!TypeOK, PublishSingle, PublishTimed, PublishLatest,
       Publish!LatestIsShown

-----------------------------------------------------------------------------
(* JobWorker: the process boundary                                         *)

\* Every process that runs is in the job; only the root may be outside it, suspended
\* between CreateProcess and AssignProcessToJobObject, or dying when that failed.
JobTree ==
    /\ \A p \in Procs : jobProc[p] = "running" => p \in inJob
    /\ \A p \in Procs : jobProc[p] = "dying" => p \in inJob \/ boundaryOwner = "failed"
    /\ \A p \in Procs : jobProc[p] = "suspended" =>
                            p = Root /\ boundaryOwner \in {"created", "assigned"}
    /\ boundaryOwner = "assigned" => Root \in inJob

\* Who still needs a handle has it open: the owner the job's until it closed the
\* boundary, startJobCommand and the exit wait the process's.
JobHandles ==
    /\ hostAlive /\ boundaryOwner \notin {"idle", "failed", "stopped"} => jobHandle = "open"
    /\ hostAlive /\ boundaryOwner \in {"created", "assigned"} => processHandle = "open"
    /\ hostAlive /\ ~boundaryClosed /\ exitWait # "none" =>
           jobHandle = "open" /\ processHandle = "open"
    /\ boundaryClosed => boundaryOwner = "stopped" /\ exitWait = "done"

\* closeMu is held by whoever is inside it: the owner from its poll to the join of the
\* readers, and the liveness query, which found the boundary open.
JobLock ==
    /\ boundaryOwner \in {"polling", "process", "drain", "join"} => closeMu = "owner"
    /\ asker = "query" => closeMu = "asker" /\ ~boundaryClosed /\ exitWait # "none"

\* The exit wait and the readers exist from the moment the command was started, and
\* nothing was closed or verified before.
JobThreads ==
    /\ exitWait = "none" <=>
           boundaryOwner \in {"idle", "prepared", "created", "assigned", "failed"}
    /\ exitWait = "none" => /\ ~eventsClosed /\ ~verified
                            /\ \A s \in Job!Streams : outReaders[s] = "none"

\* What holds after every step of the process boundary.
JobInv ==
    /\ Job!JobWorkerTypeOK
    /\ JobTree /\ JobHandles /\ JobLock /\ JobThreads
    /\ Job!NothingOutlives /\ Job!VerifiedIsEmpty /\ Job!NoSendAfterClose

\* No step of startJobCommand, the goroutines, the owner or Windows breaks it.
LEMMA JobStep ==
    ASSUME JobInv, [Job!JobNext]_jobVars
    PROVE  JobInv'
<1> USE JobAssumption DEF JobInv, JobTree, JobHandles, JobLock, JobThreads,
        Job!JobWorkerTypeOK, Job!Streams, Job!HandleStates, Job!NothingOutlives,
        Job!VerifiedIsEmpty, Job!NoSendAfterClose, Job!Live
<1>1. ASSUME Job!StartRefused
       PROVE  JobInv'
  BY <1>1 DEF Job!StartRefused, Job!nativeVars, Job!threadVars, Job!worldVars
<1>2. ASSUME NEW kind \in {"host", "command"}, Job!StartJob(kind)
       PROVE  JobInv'
  BY <1>2 DEF Job!StartJob, Job!threadVars, Job!worldVars
<1>3. ASSUME Job!PrepareFails
       PROVE  JobInv'
  BY <1>3 DEF Job!PrepareFails, Job!StartFails, Job!Active, Job!threadVars, Job!worldVars
<1>4. ASSUME Job!CreateProcess
       PROVE  JobInv'
  BY <1>4 DEF Job!CreateProcess, Job!threadVars, Job!worldVars
<1>5. ASSUME Job!AssignFails
       PROVE  JobInv'
  BY <1>5 DEF Job!AssignFails, Job!StartFails, Job!Active, Job!threadVars, Job!worldVars
<1>6. ASSUME Job!AssignProcessToJobObject
       PROVE  JobInv'
  BY <1>6 DEF Job!AssignProcessToJobObject, Job!threadVars, Job!worldVars
<1>7. ASSUME Job!ResumeFails
       PROVE  JobInv'
  BY <1>7 DEF Job!ResumeFails, Job!StartFails, Job!Active, Job!threadVars, Job!worldVars
<1>8. ASSUME Job!ResumeThread
       PROVE  JobInv'
  BY <1>8 DEF Job!ResumeThread, Job!worldVars
<1>9. ASSUME Job!WaitWakes
       PROVE  JobInv'
  BY <1>9 DEF Job!WaitWakes, Job!nativeVars, Job!ownVars, Job!worldVars
<1>10. ASSUME Job!WaitForExit
       PROVE  JobInv'
  BY <1>10 DEF Job!WaitForExit, Job!nativeVars, Job!ownVars, Job!worldVars
<1>11. ASSUME Job!WaitReturns
       PROVE  JobInv'
  BY <1>11 DEF Job!WaitReturns, Job!nativeVars, Job!ownVars, Job!worldVars
<1>12. ASSUME NEW s \in Job!Streams, Job!ReadLine(s)
       PROVE  JobInv'
  BY <1>12 DEF Job!ReadLine, Job!nativeVars, Job!ownVars, Job!worldVars
<1>13. ASSUME NEW s \in Job!Streams, Job!ReaderEnds(s)
       PROVE  JobInv'
  BY <1>13 DEF Job!ReaderEnds, Job!nativeVars, Job!ownVars, Job!worldVars
<1>14. ASSUME Job!EventsClose
       PROVE  JobInv'
  BY <1>14 DEF Job!EventsClose, Job!nativeVars, Job!ownVars, Job!worldVars
<1>15. ASSUME Job!TakeEvent
       PROVE  JobInv'
  BY <1>15 DEF Job!TakeEvent, Job!nativeVars, Job!ownVars, Job!worldVars
<1>16. ASSUME Job!StopWorker
       PROVE  JobInv'
  BY <1>16 DEF Job!StopWorker, Job!nativeVars, Job!threadVars, Job!worldVars
<1>17. ASSUME Job!GracefulExit
       PROVE  JobInv'
  BY <1>17 DEF Job!GracefulExit, Job!ExitedClosed, Job!OwnerGoes, Job!nativeVars,
         Job!threadVars, Job!worldVars
<1>18. ASSUME Job!ForceStop
       PROVE  JobInv'
  BY <1>18 DEF Job!ForceStop, Job!OwnerGoes, Job!ExitedClosed, Job!nativeVars,
         Job!threadVars, Job!worldVars
<1>19. ASSUME Job!CommandEnds
       PROVE  JobInv'
  BY <1>19 DEF Job!CommandEnds, Job!ExitedClosed, Job!OwnerGoes, Job!nativeVars,
         Job!threadVars, Job!worldVars
<1>20. ASSUME Job!Kill
       PROVE  JobInv'
  BY <1>20 DEF Job!Kill, Job!TerminateJob, Job!OwnerGoes, Job!threadVars, Job!worldVars,
         Job!Active
<1>21. ASSUME Job!PollBegins
       PROVE  JobInv'
  BY <1>21 DEF Job!PollBegins, Job!nativeVars, Job!threadVars, Job!worldVars
<1>22. ASSUME Job!Poll
       PROVE  JobInv'
  BY <1>22 DEF Job!Poll, Job!Active, Job!AfterEmpty, Job!nativeVars, Job!threadVars,
         Job!worldVars
<1>23. ASSUME Job!WaitEmptyFails
       PROVE  JobInv'
  BY <1>23 DEF Job!WaitEmptyFails, Job!OwnerGoes, Job!nativeVars, Job!threadVars,
         Job!worldVars
<1>24. ASSUME Job!OutputWaited
       PROVE  JobInv'
  BY <1>24 DEF Job!OutputWaited, Job!OwnerGoes, Job!nativeVars, Job!threadVars,
         Job!worldVars
<1>25. ASSUME Job!CloseBegins
       PROVE  JobInv'
  BY <1>25 DEF Job!CloseBegins, Job!TerminateJob, Job!threadVars, Job!worldVars, Job!Active
<1>26. ASSUME Job!CloseWaited
       PROVE  JobInv'
  BY <1>26 DEF Job!CloseWaited, Job!OwnerGoes, Job!nativeVars, Job!threadVars
<1>27. ASSUME Job!CloseDrained
       PROVE  JobInv'
  BY <1>27 DEF Job!CloseDrained, Job!OwnerGoes, Job!nativeVars, Job!threadVars,
         Job!worldVars
<1>28. ASSUME Job!CloseJoined
       PROVE  JobInv'
  BY <1>28 DEF Job!CloseJoined, Job!ReleaseHandles, Job!TerminateJob, Job!threadVars,
         Job!worldVars, Job!Active
<1>29. ASSUME Job!JoinTimeout
       PROVE  JobInv'
  BY <1>29 DEF Job!JoinTimeout, Job!nativeVars, Job!threadVars, Job!worldVars
<1>30. ASSUME Job!Ask
       PROVE  JobInv'
  BY <1>30 DEF Job!Ask, Job!AskOwn, Job!nativeVars, Job!threadVars
<1>31. ASSUME Job!Answered
       PROVE  JobInv'
  BY <1>31 DEF Job!Answered, Job!AskOwn, Job!nativeVars, Job!threadVars
<1>32. ASSUME NEW p \in Procs, NEW c \in Procs, Job!Spawn(p, c)
       PROVE  JobInv'
  BY <1>32 DEF Job!Spawn, Job!threadVars, Job!ownVars, Job!worldVars
<1>33. ASSUME NEW p \in Procs, Job!Exit(p)
       PROVE  JobInv'
  BY <1>33 DEF Job!Exit, Job!threadVars, Job!ownVars, Job!worldVars
<1>34. ASSUME Job!ContextEnds
       PROVE  JobInv'
  <2>1. startCtx' \in BOOLEAN
    BY <1>34, Zenon DEF Job!ContextEnds
  <2>2. QED
    BY <1>34, <2>1 DEF Job!ContextEnds, Job!nativeVars, Job!threadVars, Job!ownVars
<1>35. ASSUME Job!HostDies
       PROVE  JobInv'
  <2>1. hostAlive' \in BOOLEAN
    BY <1>35, Zenon DEF Job!HostDies
  <2>2. QED
    BY <1>35, <2>1 DEF Job!HostDies, Job!TerminateJob, Job!threadVars, Job!ownVars, Job!Active
<1>36. CASE UNCHANGED jobVars
  BY <1>36 DEF jobVars
<1>37. QED
  BY <1>1, <1>2, <1>3, <1>4, <1>5, <1>6, <1>7, <1>8, <1>9, <1>10, <1>11, <1>12,
     <1>13, <1>14, <1>15, <1>16, <1>17, <1>18, <1>19, <1>20, <1>21, <1>22, <1>23, <1>24,
     <1>25, <1>26, <1>27, <1>28, <1>29, <1>30, <1>31, <1>32, <1>33, <1>34, <1>35, <1>36
     DEF Job!JobNext

\* Nothing runs and nothing is open before startJobCommand.
LEMMA JobStart ==
    ASSUME Job!JobInit
    PROVE  JobInv
<1> USE DEF Job!JobInit
<1>1. /\ pipesClosed \in BOOLEAN /\ eventsClosed \in BOOLEAN /\ boundaryClosed \in BOOLEAN
      /\ verified \in BOOLEAN /\ hostAlive \in BOOLEAN /\ startCtx \in BOOLEAN
  BY Zenon
<1>2. Job!JobWorkerTypeOK
  BY <1>1, JobAssumption DEF Job!JobWorkerTypeOK, Job!Streams, Job!HandleStates
<1>3. JobTree /\ JobHandles /\ JobLock /\ JobThreads
  BY DEF JobTree, JobHandles, JobLock, JobThreads, Job!Streams
<1>4. Job!NothingOutlives /\ Job!VerifiedIsEmpty /\ Job!NoSendAfterClose
  BY DEF Job!NothingOutlives, Job!VerifiedIsEmpty, Job!NoSendAfterClose
<1>5. QED
  BY <1>2, <1>3, <1>4 DEF JobInv

\* The invariant gives the promises the run checks of the boundary.
LEMMA JobSafe ==
    ASSUME JobInv
    PROVE  /\ Job!NothingOutlives /\ Job!WaitOwnsHandle /\ Job!QueryIsOpen
           /\ Job!VerifiedIsEmpty /\ Job!NoSendAfterClose
BY DEF JobInv, JobHandles, JobLock, Job!JobWorkerTypeOK, Job!WaitOwnsHandle, Job!QueryIsOpen

-----------------------------------------------------------------------------
(* Settings: the setters and the settings file                             *)

\* A setter's call.
SettingsCalls == [at : {"idle", "switching", "ready", "saved", "notify", "reading",
   "publishing",
                        "hook"},
                  field : Prefs!Fields, value : 0..3, old : Prefs!Vals, copy : Prefs!Values]

\* What a call asks for is a value its field takes.
SettingsTyped ==
    /\ prefs \in Prefs!Values /\ savedPrefs \in Prefs!Values /\ lastWrite \in Prefs!Values
    /\ calls \in [Callers -> SettingsCalls]
    /\ \A c \in Callers : /\ calls[c].field = "appearance" => calls[c].value # 0
                          /\ calls[c].field # "pet" => calls[c].value # 3

\* The lock is held from the write to the commit, by the one call between them.
SettingsLocked == \A c \in Callers : calls[c].at = "saved" <=> muBy = c

\* Outside the lock the current values are the file's, with the defaults it lacks.
SettingsCurrent ==
    /\ prefs["appearance"] # 0
    /\ muBy = Prefs!NoCaller => prefs = Prefs!Load(savedPrefs)
    /\ muBy # Prefs!NoCaller => savedPrefs["appearance"] # 0

\* What holds after every step of a setter, and after a crash.
SettingsInv == SettingsTyped /\ SettingsLocked /\ SettingsCurrent /\ Prefs!NoLostUpdate

\* What Load makes of a file (settings.go:315-341).
LEMMA LoadIs ==
    ASSUME NEW file \in Prefs!Values
    PROVE  /\ Prefs!Load(file) \in Prefs!Values /\ Prefs!Load(file)["appearance"] # 0
           /\ \A f \in Prefs!Fields : f # "appearance" => Prefs!Load(file)[f] = file[f]
           /\ file["appearance"] # 0 => Prefs!Load(file) = file
           /\ file["appearance"] = 0 => Prefs!Load(file)["appearance"] = 1
<1>1. "appearance" \in Prefs!Fields
  BY DEF Prefs!Fields, Prefs!Hooked
<1>2. Prefs!Load(file) =
          [file EXCEPT !["appearance"] = IF file["appearance"] = 0 THEN 1 ELSE file["appearance"]]
  BY DEF Prefs!Load
<1>3. QED
  BY <1>1, <1>2 DEF Prefs!Values, Prefs!Vals

\* A call gets a new record.
LEMMA CallReplaced ==
    ASSUME SettingsTyped, NEW c \in Callers, NEW r \in SettingsCalls,
           r.field = "appearance" => r.value # 0, r.field # "pet" => r.value # 3,
           calls' = [calls EXCEPT ![c] = r], UNCHANGED <<prefs, savedPrefs, lastWrite>>
    PROVE  SettingsTyped' /\ calls'[c] = r /\ \A b \in Callers \ {c} : calls'[b] = calls[b]
BY DEF SettingsTyped

\* A call goes from one step outside the lock to another.
LEMMA SettingsQuiet ==
    ASSUME SettingsInv, NEW c \in Callers, NEW r \in SettingsCalls, calls[c].at # "saved",
           r.at # "saved", r.field = "appearance" => r.value # 0,
              r.field # "pet" => r.value # 3,
           calls' = [calls EXCEPT ![c] = r], UNCHANGED <<prefs, savedPrefs, lastWrite, muBy>>
    PROVE  SettingsInv'
<1>1. SettingsTyped' /\ calls'[c] = r /\ \A b \in Callers \ {c} : calls'[b] = calls[b]
  BY CallReplaced DEF SettingsInv
<1>2. SettingsLocked'
  BY <1>1 DEF SettingsInv, SettingsLocked
<1>3. SettingsCurrent' /\ Prefs!NoLostUpdate'
  BY DEF SettingsInv, SettingsCurrent, Prefs!NoLostUpdate, Prefs!Load
<1>4. QED
  BY <1>1, <1>2, <1>3 DEF SettingsInv

\* A caller that rests.
LEMMA RestingIs ==
    /\ Prefs!Resting \in SettingsCalls /\ Prefs!Resting.at = "idle"
       /\ Prefs!Resting.field = "locale"
    /\ Prefs!Resting.value = 0
BY DEF Prefs!Resting, SettingsCalls, Prefs!Fields, Prefs!Hooked, Prefs!Vals, Prefs!Values

\* A value saved for one field keeps the last one saved for each of the others.
LEMMA SettingsSaves ==
    ASSUME SettingsInv, NEW c \in Callers, muBy = Prefs!NoCaller, NEW f \in Prefs!Fields,
           NEW v \in Prefs!Vals,
           f = "appearance" => v # 0, NEW r \in SettingsCalls, r.at = "saved",
           r.field = "appearance" => r.value # 0, r.field # "pet" => r.value # 3,
           calls' = [calls EXCEPT ![c] = r], muBy' = c, prefs' = prefs,
           savedPrefs' = [prefs EXCEPT ![f] = v], lastWrite' = [lastWrite EXCEPT ![f] = v]
    PROVE  SettingsInv'
<1>1. /\ prefs \in Prefs!Values /\ savedPrefs \in Prefs!Values /\ lastWrite \in Prefs!Values
      /\ calls \in [Callers -> SettingsCalls] /\ prefs["appearance"] # 0
      /\ prefs = Prefs!Load(savedPrefs) /\ "appearance" \in Prefs!Fields
  BY DEF SettingsInv, SettingsTyped, SettingsCurrent, Prefs!Fields, Prefs!Hooked
<1>2. /\ savedPrefs' \in Prefs!Values /\ lastWrite' \in Prefs!Values
      /\ savedPrefs'[f] = v /\ lastWrite'[f] = v
      /\ \A g \in Prefs!Fields : g # f => savedPrefs'[g] = prefs[g]
         /\ lastWrite'[g] = lastWrite[g]
  BY <1>1 DEF Prefs!Values
<1>3. SettingsTyped'
  BY <1>1, <1>2 DEF SettingsInv, SettingsTyped
<1>4. SettingsLocked'
  <2>1. c # Prefs!NoCaller
    BY SettingsAssumption DEF Prefs!NoCaller
  <2>2. \A b \in Callers : calls[b].at # "saved"
    BY SettingsAssumption DEF SettingsInv, SettingsLocked, Prefs!NoCaller
  <2>3. calls'[c] = r /\ \A b \in Callers \ {c} : calls'[b] = calls[b]
    BY <1>1
  <2>4. QED
    BY <2>1, <2>2, <2>3 DEF SettingsLocked
<1>5. SettingsCurrent'
  <2>1. c # Prefs!NoCaller
    BY SettingsAssumption DEF Prefs!NoCaller
  <2>2. savedPrefs'["appearance"] # 0
    BY <1>1, <1>2
  <2>3. QED
    BY <1>1, <2>1, <2>2 DEF SettingsCurrent
<1>6. Prefs!NoLostUpdate'
  <2>1. SUFFICES ASSUME NEW g \in Prefs!Fields
                 PROVE  savedPrefs'[g] = lastWrite'[g]
                        \/ (g = "appearance" /\ lastWrite'[g] = 0 /\ savedPrefs'[g] = 1)
    BY DEF Prefs!NoLostUpdate
  <2>2. CASE g = f
    BY <1>2, <2>2
  <2>3. CASE g # f
    <3>1. savedPrefs[g] = lastWrite[g] \/ (g = "appearance" /\ lastWrite[g] = 0
          /\ savedPrefs[g] = 1)
      BY DEF SettingsInv, Prefs!NoLostUpdate
    <3>2. /\ g # "appearance" => prefs[g] = savedPrefs[g]
          /\ savedPrefs["appearance"] # 0 => prefs = savedPrefs
          /\ savedPrefs["appearance"] = 0 => prefs["appearance"] = 1
      BY <1>1, LoadIs
    <3>3. QED
      BY <1>2, <2>3, <3>1, <3>2
  <2>4. QED
    BY <2>2, <2>3
<1>7. QED
  BY <1>3, <1>4, <1>5, <1>6 DEF SettingsInv

\* No setter, publication, hook or crash breaks it.
LEMMA SettingsStep ==
    ASSUME SettingsInv, [Prefs!Next]_settingsVars
    PROVE  SettingsInv'
<1>1. /\ prefs \in Prefs!Values /\ savedPrefs \in Prefs!Values /\ lastWrite \in Prefs!Values
      /\ calls \in [Callers -> SettingsCalls]
      /\ \A c \in Callers : /\ calls[c] \in SettingsCalls
                            /\ calls[c].field = "appearance" => calls[c].value # 0
                            /\ calls[c].field # "pet" => calls[c].value # 3
  BY DEF SettingsInv, SettingsTyped
<1>2. ASSUME NEW c \in Callers, NEW f \in Prefs!Fields, NEW v \in 0..3,
             f = "appearance" => v # 0,
             f # "pet" => v # 3, Prefs!Ask(c, f, v)
      PROVE  SettingsInv'
  <2> DEFINE r == [Prefs!Resting EXCEPT !.at = "ready", !.field = f, !.value = v,
      !.copy = prefs]
  <2>1. r \in SettingsCalls /\ r.at = "ready" /\ r.field = f /\ r.value = v
    BY <1>1, RestingIs DEF SettingsCalls
  <2>2. calls' = [calls EXCEPT ![c] = r] /\ calls[c].at = "idle"
        /\ UNCHANGED <<prefs, savedPrefs, lastWrite, muBy>>
    BY <1>2 DEF Prefs!Ask
  <2> HIDE DEF r
  <2>3. QED
    BY <1>2, <2>1, <2>2, SettingsQuiet
<1>3. ASSUME NEW c \in Callers,
             Prefs!SetLocale(c) \/ Prefs!SetAppearance(c) \/ Prefs!SetPetPreference(c)
      PROVE  SettingsInv'
  <2>1. "locale" \in Prefs!Fields /\ "appearance" \in Prefs!Fields /\ "pet" \in Prefs!Fields
    BY DEF Prefs!Fields, Prefs!Hooked
  <2>2. QED
    BY <1>2, <1>3, <2>1 DEF Prefs!SetLocale, Prefs!SetAppearance, Prefs!SetPetPreference
<1>4. ASSUME NEW c \in Callers, Prefs!AskChannel(c) PROVE SettingsInv'
  <2>1. PICK v \in {1, 2} :
            calls' = [calls EXCEPT ![c] = [Prefs!Resting EXCEPT !.at = "switching",
               !.field = "channel",
                                              !.value = v, !.old = prefs["channel"],
                                                 !.copy = prefs]]
    BY <1>4 DEF Prefs!AskChannel
  <2> DEFINE r == [Prefs!Resting EXCEPT !.at = "switching", !.field = "channel", !.value = v,
                                  !.old = prefs["channel"], !.copy = prefs]
  <2>2. "channel" \in Prefs!Fields /\ prefs["channel"] \in Prefs!Vals
    BY <1>1 DEF Prefs!Fields, Prefs!Hooked, Prefs!Values
  <2>3. r \in SettingsCalls /\ r.at = "switching" /\ r.field = "channel" /\ r.value = v
    <3>1. v \in 0..3
      OBVIOUS
    <3>2. Prefs!Resting \in SettingsCalls
      BY RestingIs
    <3>3. QED
      BY <1>1, <2>2, <3>1, <3>2 DEF SettingsCalls
  <2>4. calls' = [calls EXCEPT ![c] = r] /\ calls[c].at = "idle"
        /\ UNCHANGED <<prefs, savedPrefs, lastWrite, muBy>>
    BY <1>4, <2>1 DEF Prefs!AskChannel
  <2> HIDE DEF r
  <2>5. r.at # "saved" /\ r.field # "appearance" /\ r.value # 3 /\ calls[c].at # "saved"
    BY <2>3, <2>4
  <2>6. QED
    BY <2>3, <2>4, <2>5, SettingsQuiet
<1>5. ASSUME NEW c \in Callers, NEW label \in {"ready", "reading", "publishing", "hook"},
             calls' = [calls EXCEPT ![c].at = label] \/ calls' = [calls EXCEPT ![c].at = label,
                ![c].copy = prefs],
             calls[c].at # "saved", UNCHANGED <<prefs, savedPrefs, lastWrite, muBy>>
      PROVE  SettingsInv'
  <2>1. PICK r \in {[calls[c] EXCEPT !.at = label], [calls[c] EXCEPT !.at = label,
        !.copy = prefs]} :
            calls' = [calls EXCEPT ![c] = r]
    BY <1>5
  <2>2. r \in SettingsCalls /\ r.at = label /\ r.field = calls[c].field
        /\ r.value = calls[c].value
    BY <1>1 DEF SettingsCalls
  <2>3. QED
    BY <1>1, <1>5, <2>1, <2>2, SettingsQuiet
<1>6. ASSUME NEW c \in Callers, calls' = [calls EXCEPT ![c] = Prefs!Resting],
             calls[c].at # "saved", UNCHANGED <<prefs, savedPrefs, lastWrite, muBy>>
      PROVE  SettingsInv'
  <2>1. /\ Prefs!Resting \in SettingsCalls /\ Prefs!Resting.at # "saved"
           /\ Prefs!Resting.field # "appearance"
        /\ Prefs!Resting.value # 3
    BY RestingIs
  <2>2. QED
    BY <1>6, <2>1, SettingsQuiet
<1>7. ASSUME NEW c \in Callers, Prefs!SwitchUpdater(c) PROVE SettingsInv'
  BY <1>5, <1>6, <1>7 DEF Prefs!SwitchUpdater
<1>8. ASSUME NEW c \in Callers, Prefs!Save(c) PROVE SettingsInv'
  <2> DEFINE f == calls[c].field
             v == Prefs!Normalize(f, calls[c].value)
             r == [calls[c] EXCEPT !.at = "saved"]
  <2>1. f \in Prefs!Fields /\ v \in Prefs!Vals /\ (f = "appearance" => v # 0)
    BY <1>1 DEF Prefs!Normalize, Prefs!Vals, SettingsCalls
  <2>2. r \in SettingsCalls /\ r.at = "saved" /\ r.field = f /\ r.value = calls[c].value
    BY <1>1 DEF SettingsCalls
  <2>3. /\ calls' = [calls EXCEPT ![c] = r] /\ muBy = Prefs!NoCaller /\ muBy' = c
           /\ prefs' = prefs
        /\ savedPrefs' = [prefs EXCEPT ![f] = v] /\ lastWrite' = [lastWrite EXCEPT ![f] = v]
    BY <1>8 DEF Prefs!Save, Prefs!SaveOf
  <2> HIDE DEF r, v
  <2>4. QED
    BY <1>1, <2>1, <2>2, <2>3, SettingsSaves
<1>9. ASSUME NEW c \in Callers, Prefs!SaveFails(c) PROVE SettingsInv'
  BY <1>6, <1>9 DEF Prefs!SaveFails
<1>10. ASSUME NEW c \in Callers, Prefs!Commit(c) PROVE SettingsInv'
  <2> DEFINE r == [calls[c] EXCEPT !.at = "notify"]
  <2>1. r \in SettingsCalls /\ r.at = "notify" /\ r.field = calls[c].field
        /\ r.value = calls[c].value
    BY <1>1 DEF SettingsCalls
  <2>2. muBy = c /\ c # Prefs!NoCaller /\ savedPrefs["appearance"] # 0
    BY <1>10, SettingsAssumption
       DEF Prefs!Commit, SettingsInv, SettingsLocked, SettingsCurrent, Prefs!NoCaller
  <2>3. calls' = [calls EXCEPT ![c] = r] /\ prefs' = savedPrefs /\ muBy' = Prefs!NoCaller
        /\ savedPrefs' = savedPrefs /\ lastWrite' = lastWrite
    BY <1>10 DEF Prefs!Commit
  <2> HIDE DEF r
  <2>4. SettingsTyped' /\ calls'[c] = r /\ \A b \in Callers \ {c} : calls'[b] = calls[b]
    BY <1>1, <2>1, <2>3 DEF SettingsTyped
  <2>5. SettingsLocked'
    BY <2>1, <2>2, <2>3, <2>4, SettingsAssumption
       DEF SettingsInv, SettingsLocked, Prefs!NoCaller
  <2>6. SettingsCurrent'
    BY <1>1, <2>2, <2>3, LoadIs DEF SettingsCurrent
  <2>7. Prefs!NoLostUpdate'
    BY <2>3 DEF SettingsInv, Prefs!NoLostUpdate
  <2>8. QED
    BY <2>4, <2>5, <2>6, <2>7 DEF SettingsInv
<1>11. ASSUME NEW c \in Callers, Prefs!ImportAppearanceMode(c) PROVE SettingsInv'
  <2> DEFINE r == [Prefs!Resting EXCEPT !.at = "saved", !.field = "appearance", !.value = 2]
  <2>1. "appearance" \in Prefs!Fields /\ 2 \in Prefs!Vals
    BY DEF Prefs!Fields, Prefs!Hooked, Prefs!Vals
  <2>2. r \in SettingsCalls /\ r.at = "saved" /\ r.field = "appearance" /\ r.value = 2
    <3>1. 2 \in 0..3
      OBVIOUS
    <3>2. QED
      BY <2>1, <3>1, RestingIs DEF SettingsCalls
  <2>5. r.value # 0 /\ r.value # 3
    BY <2>2
  <2>3. /\ calls' = [calls EXCEPT ![c] = r] /\ muBy = Prefs!NoCaller /\ muBy' = c
           /\ prefs' = prefs
        /\ savedPrefs' = [prefs EXCEPT !["appearance"] = 2]
        /\ lastWrite' = [lastWrite EXCEPT !["appearance"] = 2]
    BY <1>11 DEF Prefs!ImportAppearanceMode
  <2> HIDE DEF r
  <2>4. QED
    BY <2>1, <2>2, <2>3, <2>5, SettingsSaves
<1>12. ASSUME NEW c \in Callers,
              Prefs!PublishLock(c) \/ Prefs!PublishRead(c) \/ Prefs!Publish(c) PROVE SettingsInv'
  BY <1>5, <1>12 DEF Prefs!PublishLock, Prefs!PublishRead, Prefs!Publish
<1>13. ASSUME NEW c \in Callers, Prefs!Hook(c) PROVE SettingsInv'
  BY <1>6, <1>13 DEF Prefs!Hook
<1>14. CASE Prefs!Crash
  <2>1. /\ prefs' = Prefs!Load(savedPrefs) /\ muBy' = Prefs!NoCaller
           /\ calls' = [c \in Callers |-> Prefs!Resting]
        /\ savedPrefs' = savedPrefs /\ lastWrite' = lastWrite
    BY <1>14 DEF Prefs!Crash
  <2>2. SettingsTyped'
    BY <1>1, <2>1, LoadIs, RestingIs DEF SettingsTyped
  <2>3. SettingsLocked'
    BY <2>1, RestingIs, SettingsAssumption DEF SettingsLocked, Prefs!NoCaller
  <2>4. SettingsCurrent' /\ Prefs!NoLostUpdate'
    BY <1>1, <2>1, LoadIs DEF SettingsInv, SettingsCurrent, Prefs!NoLostUpdate
  <2>5. QED
    BY <2>2, <2>3, <2>4 DEF SettingsInv
<1>15. CASE UNCHANGED settingsVars
  BY <1>15 DEF settingsVars, SettingsInv, SettingsTyped, SettingsLocked, SettingsCurrent,
     Prefs!NoLostUpdate, Prefs!Load
<1>16. QED
  BY <1>3, <1>4, <1>7, <1>8, <1>9, <1>10, <1>11, <1>12, <1>13, <1>14, <1>15
     DEF Prefs!Next, Prefs!CallerStep

\* It holds at the start.
LEMMA SettingsStart == Prefs!Init => SettingsInv
<1>1. SUFFICES ASSUME Prefs!Init PROVE SettingsInv
  OBVIOUS
<1>2. /\ savedPrefs \in Prefs!Values /\ prefs = Prefs!Load(savedPrefs) /\ muBy = Prefs!NoCaller
      /\ calls = [c \in Callers |-> Prefs!Resting] /\ lastWrite = savedPrefs
  BY <1>1 DEF Prefs!Init, Prefs!Values, Prefs!Vals
<1>3. SettingsTyped
  BY <1>2, LoadIs, RestingIs DEF SettingsTyped
<1>4. SettingsLocked
  BY <1>2, RestingIs, SettingsAssumption DEF SettingsLocked, Prefs!NoCaller
<1>5. SettingsCurrent /\ Prefs!NoLostUpdate
  BY <1>2, LoadIs DEF SettingsCurrent, Prefs!NoLostUpdate
<1>6. QED
  BY <1>3, <1>4, <1>5 DEF SettingsInv

-----------------------------------------------------------------------------
(* StorageMove: the daemons, the offline commands and the purge            *)

\* What a place holds, and what a process is.
StorageContents == {"none", "part", "full"}
StorageProcs == [at : Storage!Steps, seen : Storage!Records, mem : Storage!Records, done : 0..2,
                 stage : Seq(StorageContents)]

\* Where a daemon moves data, before the record and after it.
DaemonMoves == {"staged", "publishing", "committing", "rollback"}
DaemonBefore == DaemonMoves \cup {"locked", "failing"}
DaemonAfter == {"removing", "releasing", "tidying", "running"}

\* The types of the component, the processes' records included.
StorageTyped == Storage!StorageTypeOK /\ proc \in [Storage!Processes -> StorageProcs]

\* Which steps a process of each kind takes, and what a daemon that moves data knows.
DaemonKnows(d) ==
    /\ proc[d].at \in DaemonBefore \cup DaemonAfter \cup {"off", "opened"}
    /\ proc[d].at = "opened" => proc[d].mem = proc[d].seen
    /\ proc[d].at \in {"opened", "locked", "staged"} => proc[d].done = 0
    /\ proc[d].at \in DaemonMoves \cup {"removing"} =>
          /\ proc[d].seen.move \in Storage!Locations
          /\ proc[d].done <= Len(Storage!Moves(proc[d].seen.cur, proc[d].seen.move))
    /\ proc[d].at \in {"staged", "publishing"} =>
          Len(proc[d].stage) = Len(Storage!Moves(proc[d].seen.cur, proc[d].seen.move))
\* What an offline command and a purge do.
CliKnows(c) == proc[c].at \in {"off", "checked", "opened", "locked", "working"}
PurgeKnows(u) ==
    /\ proc[u].at \in {"off", "checked", "opened", "locked", "purging", "unlocking",
                       "clearing", "sweeping"}
    /\ proc[u].at \in {"unlocking", "clearing", "sweeping"} => purged

\* Each process takes the steps of its kind.
StorageKinds ==
    /\ \A d \in Daemons : DaemonKnows(d)
    /\ \A c \in Clis : CliKnows(c)
    /\ \A u \in Purges : PurgeKnows(u)

\* p has the lock of the root the record names.
StorageOwns(p) == lock[config.cur.root] = p

\* From its lock to its end a daemon has the recorded root. Before the commit it works
\* from the record as it is, what it staged and published is complete, and at the commit it
\* has the destination too; after it, the record names where it works.
DaemonHeld(d) ==
    /\ proc[d].at \in DaemonBefore =>
          /\ StorageOwns(d) /\ proc[d].seen.cur = config.cur /\ proc[d].mem = proc[d].seen
    /\ proc[d].at \in DaemonAfter => StorageOwns(d) /\ proc[d].mem.cur = config.cur
    /\ proc[d].at \in {"removing", "releasing"} =>
          lock[proc[d].seen.cur.root] = d /\ proc[d].mem.cur = proc[d].seen.move
    /\ proc[d].at = "releasing" => proc[d].seen.move.root # proc[d].seen.cur.root
    /\ proc[d].at \in {"staged", "publishing"} =>
          \A i \in 1..Len(proc[d].stage) : proc[d].stage[i] = "full"
    /\ proc[d].at \in DaemonMoves => \A i \in 1..proc[d].done :
          content[Storage!Moves(proc[d].seen.cur, proc[d].seen.move)[i].target] = "full"
    /\ proc[d].at = "committing" =>
          /\ lock[proc[d].seen.move.root] = d
          /\ proc[d].done = Len(Storage!Moves(proc[d].seen.cur, proc[d].seen.move))

\* An offline command and a purge that go on hold the root the record names.
CliHeld(c) ==
    /\ proc[c].at \in {"locked", "working"} => lock[proc[c].seen.cur.root] = c
    /\ proc[c].at = "working" => config.cur.root = proc[c].seen.cur.root

PurgeHeld(u) ==
    /\ proc[u].at \in {"locked", "purging"} => lock[proc[u].seen.cur.root] = u
    /\ proc[u].at = "purging" => config.cur = proc[u].seen.cur

\* What each process holds, as long as every daemon began on the record as it was.
StorageHeld ==
    Storage!Ordinary =>
        /\ \A d \in Daemons : DaemonHeld(d)
        /\ \A c \in Clis : CliHeld(c)
        /\ \A u \in Purges : PurgeHeld(u)

\* What holds after every step of a daemon, an offline command, a purge or a kill.
StorageInv == StorageTyped /\ StorageKinds /\ Storage!DataIsFound /\ StorageHeld

\* A location is never the absent move, and no process is called nobody.
LEMMA StorageNames ==
    /\ Storage!NoMove \notin Storage!Locations
    /\ \A p \in Storage!Processes : p # Storage!Free
BY StorageAssumption DEF Storage!NoMove, Storage!Locations, Storage!Free, Storage!Processes

\* Two one-element sequences joined.
LEMMA PairJoined ==
    ASSUME NEW S, NEW a \in S, NEW b \in S
    PROVE  <<a>> \o <<b>> = <<a, b>>
<1> DEFINE s == <<a>> \o <<b>>
<1>1. <<a>> \in Seq(S) /\ <<b>> \in Seq(S) /\ <<a, b>> \in Seq(S)
  OBVIOUS
<1>2. s \in Seq(S) /\ Len(s) = 2 /\ s[1] = a /\ s[2] = b
  BY <1>1
<1> DEFINE t == <<a, b>>
<1>3. t \in Seq(S) /\ Len(t) = 2 /\ t[1] = a /\ t[2] = b
  OBVIOUS
<1> HIDE DEF s, t
<1>4. \A i \in 1..Len(s) : s[i] = t[i]
  BY <1>2, <1>3
<1>5. s = t
  BY <1>2, <1>3, <1>4, SeqEqual
<1>6. QED
  BY <1>5 DEF s, t

\* A move is made of the root, if it changes, and the data, if they change
\* (locations.go:344-353).
LEMMA MovesAre ==
    ASSUME NEW old \in Storage!Locations, NEW next \in Storage!Locations
    PROVE  /\ Storage!Moves(old, next) \in
                 Seq([source : Storage!Places, target : Storage!Places])
           /\ Len(Storage!Moves(old, next)) \in 0..2
           /\ DOMAIN Storage!Moves(old, next) = 1..Len(Storage!Moves(old, next))
           /\ \A i \in 1..Len(Storage!Moves(old, next)) :
                 \/ /\ old.root # next.root
                    /\ Storage!Moves(old, next)[i] = [source |-> old.root, target |-> next.root]
                 \/ /\ old.data # next.data
                    /\ Storage!Moves(old, next)[i] = [source |-> old.data, target |-> next.data]
           /\ old.root # next.root =>
                 \E i \in 1..Len(Storage!Moves(old, next)) : Storage!Moves(old,
                    next)[i].target = next.root
           /\ old.data # next.data =>
                 \E i \in 1..Len(Storage!Moves(old, next)) : Storage!Moves(old,
                    next)[i].target = next.data
<1> DEFINE a == [source |-> old.root, target |-> next.root]
           b == [source |-> old.data, target |-> next.data]
<1>1. /\ a \in [source : Storage!Places, target : Storage!Places]
      /\ b \in [source : Storage!Places, target : Storage!Places]
  BY DEF Storage!Locations, Storage!Places
<1>2. a.target = next.root /\ b.target = next.data
  OBVIOUS
<1>3. CASE old.root = next.root /\ old.data = next.data
  <2>1. Storage!Moves(old, next) = <<>>
    BY <1>3 DEF Storage!Moves
  <2>2. QED
    BY <1>3, <2>1
<1>4. CASE old.root # next.root /\ old.data = next.data
  <2>1. Storage!Moves(old, next) = <<a>>
    BY <1>4, <1>1 DEF Storage!Moves
  <2> HIDE DEF a, b
  <2>2. QED
    BY <1>1, <1>2, <1>4, <2>1 DEF a
<1>5. CASE old.root = next.root /\ old.data # next.data
  <2>1. Storage!Moves(old, next) = <<b>>
    BY <1>5, <1>1 DEF Storage!Moves
  <2> HIDE DEF a, b
  <2>2. QED
    BY <1>1, <1>2, <1>5, <2>1 DEF b
<1>6. CASE old.root # next.root /\ old.data # next.data
  <2>1. <<a>> \o <<b>> = <<a, b>>
    BY <1>1, PairJoined
  <2>3. Storage!Moves(old, next) = <<a, b>>
    BY <1>6, <2>1 DEF Storage!Moves
  <2> HIDE DEF a, b
  <2>2. QED
    BY <1>1, <1>2, <1>6, <2>3 DEF a, b
<1>7. QED
  BY <1>3, <1>4, <1>5, <1>6

\* What a move copies from is no part of where it goes, and the other way round.
LEMMA MovesApart ==
    ASSUME NEW old \in Storage!Locations, NEW next \in Storage!Locations,
           NEW i \in 1..Len(Storage!Moves(old, next))
    PROVE  /\ Storage!Moves(old, next)[i].source \in {old.root, old.data}
           /\ Storage!Moves(old, next)[i].source \notin {next.root, next.data}
           /\ Storage!Moves(old, next)[i].target \in {next.root, next.data}
           /\ Storage!Moves(old, next)[i].target \notin {old.root, old.data}
<1>1. \/ /\ old.root # next.root
          /\ Storage!Moves(old, next)[i] = [source |-> old.root, target |-> next.root]
       \/ /\ old.data # next.data
          /\ Storage!Moves(old, next)[i] = [source |-> old.data, target |-> next.data]
  BY MovesAre
<1>2. /\ old.root \in Roots /\ next.root \in Roots /\ old.data \in Datas /\ next.data \in Datas
      /\ old.root # next.data /\ old.data # next.root
  BY StorageAssumption DEF Storage!Locations
<1>3. QED
  BY <1>1, <1>2

\* A process goes to another step.
LEMMA ProcTo ==
    ASSUME proc \in [Storage!Processes -> StorageProcs], NEW p \in Storage!Processes,
           NEW label \in Storage!Steps,
           Storage!To(p, label)
    PROVE  /\ proc' \in [Storage!Processes -> StorageProcs]
           /\ proc'[p].at = label /\ proc'[p].seen = proc[p].seen /\ proc'[p].mem = proc[p].mem
           /\ proc'[p].done = proc[p].done /\ proc'[p].stage = proc[p].stage
           /\ \A q \in Storage!Processes \ {p} : proc'[q] = proc[q]
<1>1. proc' = [proc EXCEPT ![p] = [proc[p] EXCEPT !.at = label]]
  BY DEF Storage!To
<1>2. proc[p] \in StorageProcs
  OBVIOUS
<1>3. [proc[p] EXCEPT !.at = label] \in StorageProcs
  BY <1>2 DEF StorageProcs
<1>4. QED
  BY <1>1, <1>2, <1>3 DEF StorageProcs

\* A process gets a new record.
LEMMA ProcSet ==
    ASSUME proc \in [Storage!Processes -> StorageProcs], NEW p \in Storage!Processes,
           NEW r \in StorageProcs,
           proc' = [proc EXCEPT ![p] = r]
    PROVE  /\ proc' \in [Storage!Processes -> StorageProcs]
           /\ proc'[p] = r
           /\ \A q \in Storage!Processes \ {p} : proc'[q] = proc[q]
OBVIOUS

\* A process that does not run, and the record it starts from.
LEMMA OffIs == Storage!Off \in StorageProcs /\ Storage!Off.at = "off"
   /\ Storage!Off.done = 0 /\ Storage!DefaultRecord \in Storage!Records
<1>1. Storage!DefaultRecord \in Storage!Records
  BY StorageAssumption DEF Storage!DefaultRecord, Storage!Records, Storage!Default,
     Storage!Locations
<1>2. <<>> \in Seq(StorageContents)
  OBVIOUS
<1>3. QED
  BY <1>1, <1>2 DEF Storage!Off, StorageProcs, Storage!Steps

\* A daemon that serves has nothing left of the move.
LEMMA OffMem ==
    ASSUME NEW record \in Storage!Records
    PROVE  LET r == [Storage!Off EXCEPT !.at = "running", !.mem = record]
           IN  r \in StorageProcs /\ r.at = "running" /\ r.mem = record /\ r.done = 0
BY OffIs DEF StorageProcs, Storage!Steps

\* A process that has just read the record, or has not yet.
LEMMA OffSeen ==
    ASSUME NEW record \in Storage!Records
    PROVE  /\ LET r == [Storage!Off EXCEPT !.at = "opened", !.seen = record, !.mem = record]
              IN  r \in StorageProcs /\ r.at = "opened" /\ r.seen = record /\ r.mem = record
                  /\ r.done = 0
           /\ LET r == [Storage!Off EXCEPT !.at = "checked", !.seen = record]
              IN  r \in StorageProcs /\ r.at = "checked"
           /\ LET r == [Storage!Off EXCEPT !.at = "checked"]
              IN  r \in StorageProcs /\ r.at = "checked"
BY OffIs DEF StorageProcs, Storage!Steps

\* A daemon begins to serve.
LEMMA ProcRuns ==
    ASSUME proc \in [Storage!Processes -> StorageProcs], NEW d \in Storage!Processes,
           NEW record \in Storage!Records,
           Storage!Runs(d, record)
    PROVE  /\ proc' \in [Storage!Processes -> StorageProcs] /\ proc'[d].at = "running"
           /\ proc'[d].mem = record
           /\ \A q \in Storage!Processes \ {d} : proc'[q] = proc[q]
<1> DEFINE r == [Storage!Off EXCEPT !.at = "running", !.mem = record]
<1>1. r \in StorageProcs /\ r.at = "running" /\ r.mem = record
  BY OffMem
<1>2. proc' = [proc EXCEPT ![d] = r]
  BY DEF Storage!Runs
<1> HIDE DEF r
<1>3. QED
  BY <1>1, <1>2, ProcSet

\* What a step of p leaves of the others: it takes no lock of theirs, and moves the
\* record or the data only while it has the lock of the recorded root.
StorageQuiet(p) ==
    /\ \A q \in Storage!Processes \ {p} : proc'[q] = proc[q]
    /\ \A q \in Storage!Processes \ {p} : \A r \in Roots : lock[r] = q => lock'[r] = q
    /\ purged => purged'
    /\ outdated => outdated'
    /\ Storage!Ordinary' => (config'.cur = config.cur /\ content' = content) \/ StorageOwns(p)

\* A step of p breaks nothing the others rely on.
LEMMA StorageOthers ==
    ASSUME StorageInv, StorageTyped', NEW p \in Storage!Processes, StorageQuiet(p),
           NEW q \in Storage!Processes \ {p}
    PROVE  /\ q \in Daemons => DaemonKnows(q)' /\ (Storage!Ordinary' => DaemonHeld(q)')
           /\ q \in Clis => CliKnows(q)' /\ (Storage!Ordinary' => CliHeld(q)')
           /\ q \in Purges => PurgeKnows(q)' /\ (Storage!Ordinary' => PurgeHeld(q)')
<1>1. proc'[q] = proc[q] /\ q \in Storage!Processes /\ q # p
  BY DEF StorageQuiet
<1>2. \A r \in Roots : lock[r] = q => lock'[r] = q
  BY DEF StorageQuiet
<1>3. Storage!Ordinary' => Storage!Ordinary
  BY DEF StorageQuiet, Storage!Ordinary
<1>4. proc[q] \in StorageProcs /\ proc[q].seen.cur.root \in Roots
      /\ (proc[q].seen.move \in Storage!Locations => proc[q].seen.move.root \in Roots)
  BY DEF StorageInv, StorageTyped, StorageProcs, Storage!Records, Storage!Locations
<1>5. config.cur.root \in Roots
  BY DEF StorageInv, StorageTyped, Storage!StorageTypeOK, Storage!Records, Storage!Locations
<1>6. CASE q \in Daemons
  <2>1. q \notin Clis /\ q \notin Purges
    BY <1>6, StorageAssumption
  <2>2. DaemonKnows(q)
    BY <1>6 DEF StorageInv, StorageKinds
  <2>3. DaemonKnows(q)'
    BY <1>1, <2>2 DEF DaemonKnows
  <2>4. ASSUME Storage!Ordinary' PROVE DaemonHeld(q)'
    <3>1. DaemonHeld(q)
      BY <1>3, <1>6, <2>4 DEF StorageInv, StorageHeld
    <3>2. CASE StorageOwns(p)
      <4>1. proc[q].at \notin DaemonBefore \cup DaemonAfter
        BY <1>1, <3>1, <3>2 DEF DaemonHeld, StorageOwns
      <4>2. QED
        BY <1>1, <4>1 DEF DaemonHeld, DaemonBefore, DaemonAfter, DaemonMoves
    <3>3. CASE config'.cur = config.cur /\ content' = content
      <4>1. StorageOwns(q) => StorageOwns(q)'
        BY <1>2, <1>5, <3>3 DEF StorageOwns
      <4>2. lock[proc[q].seen.cur.root] = q => lock'[proc'[q].seen.cur.root] = q
        BY <1>1, <1>2, <1>4
      <4>3. proc[q].at = "committing" /\ lock[proc[q].seen.move.root] = q
               => lock'[proc'[q].seen.move.root] = q
        BY <1>1, <1>2, <1>4, <2>2 DEF DaemonKnows, DaemonMoves
      <4>4. QED
        BY <1>1, <3>1, <3>3, <4>1, <4>2, <4>3 DEF DaemonHeld
    <3>4. QED
      BY <2>4, <3>2, <3>3 DEF StorageQuiet
  <2>5. QED
    BY <2>1, <2>3, <2>4
<1>7. CASE q \in Clis
  <2>1. q \notin Daemons /\ q \notin Purges
    BY <1>7, StorageAssumption
  <2>2. CliKnows(q)'
    BY <1>1, <1>7 DEF StorageInv, StorageKinds, CliKnows
  <2>3. ASSUME Storage!Ordinary' PROVE CliHeld(q)'
    <3>1. CliHeld(q)
      BY <1>3, <1>7, <2>3 DEF StorageInv, StorageHeld
    <3>2. proc[q].at = "working" => config'.cur = config.cur
      BY <1>1, <2>3, <3>1 DEF StorageQuiet, CliHeld, StorageOwns
    <3>3. QED
      BY <1>1, <1>2, <1>4, <3>1, <3>2 DEF CliHeld
  <2>4. QED
    BY <2>1, <2>2, <2>3
<1>8. CASE q \in Purges
  <2>1. q \notin Daemons /\ q \notin Clis
    BY <1>8, StorageAssumption
  <2>2. PurgeKnows(q)'
    BY <1>1, <1>8 DEF StorageInv, StorageKinds, PurgeKnows, StorageQuiet
  <2>3. ASSUME Storage!Ordinary' PROVE PurgeHeld(q)'
    <3>1. PurgeHeld(q)
      BY <1>3, <1>8, <2>3 DEF StorageInv, StorageHeld
    <3>2. proc[q].at = "purging" => config'.cur = config.cur
      BY <1>1, <2>3, <3>1 DEF StorageQuiet, PurgeHeld, StorageOwns
    <3>3. QED
      BY <1>1, <1>2, <1>4, <3>1, <3>2 DEF PurgeHeld
  <2>4. QED
    BY <2>1, <2>2, <2>3
<1>9. QED
  BY <1>1, <1>6, <1>7, <1>8 DEF Storage!Processes

\* A step of p keeps the invariant if p keeps its own part and the data are found.
LEMMA StorageKept ==
    ASSUME StorageInv, StorageTyped', Storage!DataIsFound', NEW p \in Storage!Processes,
           StorageQuiet(p),
           p \in Daemons => DaemonKnows(p)' /\ (Storage!Ordinary' => DaemonHeld(p)'),
           p \in Clis => CliKnows(p)' /\ (Storage!Ordinary' => CliHeld(p)'),
           p \in Purges => PurgeKnows(p)' /\ (Storage!Ordinary' => PurgeHeld(p)')
    PROVE  StorageInv'
<1>1. \A q \in Storage!Processes :
          /\ q \in Daemons => DaemonKnows(q)' /\ (Storage!Ordinary' => DaemonHeld(q)')
          /\ q \in Clis => CliKnows(q)' /\ (Storage!Ordinary' => CliHeld(q)')
          /\ q \in Purges => PurgeKnows(q)' /\ (Storage!Ordinary' => PurgeHeld(q)')
  <2>1. SUFFICES ASSUME NEW q \in Storage!Processes
                 PROVE /\ q \in Daemons => DaemonKnows(q)'
                           /\ (Storage!Ordinary' => DaemonHeld(q)')
                       /\ q \in Clis => CliKnows(q)' /\ (Storage!Ordinary' => CliHeld(q)')
                       /\ q \in Purges => PurgeKnows(q)' /\ (Storage!Ordinary' => PurgeHeld(q)')
    OBVIOUS
  <2>2. CASE q = p
    BY <2>2
  <2>3. CASE q # p
    <3>1. q \in Storage!Processes \ {p}
      BY <2>3
    <3>2. QED
      BY <3>1, StorageOthers
  <2>4. QED
    BY <2>2, <2>3
<1>2. StorageKinds'
  BY <1>1 DEF StorageKinds, Storage!Processes
<1>3. StorageHeld'
  BY <1>1 DEF StorageHeld, Storage!Processes
<1>4. QED
  BY <1>2, <1>3 DEF StorageInv

\* The same for a step of a daemon.
LEMMA DaemonKept ==
    ASSUME StorageInv, StorageTyped', Storage!DataIsFound', NEW d \in Daemons, StorageQuiet(d),
           DaemonKnows(d)', Storage!Ordinary' => DaemonHeld(d)'
    PROVE  StorageInv'
<1>1. d \in Storage!Processes /\ d \notin Clis /\ d \notin Purges
  BY StorageAssumption DEF Storage!Processes
<1>2. QED
  BY <1>1, StorageKept

\* The same for a step of an offline command.
LEMMA CliKept ==
    ASSUME StorageInv, StorageTyped', Storage!DataIsFound', NEW c \in Clis, StorageQuiet(c),
           CliKnows(c)', Storage!Ordinary' => CliHeld(c)'
    PROVE  StorageInv'
<1>1. c \in Storage!Processes /\ c \notin Daemons /\ c \notin Purges
  BY StorageAssumption DEF Storage!Processes
<1>2. QED
  BY <1>1, StorageKept

\* The same for a step of a purge.
LEMMA PurgeKept ==
    ASSUME StorageInv, StorageTyped', Storage!DataIsFound', NEW u \in Purges, StorageQuiet(u),
           PurgeKnows(u)', Storage!Ordinary' => PurgeHeld(u)'
    PROVE  StorageInv'
<1>1. u \in Storage!Processes /\ u \notin Daemons /\ u \notin Clis
  BY StorageAssumption DEF Storage!Processes
<1>2. QED
  BY <1>1, StorageKept

\* Where neither the record nor the data change, the data are still found.
LEMMA FoundStill ==
    ASSUME Storage!DataIsFound, purged => purged', outdated => outdated',
           config'.cur = config.cur,
           content' = content
    PROVE  Storage!DataIsFound'
BY DEF Storage!DataIsFound, Storage!Ordinary

\* The types a step of a process rests on.
LEMMA ProcessFacts ==
    ASSUME StorageInv, NEW p \in Storage!Processes
    PROVE  /\ proc[p] \in StorageProcs /\ proc[p].at \in Storage!Steps
           /\ proc[p].seen \in Storage!Records /\ proc[p].seen.cur \in Storage!Locations
           /\ proc[p].seen.cur.root \in Roots /\ proc[p].seen.cur.data \in Datas
           /\ proc[p].seen.move \in Storage!Locations \cup {Storage!NoMove}
           /\ proc[p].mem \in Storage!Records /\ proc[p].mem.cur \in Storage!Locations
           /\ proc[p].mem.cur.root \in Roots
           /\ proc[p].done \in 0..2 /\ proc[p].stage \in Seq(StorageContents)
           /\ config \in Storage!Records /\ config.cur \in Storage!Locations
           /\ config.cur.root \in Roots /\ config.cur.data \in Datas
BY DEF StorageInv, StorageTyped, Storage!StorageTypeOK, StorageProcs, Storage!Records,
   Storage!Locations

\* What a daemon knows and holds.
LEMMA DaemonFacts ==
    ASSUME StorageInv, NEW d \in Daemons
    PROVE  d \in Storage!Processes /\ DaemonKnows(d) /\ (Storage!Ordinary => DaemonHeld(d))
BY DEF StorageInv, StorageKinds, StorageHeld, Storage!Processes

\* A process that ends loses its own locks only.
LEMMA ProcEnds ==
    ASSUME StorageInv, NEW p \in Storage!Processes, Storage!Ends(p)
    PROVE  /\ proc' \in [Storage!Processes -> StorageProcs] /\ proc'[p] = Storage!Off
           /\ \A q \in Storage!Processes \ {p} : proc'[q] = proc[q]
           /\ lock' \in [Roots -> Storage!Processes \cup {Storage!Free}]
           /\ \A q \in Storage!Processes \ {p} : \A r \in Roots : lock[r] = q => lock'[r] = q
<1>1. proc \in [Storage!Processes -> StorageProcs]
      /\ lock \in [Roots -> Storage!Processes \cup {Storage!Free}]
  BY DEF StorageInv, StorageTyped, Storage!StorageTypeOK
<1>2. Storage!Off \in StorageProcs
  BY OffIs
<1>3. proc' \in [Storage!Processes -> StorageProcs] /\ proc'[p] = Storage!Off
      /\ \A q \in Storage!Processes \ {p} : proc'[q] = proc[q]
  BY <1>1, <1>2, ProcSet DEF Storage!Ends
<1>4. QED
  BY <1>1, <1>3 DEF Storage!Ends

\* A lock that is taken was nobody's.
LEMMA LockTaken ==
    ASSUME StorageInv, NEW p \in Storage!Processes, NEW r \in Roots, Storage!AcquireLock(p, r)
    PROVE  /\ lock' \in [Roots -> Storage!Processes \cup {Storage!Free}]
              /\ lockFile' \in [Roots -> BOOLEAN]
           /\ lock'[r] = p
           /\ \A q \in Storage!Processes : \A s \in Roots : lock[s] = q => lock'[s] = q
<1>1. lock \in [Roots -> Storage!Processes \cup {Storage!Free}]
      /\ lockFile \in [Roots -> BOOLEAN]
  BY DEF StorageInv, StorageTyped, Storage!StorageTypeOK
<1>2. QED
  BY <1>1, StorageNames DEF Storage!AcquireLock

\* A step of a process that ends, or was never there.
LEMMA StepEnds ==
    ASSUME StorageInv, StorageTyped', Storage!DataIsFound', NEW p \in Storage!Processes,
           proc'[p] = Storage!Off,
           StorageQuiet(p)
    PROVE  StorageInv'
<1>1. Storage!Off.at = "off"
  BY OffIs
<1>2. DaemonKnows(p)' /\ DaemonHeld(p)' /\ CliKnows(p)' /\ CliHeld(p)' /\ PurgeKnows(p)'
      /\ PurgeHeld(p)'
  BY <1>1 DEF DaemonKnows, DaemonHeld, CliKnows, CliHeld, PurgeKnows, PurgeHeld, DaemonBefore,
     DaemonAfter, DaemonMoves
<1>3. QED
  BY <1>2, StorageKept

\* A starting daemon: the record is read, its root locked, nothing is pending or the
\* target is refused (daemon.go:69-79, locations.go:321-343).
LEMMA StorageDaemonStarts ==
    ASSUME StorageInv, NEW d \in Daemons
    PROVE  /\ Storage!DaemonOpens(d) => StorageInv'
           /\ Storage!DaemonLocks(d) => StorageInv'
           /\ Storage!ApplyNothing(d) => StorageInv'
<1>1. /\ d \in Storage!Processes /\ DaemonKnows(d) /\ (Storage!Ordinary => DaemonHeld(d))
  BY DaemonFacts
<1>2. proc \in [Storage!Processes -> StorageProcs] /\ Storage!StorageTypeOK
      /\ Storage!DataIsFound
  BY DEF StorageInv, StorageTyped
<1>3. ASSUME Storage!DaemonOpens(d) PROVE StorageInv'
  <2>1. config \in Storage!Records /\ "opened" \in Storage!Steps
    BY <1>2 DEF Storage!StorageTypeOK, Storage!Steps
  <2>2. /\ proc' \in [Storage!Processes -> StorageProcs] /\ proc'[d].at = "opened"
        /\ proc'[d].mem = proc'[d].seen /\ proc'[d].done = 0
        /\ \A q \in Storage!Processes \ {d} : proc'[q] = proc[q]
    <3> DEFINE r == [Storage!Off EXCEPT !.at = "opened", !.seen = config, !.mem = config]
    <3>1. r \in StorageProcs /\ r.at = "opened" /\ r.mem = r.seen /\ r.done = 0
      BY <2>1, OffSeen
    <3>2. proc' = [proc EXCEPT ![d] = r]
      BY <1>3 DEF Storage!DaemonOpens
    <3> HIDE DEF r
    <3>3. QED
      BY <1>1, <1>2, <3>1, <3>2, ProcSet
  <2>3. StorageTyped' /\ Storage!DataIsFound' /\ StorageQuiet(d)
    BY <1>2, <1>3, <2>2, FoundStill
       DEF Storage!DaemonOpens, StorageTyped, Storage!StorageTypeOK, StorageProcs, StorageQuiet
  <2>4. DaemonKnows(d)' /\ DaemonHeld(d)'
    BY <2>2 DEF DaemonKnows, DaemonHeld, DaemonBefore, DaemonAfter, DaemonMoves
  <2>5. QED
    BY <2>3, <2>4, DaemonKept
<1>4. ASSUME Storage!DaemonLocks(d) PROVE StorageInv'
  <2> DEFINE root == proc[d].seen.cur.root
  <2>1. root \in Roots
    BY <1>1, ProcessFacts
  <2>2. CASE lock[root] # Storage!Free /\ Storage!Ends(d) /\ UNCHANGED <<lockFile, outdated>>
    <3>1. StorageTyped' /\ Storage!DataIsFound' /\ StorageQuiet(d) /\ proc'[d] = Storage!Off
      BY <1>1, <1>2, <1>4, <2>2, FoundStill, ProcEnds
         DEF Storage!DaemonLocks, StorageTyped, Storage!StorageTypeOK, StorageProcs,
            StorageQuiet
    <3>2. QED
      BY <1>1, <3>1, StepEnds
  <2>3. CASE /\ Storage!AcquireLock(d, root) /\ Storage!To(d, "locked")
             /\ outdated' = (outdated \/ proc[d].seen.cur # config.cur)
    <3>1. "locked" \in Storage!Steps
      BY DEF Storage!Steps
    <3>2. /\ proc' \in [Storage!Processes -> StorageProcs] /\ proc'[d].at = "locked"
          /\ proc'[d].seen = proc[d].seen /\ proc'[d].mem = proc[d].mem
          /\ proc'[d].done = proc[d].done
          /\ \A q \in Storage!Processes \ {d} : proc'[q] = proc[q]
      BY <1>1, <1>2, <2>3, <3>1, ProcTo
    <3>3. /\ lock' \in [Roots -> Storage!Processes \cup {Storage!Free}]
             /\ lockFile' \in [Roots -> BOOLEAN]
          /\ lock'[root] = d
          /\ \A q \in Storage!Processes : \A s \in Roots : lock[s] = q => lock'[s] = q
      BY <1>1, <2>1, <2>3, LockTaken
    <3>4. outdated' \in BOOLEAN
      BY <2>3
    <3>5. outdated => outdated'
      BY <2>3
    <3>6. StorageTyped'
      BY <1>2, <1>4, <3>2, <3>3, <3>4
         DEF Storage!DaemonLocks, StorageTyped, Storage!StorageTypeOK, StorageProcs
    <3>7. Storage!DataIsFound' /\ StorageQuiet(d)
      BY <1>2, <1>4, <3>2, <3>3, <3>5, FoundStill DEF Storage!DaemonLocks, StorageQuiet
    <3>8. proc[d].at = "opened" /\ proc[d].mem = proc[d].seen /\ proc[d].done = 0
      BY <1>1, <1>4 DEF Storage!DaemonLocks, DaemonKnows
    <3>9. DaemonKnows(d)'
      BY <3>2, <3>8 DEF DaemonKnows, DaemonBefore, DaemonAfter, DaemonMoves
    <3>10. ASSUME Storage!Ordinary' PROVE DaemonHeld(d)'
      <4>1. proc[d].seen.cur = config.cur /\ config' = config
        BY <1>4, <2>3, <3>10 DEF Storage!Ordinary, Storage!DaemonLocks
      <4>2. QED
        BY <3>2, <3>3, <3>8, <4>1
           DEF DaemonHeld, DaemonBefore, DaemonAfter, DaemonMoves, StorageOwns
    <3>11. QED
      BY <3>6, <3>7, <3>9, <3>10, DaemonKept
  <2>4. QED
    BY <1>4, <2>2, <2>3 DEF Storage!DaemonLocks
<1>5. ASSUME Storage!ApplyNothing(d) PROVE StorageInv'
  <2>1. proc[d].at = "locked"
    BY <1>5 DEF Storage!ApplyNothing
  <2>2. CASE Storage!To(d, "failing")
    <3>1. "failing" \in Storage!Steps
      BY DEF Storage!Steps
    <3>2. /\ proc' \in [Storage!Processes -> StorageProcs] /\ proc'[d].at = "failing"
          /\ proc'[d].seen = proc[d].seen /\ proc'[d].mem = proc[d].mem
          /\ \A q \in Storage!Processes \ {d} : proc'[q] = proc[q]
      BY <1>1, <1>2, <2>2, <3>1, ProcTo
    <3>3. StorageTyped' /\ Storage!DataIsFound' /\ StorageQuiet(d)
      BY <1>2, <1>5, <3>2, FoundStill
         DEF Storage!ApplyNothing, StorageTyped, Storage!StorageTypeOK, StorageProcs,
            StorageQuiet
    <3>4. DaemonKnows(d)' /\ (Storage!Ordinary' => DaemonHeld(d)')
      BY <1>1, <1>5, <2>1, <3>2 DEF Storage!ApplyNothing, DaemonKnows, DaemonHeld, DaemonBefore,
         DaemonAfter, DaemonMoves, StorageOwns, Storage!Ordinary
    <3>5. QED
      BY <3>3, <3>4, DaemonKept
  <2>3. CASE Storage!Runs(d, proc[d].seen)
    <3>1. "running" \in Storage!Steps /\ proc[d].seen \in Storage!Records
      BY <1>1, ProcessFacts DEF Storage!Steps
    <3>2. /\ proc' \in [Storage!Processes -> StorageProcs] /\ proc'[d].at = "running"
          /\ proc'[d].mem = proc[d].seen
          /\ \A q \in Storage!Processes \ {d} : proc'[q] = proc[q]
      BY <1>1, <1>2, <2>3, <3>1, ProcRuns
    <3>3. StorageTyped' /\ Storage!DataIsFound' /\ StorageQuiet(d)
      BY <1>2, <1>5, <3>2, FoundStill
         DEF Storage!ApplyNothing, StorageTyped, Storage!StorageTypeOK, StorageProcs,
            StorageQuiet
    <3>4. DaemonKnows(d)' /\ (Storage!Ordinary' => DaemonHeld(d)')
      BY <1>1, <1>5, <2>1, <3>2 DEF Storage!ApplyNothing, DaemonKnows, DaemonHeld, DaemonBefore,
         DaemonAfter, DaemonMoves, StorageOwns, Storage!Ordinary
    <3>5. QED
      BY <3>3, <3>4, DaemonKept
  <2>4. QED
    BY <1>5, <2>2, <2>3 DEF Storage!ApplyNothing
<1>6. QED
  BY <1>3, <1>4, <1>5

\* A daemon goes to another step and nothing else changes but its place in the move.
LEMMA DaemonGoes ==
    ASSUME StorageInv, NEW d \in Daemons, NEW label \in {"failing", "rollback"}, Storage!To(d,
           label),
           proc[d].at \in DaemonMoves \cup {"locked"},
              label = "rollback" => proc[d].at # "locked",
           UNCHANGED <<config, content, lockFile, lock, boundary, saves, kills, purged,
              outdated>>
    PROVE  StorageInv'
<1>1. /\ d \in Storage!Processes /\ DaemonKnows(d) /\ (Storage!Ordinary => DaemonHeld(d))
  BY DaemonFacts
<1>2. proc \in [Storage!Processes -> StorageProcs] /\ Storage!StorageTypeOK
      /\ Storage!DataIsFound
  BY DEF StorageInv, StorageTyped
<1>3. label \in Storage!Steps
  BY DEF Storage!Steps
<1>4. /\ proc' \in [Storage!Processes -> StorageProcs] /\ proc'[d].at = label
      /\ proc'[d].seen = proc[d].seen /\ proc'[d].mem = proc[d].mem
      /\ proc'[d].done = proc[d].done
      /\ \A q \in Storage!Processes \ {d} : proc'[q] = proc[q]
  BY <1>1, <1>2, <1>3, ProcTo
<1>5. StorageTyped' /\ Storage!DataIsFound' /\ StorageQuiet(d)
  BY <1>2, <1>4, FoundStill DEF StorageTyped, Storage!StorageTypeOK, StorageProcs, StorageQuiet
<1>6. DaemonKnows(d)' /\ (Storage!Ordinary' => DaemonHeld(d)')
  BY <1>1, <1>4 DEF DaemonKnows, DaemonHeld, DaemonBefore, DaemonAfter, DaemonMoves,
     StorageOwns, Storage!Ordinary
<1>7. QED
  BY <1>5, <1>6, DaemonKept

\* The copies that are staged are complete, since the data are (locations.go:378-421).
LEMMA StorageStages ==
    ASSUME StorageInv, NEW d \in Daemons, Storage!StageCopies(d)
    PROVE  StorageInv'
<1>1. /\ d \in Storage!Processes /\ DaemonKnows(d) /\ (Storage!Ordinary => DaemonHeld(d))
  BY DaemonFacts
<1>2. proc \in [Storage!Processes -> StorageProcs] /\ Storage!StorageTypeOK
      /\ Storage!DataIsFound
  BY DEF StorageInv, StorageTyped
<1> DEFINE read == proc[d].seen
           moves == Storage!Moves(read.cur, read.move)
           copies == [i \in DOMAIN moves |-> content[moves[i].source]]
<1>3. /\ read.cur \in Storage!Locations /\ read.move \in Storage!Locations
      /\ read.cur.root \in Storage!Places /\ read.cur.data \in Storage!Places
      /\ proc[d] \in StorageProcs /\ proc[d].done = 0 /\ proc[d].at = "locked"
  BY <1>1, ProcessFacts DEF Storage!StageCopies, DaemonKnows, Storage!Places
<1>4. /\ Len(moves) \in 0..2 /\ DOMAIN moves = 1..Len(moves)
      /\ \A i \in 1..Len(moves) : moves[i].source \in {read.cur.root, read.cur.data}
  <2>1. Len(moves) \in 0..2 /\ DOMAIN moves = 1..Len(moves)
    BY <1>3, MovesAre
  <2>2. \A i \in 1..Len(moves) : moves[i].source \in {read.cur.root, read.cur.data}
    BY <1>3, MovesApart
  <2>3. QED
    BY <2>1, <2>2
<1>5. copies \in Seq(StorageContents) /\ Len(copies) = Len(moves)
      /\ \A i \in 1..Len(moves) : copies[i] = content[moves[i].source]
  <2>1. \A i \in 1..Len(moves) : content[moves[i].source] \in StorageContents
    BY <1>2, <1>3, <1>4 DEF Storage!StorageTypeOK, StorageContents
  <2> HIDE DEF moves, read
  <2>2. QED
    BY <1>4, <2>1
<1>6. CASE Storage!To(d, "failing")
  BY <1>3, <1>6, DaemonGoes DEF Storage!StageCopies
<1>7. CASE proc' = [proc EXCEPT ![d].at = "staged", ![d].stage = copies]
  <2>1. /\ proc' \in [Storage!Processes -> StorageProcs] /\ proc'[d].at = "staged"
        /\ proc'[d].seen = read /\ proc'[d].mem = proc[d].mem
        /\ proc'[d].done = proc[d].done /\ proc'[d].stage = copies
        /\ \A q \in Storage!Processes \ {d} : proc'[q] = proc[q]
    <3> DEFINE r == [proc[d] EXCEPT !.at = "staged", !.stage = copies]
    <3> HIDE DEF copies
    <3>1. proc' = [proc EXCEPT ![d] = r]
      BY <1>7
    <3>2. /\ r \in StorageProcs /\ r.at = "staged" /\ r.seen = read /\ r.mem = proc[d].mem
          /\ r.done = proc[d].done /\ r.stage = copies
      BY <1>3, <1>5 DEF StorageProcs, Storage!Steps
    <3> HIDE DEF r, read
    <3>3. QED
      BY <1>1, <1>2, <3>1, <3>2, ProcSet
  <2>2. StorageTyped' /\ Storage!DataIsFound' /\ StorageQuiet(d)
    BY <1>2, <2>1, FoundStill
       DEF Storage!StageCopies, StorageTyped, Storage!StorageTypeOK, StorageProcs, StorageQuiet
  <2> HIDE DEF copies
  <2>3. DaemonKnows(d)'
    BY <1>3, <1>4, <1>5, <2>1 DEF DaemonKnows, DaemonBefore, DaemonAfter, DaemonMoves
  <2>4. ASSUME Storage!Ordinary' PROVE DaemonHeld(d)'
    <3>1. /\ Storage!Ordinary /\ StorageOwns(d) /\ read.cur = config.cur /\ proc[d].mem = read
          /\ content[read.cur.root] = "full" /\ content[read.cur.data] = "full"
      BY <1>1, <1>2, <1>3, <2>4
         DEF Storage!StageCopies, Storage!Ordinary, DaemonHeld, DaemonBefore,
            Storage!DataIsFound
    <3>2. \A i \in 1..Len(copies) : copies[i] = "full"
      BY <1>4, <1>5, <3>1
    <3>3. config' = config /\ lock' = lock
      BY DEF Storage!StageCopies
    <3>4. QED
      BY <1>3, <2>1, <3>1, <3>2, <3>3
         DEF DaemonHeld, DaemonBefore, DaemonAfter, DaemonMoves, StorageOwns
  <2>5. QED
    BY <2>2, <2>3, <2>4, DaemonKept
<1>8. QED
  BY <1>6, <1>7 DEF Storage!StageCopies

\* A staged copy is published (locations.go:422-436).
LEMMA StoragePublishes ==
    ASSUME StorageInv, NEW d \in Daemons, Storage!Publish(d)
    PROVE  StorageInv'
<1>1. /\ d \in Storage!Processes /\ DaemonKnows(d) /\ (Storage!Ordinary => DaemonHeld(d))
  BY DaemonFacts
<1>2. proc \in [Storage!Processes -> StorageProcs] /\ Storage!StorageTypeOK
      /\ Storage!DataIsFound
  BY DEF StorageInv, StorageTyped
<1> DEFINE read == proc[d].seen
           moves == Storage!Moves(read.cur, read.move)
           k == proc[d].done + 1
<1>3. /\ proc[d].at \in {"staged", "publishing"} /\ k <= Len(moves)
      /\ read.cur \in Storage!Locations /\ read.move \in Storage!Locations
      /\ proc[d] \in StorageProcs /\ proc[d].done \in 0..2 /\ Len(proc[d].stage) = Len(moves)
      /\ proc[d].stage \in Seq(StorageContents)
  BY <1>1, ProcessFacts DEF Storage!Publish, DaemonKnows, DaemonMoves
<1>4. /\ Len(moves) \in 0..2 /\ k \in 1..Len(moves)
      /\ moves[k].target \in Storage!Places
      /\ \A i \in 1..Len(moves) : moves[i].target \notin {read.cur.root, read.cur.data}
  <2>1. Len(moves) \in 0..2
    BY <1>3, MovesAre
  <2>2. k \in 1..Len(moves)
    BY <1>3, <2>1
  <2>3. \A i \in 1..Len(moves) : /\ moves[i].target \notin {read.cur.root, read.cur.data}
                                 /\ moves[i].target \in {read.move.root, read.move.data}
    BY <1>3, MovesApart
  <2>4. read.move.root \in Storage!Places /\ read.move.data \in Storage!Places
    BY <1>3 DEF Storage!Locations, Storage!Places
  <2>5. QED
    BY <2>1, <2>2, <2>3, <2>4
<1>5. CASE Storage!To(d, "rollback") /\ UNCHANGED content
  BY <1>3, <1>5, DaemonGoes DEF Storage!Publish, DaemonMoves
<1>6. CASE /\ content' = [content EXCEPT ![moves[k].target] = proc[d].stage[k]]
           /\ proc' = [proc EXCEPT ![d].at = "publishing", ![d].done = k]
  <2>1. /\ proc' \in [Storage!Processes -> StorageProcs] /\ proc'[d].at = "publishing"
        /\ proc'[d].seen = read /\ proc'[d].mem = proc[d].mem
        /\ proc'[d].done = k /\ proc'[d].stage = proc[d].stage
        /\ \A q \in Storage!Processes \ {d} : proc'[q] = proc[q]
    <3> DEFINE r == [proc[d] EXCEPT !.at = "publishing", !.done = k]
    <3>1. proc' = [proc EXCEPT ![d] = r]
      BY <1>6
    <3>4. k \in 0..2
      BY <1>4
    <3> HIDE DEF k
    <3>2. /\ r \in StorageProcs /\ r.at = "publishing" /\ r.seen = read /\ r.mem = proc[d].mem
          /\ r.done = k /\ r.stage = proc[d].stage
      BY <1>3, <3>4 DEF StorageProcs, Storage!Steps
    <3> HIDE DEF r, read
    <3>3. QED
      BY <1>1, <1>2, <3>1, <3>2, ProcSet
  <2>2. proc[d].stage[k] \in StorageContents
    BY <1>3, <1>4
  <2>3. /\ content \in [Storage!Places -> StorageContents]
           /\ content' \in [Storage!Places -> StorageContents]
        /\ content'[moves[k].target] = proc[d].stage[k]
        /\ \A p \in Storage!Places : p # moves[k].target => content'[p] = content[p]
    <3>1. content \in [Storage!Places -> StorageContents]
      BY <1>2 DEF Storage!StorageTypeOK, StorageContents
    <3> HIDE DEF moves, k
    <3>2. QED
      BY <1>4, <1>6, <2>2, <3>1
  <2>4. StorageTyped'
    BY <1>2, <2>1, <2>3
       DEF Storage!Publish, StorageTyped, Storage!StorageTypeOK, StorageProcs, StorageContents
  <2>5. DaemonKnows(d)'
    BY <1>3, <2>1 DEF DaemonKnows, DaemonBefore, DaemonAfter, DaemonMoves
  <2>6. Storage!Ordinary' => /\ Storage!Ordinary /\ StorageOwns(d) /\ DaemonHeld(d)
        /\ proc[d].seen.cur = config.cur
    BY <1>1, <1>3 DEF Storage!Publish, Storage!Ordinary, DaemonHeld, DaemonBefore, DaemonMoves
  <2>7. StorageQuiet(d)
    BY <2>1, <2>6 DEF Storage!Publish, StorageQuiet
  <2>8. Storage!DataIsFound'
    <3>1. SUFFICES ASSUME Storage!Ordinary' PROVE (content[config.cur.root] = "full"
                          /\ content[config.cur.data] = "full")'
      BY DEF Storage!DataIsFound
    <3>2. config' = config /\ config.cur = read.cur
      BY <2>6, <3>1 DEF Storage!Publish
    <3>3. read.cur.root \in Storage!Places /\ read.cur.data \in Storage!Places
      BY <1>3 DEF Storage!Locations, Storage!Places
    <3>4. QED
      BY <1>2, <1>4, <2>3, <2>6, <3>1, <3>2, <3>3 DEF Storage!DataIsFound
  <2>9. ASSUME Storage!Ordinary' PROVE DaemonHeld(d)'
    <3>1. /\ StorageOwns(d) /\ read.cur = config.cur /\ proc[d].mem = read
          /\ \A i \in 1..Len(moves) : proc[d].stage[i] = "full"
          /\ \A i \in 1..proc[d].done : content[moves[i].target] = "full"
      BY <1>3, <2>6, <2>9 DEF DaemonHeld, DaemonBefore, DaemonMoves
    <3>2. config' = config /\ lock' = lock
      BY DEF Storage!Publish
    <3>3. \A i \in 1..k : content'[moves[i].target] = "full"
      <4>1. SUFFICES ASSUME NEW i \in 1..k PROVE content'[moves[i].target] = "full"
        OBVIOUS
      <4>2. i \in 1..Len(moves) /\ moves[i].target \in Storage!Places
        <5>1. i \in 1..Len(moves)
          BY <1>4
        <5>2. moves[i].target \in {read.move.root, read.move.data}
          BY <1>3, <5>1, MovesApart
        <5>3. QED
          BY <1>3, <5>1, <5>2 DEF Storage!Locations, Storage!Places
      <4>3. CASE moves[i].target = moves[k].target
        BY <1>4, <2>3, <3>1, <4>3
      <4>4. CASE moves[i].target # moves[k].target
        <5>1. i \in 1..proc[d].done
          BY <1>3, <4>4
        <5>2. QED
          BY <2>3, <3>1, <4>2, <4>4, <5>1
      <4>5. QED
        BY <4>3, <4>4
    <3>4. QED
      BY <1>3, <2>1, <3>1, <3>2, <3>3
         DEF DaemonHeld, DaemonBefore, DaemonAfter, DaemonMoves, StorageOwns
  <2>10. QED
    BY <2>4, <2>5, <2>7, <2>8, <2>9, DaemonKept
<1>7. QED
  BY <1>5, <1>6 DEF Storage!Publish

\* The destination is locked before the record names it (daemon.go:80-86).
LEMMA StorageLocksNext ==
    ASSUME StorageInv, NEW d \in Daemons, Storage!LockNext(d)
    PROVE  StorageInv'
<1>1. /\ d \in Storage!Processes /\ DaemonKnows(d) /\ (Storage!Ordinary => DaemonHeld(d))
  BY DaemonFacts
<1>2. proc \in [Storage!Processes -> StorageProcs] /\ Storage!StorageTypeOK
      /\ Storage!DataIsFound
  BY DEF StorageInv, StorageTyped
<1> DEFINE read == proc[d].seen
           root == read.move.root
<1>3. /\ proc[d].at \in {"staged",
         "publishing"} /\ read.move \in Storage!Locations /\ root \in Roots
      /\ proc[d].done = Len(Storage!Moves(read.cur, read.move))
  BY <1>1 DEF Storage!LockNext, DaemonKnows, DaemonMoves, Storage!Locations
<1>4. CASE Storage!To(d, "rollback") /\ UNCHANGED <<lock, lockFile>>
  BY <1>3, <1>4, DaemonGoes DEF Storage!LockNext, DaemonMoves
<1>5. CASE /\ Storage!To(d, "committing")
           /\ (root = read.cur.root /\ UNCHANGED <<lock, lockFile>>) \/ Storage!AcquireLock(d,
              root)
  <2>1. "committing" \in Storage!Steps
    BY DEF Storage!Steps
  <2>2. /\ proc' \in [Storage!Processes -> StorageProcs] /\ proc'[d].at = "committing"
        /\ proc'[d].seen = read /\ proc'[d].mem = proc[d].mem
        /\ proc'[d].done = proc[d].done
        /\ \A q \in Storage!Processes \ {d} : proc'[q] = proc[q]
    BY <1>1, <1>2, <1>5, <2>1, ProcTo
  <2>3. /\ lock' \in [Roots -> Storage!Processes \cup {Storage!Free}]
           /\ lockFile' \in [Roots -> BOOLEAN]
        /\ \A q \in Storage!Processes : \A s \in Roots : lock[s] = q => lock'[s] = q
        /\ root = read.cur.root \/ lock'[root] = d
    BY <1>1, <1>2, <1>3, <1>5, LockTaken DEF Storage!StorageTypeOK
  <2>4. StorageTyped'
    BY <1>2, <2>2, <2>3 DEF Storage!LockNext, StorageTyped, Storage!StorageTypeOK, StorageProcs
  <2>5. Storage!DataIsFound' /\ StorageQuiet(d)
    BY <1>2, <2>2, <2>3, FoundStill DEF Storage!LockNext, StorageQuiet
  <2>6. DaemonKnows(d)'
    BY <1>1, <1>3, <2>2 DEF DaemonKnows, DaemonBefore, DaemonAfter, DaemonMoves
  <2>7. ASSUME Storage!Ordinary' PROVE DaemonHeld(d)'
    <3>1. /\ StorageOwns(d) /\ read.cur = config.cur /\ proc[d].mem = read
          /\ \A i \in 1..proc[d].done : content[Storage!Moves(read.cur,
             read.move)[i].target] = "full"
      BY <1>1, <1>3, <2>7 DEF Storage!LockNext, Storage!Ordinary, DaemonHeld, DaemonBefore,
         DaemonMoves
    <3>2. config' = config /\ content' = content /\ config.cur.root \in Roots
      BY <1>1, ProcessFacts DEF Storage!LockNext
    <3>3. lock'[config.cur.root] = d /\ lock'[root] = d
      BY <1>1, <2>3, <3>1, <3>2 DEF StorageOwns
    <3>4. QED
      BY <1>3, <2>2, <3>1, <3>2, <3>3
         DEF DaemonHeld, DaemonBefore, DaemonAfter, DaemonMoves, StorageOwns
  <2>8. QED
    BY <2>4, <2>5, <2>6, <2>7, DaemonKept
<1>6. QED
  BY <1>4, <1>5 DEF Storage!LockNext

\* The record names the destination when every copy is in place (locations.go:437-447).
LEMMA StorageCommits ==
    ASSUME StorageInv, NEW d \in Daemons, Storage!Commit(d)
    PROVE  StorageInv'
<1>1. /\ d \in Storage!Processes /\ DaemonKnows(d) /\ (Storage!Ordinary => DaemonHeld(d))
  BY DaemonFacts
<1>2. proc \in [Storage!Processes -> StorageProcs] /\ Storage!StorageTypeOK
      /\ Storage!DataIsFound
  BY DEF StorageInv, StorageTyped
<1> DEFINE read == proc[d].seen
           moves == Storage!Moves(read.cur, read.move)
           record == [cur |-> read.move, move |-> Storage!NoMove]
<1>3. /\ proc[d].at = "committing" /\ read.cur \in Storage!Locations
         /\ read.move \in Storage!Locations
      /\ proc[d] \in StorageProcs
      /\ record \in Storage!Records /\ record.cur = read.move
  BY <1>1, ProcessFacts DEF Storage!Commit, DaemonKnows, DaemonMoves, Storage!Records
<1>4. CASE Storage!To(d, "rollback") /\ UNCHANGED config
  BY <1>3, <1>4, DaemonGoes DEF Storage!Commit, DaemonMoves
<1>5. CASE /\ config' = record
           /\ proc' = [proc EXCEPT ![d].at = "removing", ![d].mem = config']
  <2>1. /\ proc' \in [Storage!Processes -> StorageProcs] /\ proc'[d].at = "removing"
        /\ proc'[d].seen = read /\ proc'[d].mem = record /\ proc'[d].done = proc[d].done
        /\ \A q \in Storage!Processes \ {d} : proc'[q] = proc[q]
    <3> DEFINE r == [proc[d] EXCEPT !.at = "removing", !.mem = record]
    <3> HIDE DEF record
    <3>1. proc' = [proc EXCEPT ![d] = r]
      BY <1>5
    <3>2. /\ r \in StorageProcs /\ r.at = "removing" /\ r.seen = read /\ r.mem = record
          /\ r.done = proc[d].done
      BY <1>3 DEF StorageProcs, Storage!Steps
    <3> HIDE DEF r, read
    <3>3. QED
      BY <1>1, <1>2, <3>1, <3>2, ProcSet
  <2> HIDE DEF record
  <2>2. StorageTyped'
    BY <1>2, <1>3, <1>5, <2>1
       DEF Storage!Commit, StorageTyped, Storage!StorageTypeOK, StorageProcs
  <2>3. DaemonKnows(d)'
    BY <1>1, <1>3, <2>1 DEF DaemonKnows, DaemonBefore, DaemonAfter, DaemonMoves
  <2>4. Storage!Ordinary' => /\ Storage!Ordinary /\ StorageOwns(d) /\ read.cur = config.cur
                     /\ lock[read.move.root] = d /\ proc[d].done = Len(moves)
                     /\ \A i \in 1..Len(moves) : content[moves[i].target] = "full"
    BY <1>1, <1>3 DEF Storage!Commit, Storage!Ordinary, DaemonHeld, DaemonBefore, DaemonMoves
  <2>5. StorageQuiet(d)
    BY <2>1, <2>4 DEF Storage!Commit, StorageQuiet
  <2>6. Storage!DataIsFound'
    <3>1. SUFFICES ASSUME Storage!Ordinary'
                   PROVE (content[config.cur.root] = "full"
                          /\ content[config.cur.data] = "full")'
      BY DEF Storage!DataIsFound
    <3>2. content[read.cur.root] = "full" /\ content[read.cur.data] = "full"
      BY <1>2, <2>4, <3>1 DEF Storage!DataIsFound
    <3>3. content[read.move.root] = "full"
      <4>1. read.cur.root # read.move.root =>
               \E i \in 1..Len(moves) : moves[i].target = read.move.root
        BY <1>3, MovesAre, ZenonT(60)
      <4> HIDE DEF moves
      <4>2. QED
        BY <2>4, <3>1, <3>2, <4>1
    <3>4. content[read.move.data] = "full"
      <4>1. read.cur.data # read.move.data =>
               \E i \in 1..Len(moves) : moves[i].target = read.move.data
        BY <1>3, MovesAre
      <4> HIDE DEF moves
      <4>2. QED
        BY <2>4, <3>1, <3>2, <4>1
    <3>5. content' = content /\ config'.cur = read.move
      BY <1>3, <1>5 DEF Storage!Commit
    <3>6. QED
      BY <3>3, <3>4, <3>5
  <2>7. Storage!Ordinary' => DaemonHeld(d)'
    <3>1. config'.cur = read.move /\ lock' = lock /\ record.cur = read.move
      BY <1>3, <1>5 DEF Storage!Commit
    <3>2. QED
      BY <2>1, <2>4, <3>1
         DEF DaemonHeld, DaemonBefore, DaemonAfter, DaemonMoves, StorageOwns
  <2>8. QED
    BY <2>2, <2>3, <2>5, <2>6, <2>7, DaemonKept
<1>6. QED
  BY <1>4, <1>5 DEF Storage!Commit

\* What is removed afterwards is never what the record names (locations.go:448-474).
LEMMA StorageRemoves ==
    ASSUME StorageInv, NEW d \in Daemons, Storage!RemoveOld(d)
    PROVE  StorageInv'
<1>1. /\ d \in Storage!Processes /\ DaemonKnows(d) /\ (Storage!Ordinary => DaemonHeld(d))
  BY DaemonFacts
<1>2. proc \in [Storage!Processes -> StorageProcs] /\ Storage!StorageTypeOK
      /\ Storage!DataIsFound
  BY DEF StorageInv, StorageTyped
<1> DEFINE read == proc[d].seen
           moves == Storage!Moves(read.cur, read.move)
           k == proc[d].done
<1>3. /\ proc[d].at = "removing" /\ read.cur \in Storage!Locations
         /\ read.move \in Storage!Locations
      /\ proc[d] \in StorageProcs /\ k \in 0..2 /\ k <= Len(moves)
         /\ proc[d].mem \in Storage!Records
  BY <1>1, ProcessFacts DEF Storage!RemoveOld, DaemonKnows
<1>4. Storage!Ordinary => /\ StorageOwns(d) /\ proc[d].mem.cur = config.cur
                  /\ lock[read.cur.root] = d /\ proc[d].mem.cur = read.move
  BY <1>1, <1>3 DEF DaemonHeld, DaemonAfter
<1>5. Storage!Ordinary' => Storage!Ordinary
  BY DEF Storage!RemoveOld, Storage!Ordinary
<1>6. CASE /\ k > 0
           /\ \E left \in {"none", "part"} :
                 content' = [content EXCEPT ![moves[k].source] =
                                IF @ = "none" THEN "none" ELSE left]
           /\ proc' = [proc EXCEPT ![d].done = k - 1]
  <2>1. /\ proc' \in [Storage!Processes -> StorageProcs] /\ proc'[d].at = "removing"
        /\ proc'[d].seen = read /\ proc'[d].mem = proc[d].mem /\ proc'[d].done = k - 1
        /\ \A q \in Storage!Processes \ {d} : proc'[q] = proc[q]
    <3> DEFINE r == [proc[d] EXCEPT !.done = k - 1]
    <3>1. proc' = [proc EXCEPT ![d] = r]
      BY <1>6
    <3>2. k - 1 \in 0..2
      BY <1>3, <1>6
    <3>3. /\ r \in StorageProcs /\ r.at = "removing" /\ r.seen = read /\ r.mem = proc[d].mem
          /\ r.done = k - 1
      BY <1>3, <3>2 DEF StorageProcs
    <3> HIDE DEF r, read
    <3>4. QED
      BY <1>1, <1>2, <3>1, <3>3, ProcSet
  <2>2. k \in 1..Len(moves) /\ Len(moves) \in 0..2
    <3>1. Len(moves) \in 0..2
      BY <1>3, MovesAre
    <3>2. QED
      BY <1>3, <1>6, <3>1
  <2>3. /\ moves[k].source \in {read.cur.root, read.cur.data}
        /\ moves[k].source \notin {read.move.root, read.move.data}
    BY <1>3, <2>2, MovesApart
  <2>4. /\ read.cur.root \in Storage!Places /\ read.cur.data \in Storage!Places
        /\ read.move.root \in Storage!Places /\ read.move.data \in Storage!Places
    BY <1>3 DEF Storage!Locations, Storage!Places
  <2>5. /\ content' \in [Storage!Places -> StorageContents]
        /\ \A p \in Storage!Places : p # moves[k].source => content'[p] = content[p]
    <3>1. content \in [Storage!Places -> StorageContents]
      BY <1>2 DEF Storage!StorageTypeOK, StorageContents
    <3>2. PICK left \in {"none", "part"} :
              content' = [content EXCEPT ![moves[k].source] = IF @ = "none" THEN "none" ELSE left]
      BY <1>6
    <3> HIDE DEF moves, k
    <3>3. QED
      BY <2>3, <2>4, <3>1, <3>2 DEF StorageContents
  <2>6. StorageTyped'
    BY <1>2, <2>1, <2>5 DEF Storage!RemoveOld, StorageTyped, Storage!StorageTypeOK,
       StorageProcs, StorageContents
  <2>7. DaemonKnows(d)'
    BY <1>3, <2>1, <2>2 DEF DaemonKnows, DaemonBefore, DaemonAfter, DaemonMoves
  <2>8. StorageQuiet(d)
    BY <1>4, <1>5, <2>1 DEF Storage!RemoveOld, StorageQuiet
  <2>9. Storage!DataIsFound'
    <3>1. SUFFICES ASSUME Storage!Ordinary'
                   PROVE (content[config.cur.root] = "full"
                          /\ content[config.cur.data] = "full")'
      BY DEF Storage!DataIsFound
    <3>2. config' = config /\ config.cur = read.move
      BY <1>4, <1>5, <3>1 DEF Storage!RemoveOld
    <3>3. QED
      BY <1>2, <1>5, <2>3, <2>4, <2>5, <3>1, <3>2 DEF Storage!DataIsFound
  <2>10. Storage!Ordinary' => DaemonHeld(d)'
    <3>1. config' = config /\ lock' = lock
      BY DEF Storage!RemoveOld
    <3>2. QED
      BY <1>4, <1>5, <2>1, <3>1
         DEF DaemonHeld, DaemonBefore, DaemonAfter, DaemonMoves, StorageOwns
  <2>11. QED
    BY <2>6, <2>7, <2>8, <2>9, <2>10, DaemonKept
<1>7. CASE UNCHANGED content /\ read.move.root # read.cur.root /\ Storage!To(d, "releasing")
  <2>1. "releasing" \in Storage!Steps
    BY DEF Storage!Steps
  <2>2. /\ proc' \in [Storage!Processes -> StorageProcs] /\ proc'[d].at = "releasing"
        /\ proc'[d].seen = read /\ proc'[d].mem = proc[d].mem
        /\ \A q \in Storage!Processes \ {d} : proc'[q] = proc[q]
    BY <1>1, <1>2, <1>7, <2>1, ProcTo
  <2>3. StorageTyped' /\ Storage!DataIsFound' /\ StorageQuiet(d)
    BY <1>2, <1>7, <2>2, FoundStill
       DEF Storage!RemoveOld, StorageTyped, Storage!StorageTypeOK, StorageProcs, StorageQuiet
  <2>4. DaemonKnows(d)' /\ (Storage!Ordinary' => DaemonHeld(d)')
    <3>1. config' = config /\ lock' = lock
      BY DEF Storage!RemoveOld
    <3>2. QED
      BY <1>4, <1>5, <1>7, <2>2, <3>1 DEF DaemonKnows, DaemonHeld, DaemonBefore, DaemonAfter,
         DaemonMoves, StorageOwns
  <2>5. QED
    BY <2>3, <2>4, DaemonKept
<1>8. CASE UNCHANGED content /\ Storage!Runs(d, proc[d].mem)
  <2>1. /\ proc' \in [Storage!Processes -> StorageProcs] /\ proc'[d].at = "running"
        /\ proc'[d].mem = proc[d].mem
        /\ \A q \in Storage!Processes \ {d} : proc'[q] = proc[q]
    BY <1>1, <1>2, <1>3, <1>8, ProcRuns
  <2>2. StorageTyped' /\ Storage!DataIsFound' /\ StorageQuiet(d)
    BY <1>2, <1>8, <2>1, FoundStill
       DEF Storage!RemoveOld, StorageTyped, Storage!StorageTypeOK, StorageProcs, StorageQuiet
  <2>3. DaemonKnows(d)' /\ (Storage!Ordinary' => DaemonHeld(d)')
    <3>1. config' = config /\ lock' = lock
      BY DEF Storage!RemoveOld
    <3>2. QED
      BY <1>4, <1>5, <2>1, <3>1 DEF DaemonKnows, DaemonHeld, DaemonBefore, DaemonAfter,
         DaemonMoves, StorageOwns
  <2>4. QED
    BY <2>2, <2>3, DaemonKept
<1>9. QED
  BY <1>6, <1>7, <1>8 DEF Storage!RemoveOld

\* After a purge, or a daemon that began on an outdated record, nothing is promised.
LEMMA StorageLate ==
    ASSUME StorageInv, StorageTyped', ~Storage!Ordinary', NEW p \in Storage!Processes,
           \A q \in Storage!Processes \ {p} : proc'[q] = proc[q], purged => purged',
           p \in Daemons => DaemonKnows(p)',
           p \in Clis => CliKnows(p)',
           p \in Purges => PurgeKnows(p)'
    PROVE  StorageInv'
<1>1. /\ \A q \in Daemons : DaemonKnows(q)'
      /\ \A q \in Clis : CliKnows(q)'
      /\ \A q \in Purges : PurgeKnows(q)'
  BY DEF StorageInv, StorageKinds, DaemonKnows, CliKnows, PurgeKnows, Storage!Processes
<1>2. QED
  BY <1>1 DEF StorageInv, StorageKinds, StorageHeld, Storage!DataIsFound

\* The old root is given up, and tidied (daemon.go:95-108).
LEMMA StorageReleases ==
    ASSUME StorageInv, NEW d \in Daemons
    PROVE  /\ Storage!ReleasePrevious(d) => StorageInv'
           /\ Storage!TidyPrevious(d) => StorageInv'
<1>1. /\ d \in Storage!Processes /\ DaemonKnows(d) /\ (Storage!Ordinary => DaemonHeld(d))
  BY DaemonFacts
<1>2. proc \in [Storage!Processes -> StorageProcs] /\ Storage!StorageTypeOK
      /\ Storage!DataIsFound
  BY DEF StorageInv, StorageTyped
<1>3. /\ proc[d].seen.cur.root \in Roots /\ proc[d].mem \in Storage!Records
      /\ config.cur.root \in Roots
  BY <1>1, ProcessFacts
<1>4. ASSUME Storage!ReleasePrevious(d) PROVE StorageInv'
  <2> DEFINE old == proc[d].seen.cur.root
  <2>1. "tidying" \in Storage!Steps /\ proc[d].at = "releasing"
    BY <1>4 DEF Storage!Steps, Storage!ReleasePrevious
  <2>2. /\ proc' \in [Storage!Processes -> StorageProcs] /\ proc'[d].at = "tidying"
        /\ proc'[d].mem = proc[d].mem
        /\ \A q \in Storage!Processes \ {d} : proc'[q] = proc[q]
    BY <1>1, <1>2, <1>4, <2>1, ProcTo DEF Storage!ReleasePrevious
  <2>3. /\ lock' \in [Roots -> Storage!Processes \cup {Storage!Free}]
        /\ \A r \in Roots : r # old => lock'[r] = lock[r]
    BY <1>2, <1>3, <1>4 DEF Storage!ReleasePrevious, Storage!StorageTypeOK
  <2>4. StorageTyped' /\ Storage!DataIsFound'
    BY <1>2, <1>4, <2>2, <2>3, FoundStill
       DEF Storage!ReleasePrevious, StorageTyped, Storage!StorageTypeOK, StorageProcs
  <2>5. CASE Storage!Ordinary
    <3>1. /\ lock[old] = d /\ StorageOwns(d) /\ proc[d].mem.cur = config.cur
          /\ config.cur.root # old
      BY <1>1, <2>1, <2>5 DEF DaemonHeld, DaemonAfter
    <3>2. StorageQuiet(d)
      BY <1>4, <2>2, <2>3, <3>1 DEF Storage!ReleasePrevious, StorageQuiet
    <3>3. DaemonKnows(d)' /\ DaemonHeld(d)'
      BY <1>3, <1>4, <2>2, <2>3, <3>1 DEF Storage!ReleasePrevious, DaemonKnows, DaemonHeld,
         DaemonBefore, DaemonAfter, DaemonMoves, StorageOwns
    <3>4. QED
      BY <2>4, <3>2, <3>3, DaemonKept
  <2>6. CASE ~Storage!Ordinary
    <3>1. ~Storage!Ordinary'
      BY <1>4, <2>6 DEF Storage!ReleasePrevious, Storage!Ordinary
    <3>2. DaemonKnows(d)'
      BY <2>2 DEF DaemonKnows, DaemonBefore, DaemonAfter, DaemonMoves
    <3>3. QED
      <4>1. d \notin Clis /\ d \notin Purges /\ (purged => purged')
        BY <1>4, StorageAssumption DEF Storage!ReleasePrevious
      <4>2. QED
        BY <1>1, <2>2, <2>4, <3>1, <3>2, <4>1, StorageLate
  <2>7. QED
    BY <2>5, <2>6
<1>5. ASSUME Storage!TidyPrevious(d) PROVE StorageInv'
  <2>1. /\ proc' \in [Storage!Processes -> StorageProcs] /\ proc'[d].at = "running"
        /\ proc'[d].mem = proc[d].mem
        /\ \A q \in Storage!Processes \ {d} : proc'[q] = proc[q]
    BY <1>1, <1>2, <1>3, <1>5, ProcRuns DEF Storage!TidyPrevious
  <2>2. lockFile' \in [Roots -> BOOLEAN]
    BY <1>2, <1>3, <1>5 DEF Storage!TidyPrevious, Storage!StorageTypeOK
  <2>3. StorageTyped' /\ Storage!DataIsFound' /\ StorageQuiet(d)
    BY <1>2, <1>5, <2>1, <2>2, FoundStill
       DEF Storage!TidyPrevious, StorageTyped, Storage!StorageTypeOK, StorageProcs, StorageQuiet
  <2>4. DaemonKnows(d)' /\ (Storage!Ordinary' => DaemonHeld(d)')
    <3>1. /\ config' = config /\ lock' = lock /\ proc[d].at = "tidying"
          /\ (Storage!Ordinary' => Storage!Ordinary)
      BY <1>5 DEF Storage!TidyPrevious, Storage!Ordinary
    <3>2. QED
      BY <1>1, <2>1, <3>1 DEF DaemonKnows, DaemonHeld, DaemonBefore, DaemonAfter,
         DaemonMoves, StorageOwns
  <2>5. QED
    BY <2>3, <2>4, DaemonKept
<1>6. QED
  BY <1>4, <1>5

\* A rollback removes what was published, never what the record names.
LEMMA StorageRollsBack ==
    ASSUME StorageInv, NEW d \in Daemons, Storage!Rollback(d)
    PROVE  StorageInv'
<1>1. /\ d \in Storage!Processes /\ DaemonKnows(d) /\ (Storage!Ordinary => DaemonHeld(d))
  BY DaemonFacts
<1>2. proc \in [Storage!Processes -> StorageProcs] /\ Storage!StorageTypeOK
      /\ Storage!DataIsFound
  BY DEF StorageInv, StorageTyped
<1> DEFINE read == proc[d].seen
           moves == Storage!Moves(read.cur, read.move)
           done == proc[d].done
<1>3. /\ proc[d].at = "rollback" /\ read.cur \in Storage!Locations
         /\ read.move \in Storage!Locations
      /\ proc[d] \in StorageProcs /\ done \in 0..2 /\ done <= Len(moves)
  BY <1>1, ProcessFacts DEF Storage!Rollback, DaemonKnows, DaemonMoves
<1>4. Storage!Ordinary' => /\ Storage!Ordinary /\ StorageOwns(d) /\ read.cur = config.cur
      /\ proc[d].mem = read
  BY <1>1, <1>3 DEF Storage!Rollback, Storage!Ordinary, DaemonHeld, DaemonBefore, DaemonMoves
<1>5. /\ proc' \in [Storage!Processes -> StorageProcs] /\ proc'[d].at = "failing"
      /\ proc'[d].seen = read /\ proc'[d].mem = proc[d].mem
      /\ \A q \in Storage!Processes \ {d} : proc'[q] = proc[q]
  <2> DEFINE r == [proc[d] EXCEPT !.at = "failing", !.done = 0, !.stage = <<>>]
  <2>1. proc' = [proc EXCEPT ![d] = r]
    BY DEF Storage!Rollback
  <2>2. <<>> \in Seq(StorageContents) /\ 0 \in 0..2 /\ "failing" \in Storage!Steps
    BY DEF Storage!Steps
  <2>3. /\ r \in StorageProcs /\ r.at = "failing" /\ r.seen = read /\ r.mem = proc[d].mem
    BY <1>3, <2>2 DEF StorageProcs
  <2> HIDE DEF r, read
  <2>4. QED
    BY <1>1, <1>2, <2>1, <2>3, ProcSet
<1>6. \A i \in 1..done : moves[i].target \notin {read.cur.root, read.cur.data}
  <2>1. SUFFICES ASSUME NEW i \in 1..done
                 PROVE  moves[i].target \notin {read.cur.root, read.cur.data}
    OBVIOUS
  <2>2. Len(moves) \in 0..2
    BY <1>3, MovesAre
  <2>3. i \in 1..Len(moves)
    BY <1>3, <2>2
  <2>4. QED
    BY <1>3, <2>3, MovesApart
<1>7. /\ content' \in [Storage!Places -> StorageContents]
      /\ content'[read.cur.root] = content[read.cur.root]
      /\ content'[read.cur.data] = content[read.cur.data]
  <2>1. /\ content \in [Storage!Places -> StorageContents]
        /\ read.cur.root \in Storage!Places /\ read.cur.data \in Storage!Places
    BY <1>2, <1>3 DEF Storage!StorageTypeOK, StorageContents, Storage!Locations, Storage!Places
  <2>2. content' = [p \in Storage!Places |-> IF \E i \in 1..done : moves[i].target = p
                                       THEN "none" ELSE content[p]]
    BY DEF Storage!Rollback
  <2> HIDE DEF moves, done, read
  <2>3. QED
    BY <1>6, <2>1, <2>2 DEF StorageContents
<1>8. StorageTyped'
  BY <1>2, <1>5, <1>7 DEF Storage!Rollback, StorageTyped, Storage!StorageTypeOK, StorageProcs,
     StorageContents
<1>9. Storage!DataIsFound' /\ StorageQuiet(d)
  <2>1. config' = config /\ lock' = lock /\ purged' = purged /\ outdated' = outdated
    BY DEF Storage!Rollback
  <2>2. Storage!DataIsFound'
    BY <1>2, <1>4, <1>7, <2>1 DEF Storage!DataIsFound
  <2>3. QED
    BY <1>4, <1>5, <2>1, <2>2 DEF StorageQuiet
<1>10. DaemonKnows(d)' /\ (Storage!Ordinary' => DaemonHeld(d)')
  <2>1. config' = config /\ lock' = lock
    BY DEF Storage!Rollback
  <2>2. QED
    BY <1>4, <1>5, <2>1
       DEF DaemonKnows, DaemonHeld, DaemonBefore, DaemonAfter, DaemonMoves, StorageOwns
<1>11. QED
  BY <1>8, <1>9, <1>10, DaemonKept

\* A failed move is dropped from the record, which stays where it was.
LEMMA StorageDrops ==
    ASSUME StorageInv, NEW d \in Daemons, Storage!DropMove(d)
    PROVE  StorageInv'
<1>1. /\ d \in Storage!Processes /\ DaemonKnows(d) /\ (Storage!Ordinary => DaemonHeld(d))
  BY DaemonFacts
<1>2. proc \in [Storage!Processes -> StorageProcs] /\ Storage!StorageTypeOK
      /\ Storage!DataIsFound
  BY DEF StorageInv, StorageTyped
<1> DEFINE read == proc[d].seen
           record == [cur |-> read.cur, move |-> Storage!NoMove]
<1>3. /\ proc[d].at = "failing" /\ record \in Storage!Records /\ record.cur = read.cur
      /\ proc[d].mem \in Storage!Records /\ config \in Storage!Records
         /\ config.cur.root \in Roots
  BY <1>1, ProcessFacts DEF Storage!DropMove, Storage!Records
<1>4. Storage!Ordinary' => /\ Storage!Ordinary /\ StorageOwns(d) /\ read.cur = config.cur
      /\ proc[d].mem = read
  BY <1>1, <1>3 DEF Storage!DropMove, Storage!Ordinary, DaemonHeld, DaemonBefore
<1>5. PICK kept \in Storage!Records : /\ Storage!Runs(d, kept) /\ config' \in {config, record}
                              /\ kept \in {proc[d].mem, record}
  BY <1>3 DEF Storage!DropMove
<1>6. /\ proc' \in [Storage!Processes -> StorageProcs] /\ proc'[d].at = "running"
      /\ proc'[d].mem = kept
      /\ \A q \in Storage!Processes \ {d} : proc'[q] = proc[q]
  BY <1>1, <1>2, <1>5, ProcRuns
<1>7. /\ lock' \in [Roots -> Storage!Processes \cup {Storage!Free}]
      /\ \A q \in Storage!Processes \ {d} : \A r \in Roots : lock[r] = q => lock'[r] = q
      /\ lock'[read.cur.root] = lock[read.cur.root]
  <2>1. read.cur.root \in Roots
    BY <1>1, ProcessFacts
  <2>2. QED
    BY <1>2, <2>1 DEF Storage!DropMove, Storage!StorageTypeOK
<1> HIDE DEF record
<1>8. StorageTyped'
  BY <1>2, <1>3, <1>5, <1>6, <1>7
     DEF Storage!DropMove, StorageTyped, Storage!StorageTypeOK, StorageProcs
<1>9. Storage!Ordinary' => config'.cur = config.cur /\ kept.cur = config.cur
  BY <1>3, <1>4, <1>5
<1>10. Storage!DataIsFound' /\ StorageQuiet(d)
  <2>1. content' = content /\ purged' = purged /\ outdated' = outdated
    BY DEF Storage!DropMove
  <2>2. Storage!DataIsFound'
    BY <1>2, <1>4, <1>9, <2>1 DEF Storage!DataIsFound
  <2>3. QED
    BY <1>4, <1>6, <1>7, <2>1, <2>2 DEF StorageQuiet
<1>11. DaemonKnows(d)' /\ (Storage!Ordinary' => DaemonHeld(d)')
  BY <1>4, <1>6, <1>7, <1>9
     DEF DaemonKnows, DaemonHeld, DaemonBefore, DaemonAfter, DaemonMoves, StorageOwns
<1>12. QED
  BY <1>8, <1>10, <1>11, DaemonKept

\* The running daemon saves or cancels a move, or stops.
LEMMA StorageServes ==
    ASSUME StorageInv, NEW d \in Daemons
    PROVE  /\ Storage!SaveLocations(d) => StorageInv'
           /\ Storage!CancelMigration(d) => StorageInv'
           /\ Storage!DaemonStops(d) => StorageInv'
<1>1. /\ d \in Storage!Processes /\ DaemonKnows(d) /\ (Storage!Ordinary => DaemonHeld(d))
  BY DaemonFacts
<1>2. proc \in [Storage!Processes -> StorageProcs] /\ Storage!StorageTypeOK
      /\ Storage!DataIsFound
  BY DEF StorageInv, StorageTyped
<1>3. proc[d].mem.cur \in Storage!Locations /\ proc[d] \in StorageProcs
      /\ Storage!WorksIn(d) = proc[d].mem.cur
  BY <1>1, ProcessFacts DEF Storage!WorksIn
<1>4. ASSUME proc[d].at = "running", NEW record \in Storage!Records,
             record.cur = proc[d].mem.cur,
             config' = record, proc' = [proc EXCEPT ![d].mem = config'],
             saves' \in 0..MaxSaves,
             UNCHANGED <<content, lockFile, lock, boundary, kills, purged, outdated>>
      PROVE  StorageInv'
  <2>1. /\ proc' \in [Storage!Processes -> StorageProcs] /\ proc'[d].at = "running"
        /\ proc'[d].mem = record
        /\ \A q \in Storage!Processes \ {d} : proc'[q] = proc[q]
    <3> DEFINE r == [proc[d] EXCEPT !.mem = record]
    <3>1. proc' = [proc EXCEPT ![d] = r]
      BY <1>4
    <3>2. r \in StorageProcs /\ r.at = "running" /\ r.mem = record
      BY <1>3, <1>4 DEF StorageProcs
    <3> HIDE DEF r
    <3>3. QED
      BY <1>1, <1>2, <3>1, <3>2, ProcSet
  <2>2. StorageTyped'
    BY <1>2, <1>4, <2>1 DEF StorageTyped, Storage!StorageTypeOK, StorageProcs
  <2>3. Storage!Ordinary' => Storage!Ordinary /\ config'.cur = config.cur /\ StorageOwns(d)
    BY <1>1, <1>4 DEF Storage!Ordinary, DaemonHeld, DaemonAfter
  <2>4. Storage!DataIsFound' /\ StorageQuiet(d)
    BY <1>2, <1>4, <2>1, <2>3 DEF Storage!DataIsFound, StorageQuiet
  <2>5. DaemonKnows(d)' /\ (Storage!Ordinary' => DaemonHeld(d)')
    BY <1>4, <2>1, <2>3
       DEF DaemonKnows, DaemonHeld, DaemonBefore, DaemonAfter, DaemonMoves, StorageOwns
  <2>6. QED
    BY <2>2, <2>4, <2>5, DaemonKept
<1>5. ASSUME Storage!SaveLocations(d) PROVE StorageInv'
  <2>1. PICK next \in Storage!Locations :
            config' = [cur |-> Storage!WorksIn(d),
               move |-> IF next = Storage!WorksIn(d) THEN Storage!NoMove ELSE next]
    BY <1>5 DEF Storage!SaveLocations
  <2>2. config' \in Storage!Records /\ config'.cur = proc[d].mem.cur
    BY <1>3, <2>1 DEF Storage!Records
  <2>3. saves' \in 0..MaxSaves
    BY <1>2, <1>5, StorageAssumption DEF Storage!SaveLocations, Storage!StorageTypeOK
  <2>4. QED
    BY <1>4, <1>5, <2>2, <2>3 DEF Storage!SaveLocations
<1>6. ASSUME Storage!CancelMigration(d) PROVE StorageInv'
  <2>1. config' \in Storage!Records /\ config'.cur = proc[d].mem.cur
    BY <1>3, <1>6 DEF Storage!Records, Storage!CancelMigration
  <2>2. saves' \in 0..MaxSaves
    BY <1>2, <1>6 DEF Storage!CancelMigration, Storage!StorageTypeOK
  <2>3. QED
    BY <1>4, <1>6, <2>1, <2>2 DEF Storage!CancelMigration
<1>7. ASSUME Storage!DaemonStops(d) PROVE StorageInv'
  <2>1. Storage!Ends(d) /\ UNCHANGED <<config, content, lockFile, boundary, saves, kills,
        purged, outdated>>
    BY <1>7 DEF Storage!DaemonStops
  <2>2. StorageTyped' /\ Storage!DataIsFound' /\ StorageQuiet(d) /\ proc'[d] = Storage!Off
    BY <1>1, <1>2, <2>1, FoundStill, ProcEnds
       DEF StorageTyped, Storage!StorageTypeOK, StorageProcs, StorageQuiet
  <2>3. QED
    BY <1>1, <2>2, StepEnds
<1>8. QED
  BY <1>5, <1>6, <1>7

\* A process that ends, whatever it was doing: a normal end, a refusal or a kill.
LEMMA StorageEnds ==
    ASSUME StorageInv, NEW p \in Storage!Processes, Storage!Ends(p),
           boundary' \in Purges \cup {Storage!Free}, kills' \in 0..MaxKills,
           UNCHANGED <<config, content, lockFile, saves, purged, outdated>>
    PROVE  StorageInv'
<1>1. proc \in [Storage!Processes -> StorageProcs] /\ Storage!StorageTypeOK
      /\ Storage!DataIsFound
  BY DEF StorageInv, StorageTyped
<1>2. StorageTyped' /\ Storage!DataIsFound' /\ StorageQuiet(p) /\ proc'[p] = Storage!Off
  BY <1>1, FoundStill, ProcEnds
     DEF StorageTyped, Storage!StorageTypeOK, StorageProcs, StorageQuiet
<1>3. QED
  BY <1>2, StepEnds

\* An offline command works under the lock of the recorded root (main.go:106-122).
LEMMA StorageCliStep ==
    ASSUME StorageInv, NEW c \in Clis, Storage!CliStep(c)
    PROVE  StorageInv'
<1>1. /\ c \in Storage!Processes /\ (Storage!Ordinary => CliHeld(c))
      /\ proc \in [Storage!Processes -> StorageProcs] /\ Storage!StorageTypeOK
         /\ Storage!DataIsFound
  BY DEF StorageInv, StorageTyped, StorageHeld, Storage!Processes
<1>2. boundary \in Purges \cup {Storage!Free} /\ kills \in 0..MaxKills
      /\ proc[c] \in StorageProcs
      /\ config \in Storage!Records /\ proc[c].seen.cur.root \in Roots
  BY <1>1, ProcessFacts DEF Storage!StorageTypeOK
<1>3. CASE Storage!CliChecks(c)
  <2> DEFINE r == [Storage!Off EXCEPT !.at = "checked"]
  <2>1. r \in StorageProcs /\ r.at = "checked"
    BY <1>2, OffSeen
  <2>2. proc' = [proc EXCEPT ![c] = r]
    BY <1>3 DEF Storage!CliChecks
  <2> HIDE DEF r
  <2>3. /\ proc' \in [Storage!Processes -> StorageProcs] /\ proc'[c].at = "checked"
        /\ \A q \in Storage!Processes \ {c} : proc'[q] = proc[q]
    BY <1>1, <2>1, <2>2, ProcSet
  <2>4. StorageTyped' /\ Storage!DataIsFound' /\ StorageQuiet(c)
    BY <1>1, <1>3, <2>3, FoundStill
       DEF Storage!CliChecks, StorageTyped, Storage!StorageTypeOK, StorageProcs, StorageQuiet
  <2>5. CliKnows(c)' /\ CliHeld(c)'
    BY <2>3 DEF CliKnows, CliHeld
  <2>6. QED
    BY <2>4, <2>5, CliKept
<1>4. CASE Storage!CliOpens(c)
  <2> DEFINE r == [proc[c] EXCEPT !.at = "opened", !.seen = config]
  <2>1. r \in StorageProcs /\ r.at = "opened"
    BY <1>2 DEF StorageProcs, Storage!Steps
  <2>2. proc' = [proc EXCEPT ![c] = r]
    BY <1>4 DEF Storage!CliOpens
  <2> HIDE DEF r
  <2>3. /\ proc' \in [Storage!Processes -> StorageProcs] /\ proc'[c].at = "opened"
        /\ \A q \in Storage!Processes \ {c} : proc'[q] = proc[q]
    BY <1>1, <2>1, <2>2, ProcSet
  <2>4. StorageTyped' /\ Storage!DataIsFound' /\ StorageQuiet(c)
    BY <1>1, <1>4, <2>3, FoundStill
       DEF Storage!CliOpens, StorageTyped, Storage!StorageTypeOK, StorageProcs, StorageQuiet
  <2>5. CliKnows(c)' /\ CliHeld(c)'
    BY <2>3 DEF CliKnows, CliHeld
  <2>6. QED
    BY <2>4, <2>5, CliKept
<1>5. CASE Storage!CliLocks(c)
  <2> DEFINE root == proc[c].seen.cur.root
  <2>1. CASE Storage!Ends(c) /\ UNCHANGED lockFile
    BY <1>1, <1>2, <1>5, <2>1, StorageEnds DEF Storage!CliLocks
  <2>2. CASE Storage!AcquireLock(c, root) /\ Storage!To(c, "locked")
    <3>1. "locked" \in Storage!Steps
      BY DEF Storage!Steps
    <3>2. /\ proc' \in [Storage!Processes -> StorageProcs] /\ proc'[c].at = "locked"
          /\ proc'[c].seen = proc[c].seen
          /\ \A q \in Storage!Processes \ {c} : proc'[q] = proc[q]
      BY <1>1, <2>2, <3>1, ProcTo
    <3>3. /\ lock' \in [Roots -> Storage!Processes \cup {Storage!Free}]
             /\ lockFile' \in [Roots -> BOOLEAN]
          /\ lock'[root] = c
          /\ \A q \in Storage!Processes : \A s \in Roots : lock[s] = q => lock'[s] = q
      BY <1>1, <1>2, <2>2, LockTaken
    <3>4. StorageTyped' /\ Storage!DataIsFound' /\ StorageQuiet(c)
      BY <1>1, <1>5, <3>2, <3>3, FoundStill
         DEF Storage!CliLocks, StorageTyped, Storage!StorageTypeOK, StorageProcs, StorageQuiet
    <3>5. CliKnows(c)' /\ CliHeld(c)'
      BY <3>2, <3>3 DEF CliKnows, CliHeld
    <3>6. QED
      BY <3>4, <3>5, CliKept
  <2>3. QED
    BY <1>5, <2>1, <2>2 DEF Storage!CliLocks
<1>6. CASE Storage!CliRechecks(c)
  <2>1. CASE config.cur.root = proc[c].seen.cur.root
    <3>1. "working" \in Storage!Steps /\ Storage!To(c, "working") /\ lock' = lock
      BY <1>6, <2>1 DEF Storage!Steps, Storage!CliRechecks
    <3>2. /\ proc' \in [Storage!Processes -> StorageProcs] /\ proc'[c].at = "working"
          /\ proc'[c].seen = proc[c].seen
          /\ \A q \in Storage!Processes \ {c} : proc'[q] = proc[q]
      BY <1>1, <3>1, ProcTo
    <3>3. StorageTyped' /\ Storage!DataIsFound' /\ StorageQuiet(c)
      BY <1>1, <1>6, <3>1, <3>2, FoundStill
         DEF Storage!CliRechecks, StorageTyped, Storage!StorageTypeOK, StorageProcs,
            StorageQuiet
    <3>4. CliKnows(c)' /\ (Storage!Ordinary' => CliHeld(c)')
      BY <1>1, <1>6, <2>1, <3>1, <3>2
         DEF Storage!CliRechecks, CliKnows, CliHeld, Storage!Ordinary
    <3>5. QED
      BY <3>3, <3>4, CliKept
  <2>2. CASE config.cur.root # proc[c].seen.cur.root
    BY <1>1, <1>2, <1>6, <2>2, StorageEnds DEF Storage!CliRechecks
  <2>3. QED
    BY <2>1, <2>2
<1>7. CASE Storage!CliEnds(c)
  BY <1>1, <1>2, <1>7, StorageEnds DEF Storage!CliEnds
<1>8. QED
  BY <1>3, <1>4, <1>5, <1>6, <1>7 DEF Storage!CliStep

\* A purge deletes under the lock of the recorded root (data_purge.go:111-167).
LEMMA StoragePurgeStep ==
    ASSUME StorageInv, NEW u \in Purges, Storage!PurgeStep(u)
    PROVE  StorageInv'
<1>1. /\ u \in Storage!Processes /\ (Storage!Ordinary => PurgeHeld(u)) /\ PurgeKnows(u)
      /\ proc \in [Storage!Processes -> StorageProcs] /\ Storage!StorageTypeOK
         /\ Storage!DataIsFound
      /\ u \notin Daemons /\ u \notin Clis
  BY StorageAssumption DEF StorageInv, StorageTyped, StorageHeld, StorageKinds,
     Storage!Processes
<1>2. boundary \in Purges \cup {Storage!Free} /\ kills \in 0..MaxKills
      /\ proc[u] \in StorageProcs
      /\ config \in Storage!Records /\ proc[u].seen.cur.root \in Roots
  BY <1>1, ProcessFacts DEF Storage!StorageTypeOK
<1>3. Storage!PurgeLeaves(u) => Storage!Ends(u) /\ boundary' \in Purges \cup {Storage!Free}
  BY <1>2 DEF Storage!PurgeLeaves
<1>4. CASE Storage!PurgeOpens(u)
  <2> DEFINE r == [Storage!Off EXCEPT !.at = "checked", !.seen = config]
  <2>1. r \in StorageProcs /\ r.at = "checked"
    BY <1>2, OffSeen
  <2>2. proc' = [proc EXCEPT ![u] = r]
    BY <1>4 DEF Storage!PurgeOpens
  <2> HIDE DEF r
  <2>3. /\ proc' \in [Storage!Processes -> StorageProcs] /\ proc'[u].at = "checked"
        /\ \A q \in Storage!Processes \ {u} : proc'[q] = proc[q]
    BY <1>1, <2>1, <2>2, ProcSet
  <2>4. StorageTyped' /\ Storage!DataIsFound' /\ StorageQuiet(u)
    BY <1>1, <1>4, <2>3, FoundStill
       DEF Storage!PurgeOpens, StorageTyped, Storage!StorageTypeOK, StorageProcs, StorageQuiet
  <2>5. PurgeKnows(u)' /\ PurgeHeld(u)'
    BY <2>3 DEF PurgeKnows, PurgeHeld
  <2>6. QED
    BY <2>4, <2>5, PurgeKept
<1>5. CASE Storage!PurgeReserves(u)
  <2>1. CASE boundary = Storage!Free
    <3>1. "opened" \in Storage!Steps /\ Storage!To(u, "opened") /\ lock' = lock /\ boundary' = u
      BY <1>5, <2>1 DEF Storage!Steps, Storage!PurgeReserves
    <3>2. /\ proc' \in [Storage!Processes -> StorageProcs] /\ proc'[u].at = "opened"
          /\ \A q \in Storage!Processes \ {u} : proc'[q] = proc[q]
      BY <1>1, <3>1, ProcTo
    <3>3. StorageTyped' /\ Storage!DataIsFound' /\ StorageQuiet(u)
      BY <1>1, <1>5, <3>1, <3>2, FoundStill
         DEF Storage!PurgeReserves, StorageTyped, Storage!StorageTypeOK, StorageProcs,
            StorageQuiet
    <3>4. PurgeKnows(u)' /\ PurgeHeld(u)'
      BY <3>2 DEF PurgeKnows, PurgeHeld
    <3>5. QED
      BY <3>3, <3>4, PurgeKept
  <2>2. CASE boundary # Storage!Free
    BY <1>1, <1>2, <1>5, <2>2, StorageEnds DEF Storage!PurgeReserves
  <2>3. QED
    BY <2>1, <2>2
<1>6. CASE Storage!PurgeLocks(u)
  <2> DEFINE root == proc[u].seen.cur.root
  <2>1. CASE Storage!PurgeLeaves(u) /\ UNCHANGED lockFile
    BY <1>1, <1>2, <1>3, <1>6, <2>1, StorageEnds DEF Storage!PurgeLocks
  <2>2. CASE Storage!AcquireLock(u, root) /\ Storage!To(u, "locked") /\ UNCHANGED boundary
    <3>1. "locked" \in Storage!Steps
      BY DEF Storage!Steps
    <3>2. /\ proc' \in [Storage!Processes -> StorageProcs] /\ proc'[u].at = "locked"
          /\ proc'[u].seen = proc[u].seen
          /\ \A q \in Storage!Processes \ {u} : proc'[q] = proc[q]
      BY <1>1, <2>2, <3>1, ProcTo
    <3>3. /\ lock' \in [Roots -> Storage!Processes \cup {Storage!Free}]
             /\ lockFile' \in [Roots -> BOOLEAN]
          /\ lock'[root] = u
          /\ \A q \in Storage!Processes : \A s \in Roots : lock[s] = q => lock'[s] = q
      BY <1>1, <1>2, <2>2, LockTaken
    <3>4. StorageTyped' /\ Storage!DataIsFound' /\ StorageQuiet(u)
      BY <1>1, <1>6, <2>2, <3>2, <3>3, FoundStill
         DEF Storage!PurgeLocks, StorageTyped, Storage!StorageTypeOK, StorageProcs, StorageQuiet
    <3>5. PurgeKnows(u)' /\ PurgeHeld(u)'
      BY <3>2, <3>3 DEF PurgeKnows, PurgeHeld
    <3>6. QED
      BY <3>4, <3>5, PurgeKept
  <2>3. QED
    BY <1>6, <2>1, <2>2 DEF Storage!PurgeLocks
<1>7. CASE Storage!PurgeRechecks(u)
  <2>1. CASE config.cur = proc[u].seen.cur
    <3>1. "purging" \in Storage!Steps /\ Storage!To(u,
          "purging") /\ lock' = lock /\ boundary' = boundary
          /\ proc[u].at = "locked"
      BY <1>7, <2>1 DEF Storage!Steps, Storage!PurgeRechecks
    <3>2. /\ proc' \in [Storage!Processes -> StorageProcs] /\ proc'[u].at = "purging"
          /\ proc'[u].seen = proc[u].seen
          /\ \A q \in Storage!Processes \ {u} : proc'[q] = proc[q]
      BY <1>1, <3>1, ProcTo
    <3>3. StorageTyped' /\ Storage!DataIsFound' /\ StorageQuiet(u)
      BY <1>1, <1>7, <3>1, <3>2, FoundStill
         DEF Storage!PurgeRechecks, StorageTyped, Storage!StorageTypeOK, StorageProcs,
            StorageQuiet
    <3>4. PurgeKnows(u)' /\ (Storage!Ordinary' => PurgeHeld(u)')
      BY <1>1, <1>7, <2>1, <3>1, <3>2
         DEF Storage!PurgeRechecks, PurgeKnows, PurgeHeld, Storage!Ordinary
    <3>5. QED
      BY <3>3, <3>4, PurgeKept
  <2>2. CASE config.cur # proc[u].seen.cur
    BY <1>1, <1>2, <1>3, <1>7, <2>2, StorageEnds DEF Storage!PurgeRechecks
  <2>3. QED
    BY <2>1, <2>2
<1>8. CASE Storage!PurgeRemoves(u)
  <2>1. purged' /\ ~Storage!Ordinary' /\ "unlocking" \in Storage!Steps /\ Storage!Off.at = "off"
    BY <1>8, OffIs DEF Storage!PurgeRemoves, Storage!Ordinary, Storage!Steps
  <2>2. content \in [Storage!Places -> StorageContents]
    BY <1>1 DEF Storage!StorageTypeOK, StorageContents
  <2>3. content' \in [Storage!Places -> StorageContents]
    BY <1>8, <2>2 DEF Storage!PurgeRemoves, StorageContents
  <2>4. CASE Storage!To(u, "unlocking") /\ UNCHANGED <<lock, boundary>>
    <3>1. /\ proc' \in [Storage!Processes -> StorageProcs] /\ proc'[u].at = "unlocking"
          /\ \A q \in Storage!Processes \ {u} : proc'[q] = proc[q]
      BY <1>1, <2>1, <2>4, ProcTo
    <3>2. StorageTyped'
      BY <1>1, <1>8, <2>1, <2>3, <2>4, <3>1
         DEF Storage!PurgeRemoves, StorageTyped, Storage!StorageTypeOK, StorageProcs,
            StorageContents
    <3>3. PurgeKnows(u)'
      BY <2>1, <3>1 DEF PurgeKnows
    <3>4. QED
      BY <1>1, <2>1, <3>1, <3>2, <3>3, StorageLate
  <2>5. CASE Storage!PurgeLeaves(u)
    <3>1. Storage!Ends(u) /\ boundary' \in Purges \cup {Storage!Free}
      BY <1>3, <2>5
    <3>2. /\ proc' \in [Storage!Processes -> StorageProcs] /\ proc'[u] = Storage!Off
          /\ \A q \in Storage!Processes \ {u} : proc'[q] = proc[q]
          /\ lock' \in [Roots -> Storage!Processes \cup {Storage!Free}]
      BY <1>1, <3>1, ProcEnds
    <3>3. StorageTyped'
      BY <1>1, <1>8, <2>1, <2>3, <3>1, <3>2
         DEF Storage!PurgeRemoves, StorageTyped, Storage!StorageTypeOK, StorageProcs,
            StorageContents
    <3>4. PurgeKnows(u)'
      BY <2>1, <3>2 DEF PurgeKnows
    <3>5. QED
      BY <1>1, <2>1, <3>2, <3>3, <3>4, StorageLate
  <2>6. QED
    BY <1>8, <2>4, <2>5 DEF Storage!PurgeRemoves
<1>9. CASE Storage!PurgeUnlocks(u)
  <2>1. /\ purged' /\ ~Storage!Ordinary' /\ "clearing" \in Storage!Steps /\ Storage!To(u,
           "clearing")
    BY <1>1, <1>9 DEF Storage!PurgeUnlocks, PurgeKnows, Storage!Ordinary, Storage!Steps
  <2>2. /\ proc' \in [Storage!Processes -> StorageProcs] /\ proc'[u].at = "clearing"
        /\ \A q \in Storage!Processes \ {u} : proc'[q] = proc[q]
    BY <1>1, <2>1, ProcTo
  <2>3. lock' \in [Roots -> Storage!Processes \cup {Storage!Free}]
    BY <1>1, <1>9 DEF Storage!PurgeUnlocks, Storage!StorageTypeOK
  <2>4. StorageTyped'
    BY <1>1, <1>9, <2>1, <2>2, <2>3
       DEF Storage!PurgeUnlocks, StorageTyped, Storage!StorageTypeOK, StorageProcs
  <2>5. PurgeKnows(u)'
    BY <2>1, <2>2 DEF PurgeKnows
  <2>6. QED
    BY <1>1, <2>1, <2>2, <2>4, <2>5, StorageLate
<1>10. CASE Storage!PurgeClears(u)
  <2> DEFINE root == proc[u].seen.cur.root
  <2>1. /\ purged' /\ ~Storage!Ordinary' /\ "sweeping" \in Storage!Steps
           /\ proc[u].at = "clearing"
    BY <1>1, <1>10 DEF Storage!PurgeClears, PurgeKnows, Storage!Ordinary, Storage!Steps
  <2>2. CASE /\ lockFile' = [lockFile EXCEPT ![root] = FALSE] /\ config' = Storage!DefaultRecord
             /\ Storage!To(u, "sweeping") /\ UNCHANGED <<lock, boundary>>
    <3>1. /\ proc' \in [Storage!Processes -> StorageProcs] /\ proc'[u].at = "sweeping"
          /\ \A q \in Storage!Processes \ {u} : proc'[q] = proc[q]
      BY <1>1, <2>1, <2>2, ProcTo
    <3>2. lockFile' \in [Roots -> BOOLEAN] /\ config' \in Storage!Records
      BY <1>1, <2>2, OffIs DEF Storage!StorageTypeOK
    <3>3. StorageTyped'
      BY <1>1, <1>10, <2>1, <2>2, <3>1, <3>2
         DEF Storage!PurgeClears, StorageTyped, Storage!StorageTypeOK, StorageProcs
    <3>4. PurgeKnows(u)'
      BY <2>1, <3>1 DEF PurgeKnows
    <3>5. QED
      BY <1>1, <2>1, <3>1, <3>3, <3>4, StorageLate
  <2>3. CASE Storage!PurgeLeaves(u) /\ UNCHANGED <<lockFile, config>>
    BY <1>1, <1>2, <1>3, <1>10, <2>3, StorageEnds DEF Storage!PurgeClears
  <2>4. QED
    BY <1>10, <2>2, <2>3 DEF Storage!PurgeClears
<1>11. CASE Storage!PurgeSweeps(u)
  <2>1. /\ purged' /\ ~Storage!Ordinary' /\ Storage!Off.at = "off"
    BY <1>1, <1>11, OffIs DEF Storage!PurgeSweeps, PurgeKnows, Storage!Ordinary
  <2>2. Storage!Ends(u) /\ boundary' \in Purges \cup {Storage!Free}
    BY <1>3, <1>11 DEF Storage!PurgeSweeps
  <2>3. /\ proc' \in [Storage!Processes -> StorageProcs] /\ proc'[u] = Storage!Off
        /\ \A q \in Storage!Processes \ {u} : proc'[q] = proc[q]
        /\ lock' \in [Roots -> Storage!Processes \cup {Storage!Free}]
    BY <1>1, <2>2, ProcEnds
  <2>4. content' \in [Storage!Places -> StorageContents] /\ lockFile' \in [Roots -> BOOLEAN]
    BY <1>1, <1>11 DEF Storage!PurgeSweeps, Storage!StorageTypeOK, StorageContents
  <2>5. StorageTyped'
    BY <1>1, <1>11, <2>1, <2>2, <2>3, <2>4
       DEF Storage!PurgeSweeps, StorageTyped, Storage!StorageTypeOK, StorageProcs,
          StorageContents
  <2>6. PurgeKnows(u)'
    BY <2>1, <2>3 DEF PurgeKnows
  <2>7. QED
    BY <1>1, <2>1, <2>3, <2>5, <2>6, StorageLate
<1>12. QED
  BY <1>4, <1>5, <1>6, <1>7, <1>8, <1>9, <1>10, <1>11 DEF Storage!PurgeStep

\* No step of a daemon, an offline command or a purge, and no kill, breaks it.
LEMMA StorageStep ==
    ASSUME StorageInv, [Storage!Next]_storageVars
    PROVE  StorageInv'
<1>1. ASSUME NEW d \in Daemons, Storage!DaemonStep(d) PROVE StorageInv'
  BY <1>1, StorageDaemonStarts, StorageStages, StoragePublishes, StorageLocksNext,
     StorageCommits, StorageRemoves, StorageReleases, StorageRollsBack, StorageDrops,
     StorageServes DEF Storage!DaemonStep
<1>2. ASSUME NEW p \in Storage!Processes, Storage!Killed(p) PROVE StorageInv'
  <2>1. boundary \in Purges \cup {Storage!Free} /\ kills \in 0..MaxKills
    BY DEF StorageInv, StorageTyped, Storage!StorageTypeOK
  <2>2. /\ Storage!Ends(p) /\ boundary' \in Purges \cup {Storage!Free} /\ kills' \in 0..MaxKills
        /\ UNCHANGED <<config, content, lockFile, saves, purged, outdated>>
    BY <1>2, <2>1, StorageAssumption DEF Storage!Killed, Storage!PurgeLeaves
  <2>3. QED
    BY <2>2, StorageEnds
<1>3. CASE UNCHANGED storageVars
  BY <1>3 DEF storageVars, StorageInv, StorageTyped, Storage!StorageTypeOK, StorageKinds,
     StorageHeld,
     Storage!DataIsFound, Storage!Ordinary, DaemonKnows, DaemonHeld, CliKnows, CliHeld,
        PurgeKnows, PurgeHeld,
     StorageOwns
<1>4. QED
  BY <1>1, <1>2, <1>3, StorageCliStep, StoragePurgeStep DEF Storage!Next

\* It holds at the start.
LEMMA StorageStart == Storage!Init => StorageInv
<1>1. SUFFICES ASSUME Storage!Init PROVE StorageInv
  OBVIOUS
<1>2. Storage!Off \in StorageProcs /\ Storage!Off.at = "off"
      /\ Storage!DefaultRecord \in Storage!Records
  BY OffIs
<1>3. proc \in [Storage!Processes -> StorageProcs]
      /\ \A p \in Storage!Processes : proc[p].at = "off"
  BY <1>1, <1>2 DEF Storage!Init
<1>4. /\ content \in [Storage!Places -> StorageContents]
      /\ content[DefaultRoot] = "full" /\ content[DefaultData] = "full"
  BY <1>1, StorageAssumption DEF Storage!Init, Storage!Places, StorageContents
<1>5. StorageTyped
  <2>1. /\ lockFile \in [Roots -> BOOLEAN]
           /\ lock \in [Roots -> Storage!Processes \cup {Storage!Free}]
        /\ config \in Storage!Records /\ boundary \in Purges \cup {Storage!Free}
    BY <1>1, <1>2 DEF Storage!Init
  <2>2. purged \in BOOLEAN /\ outdated \in BOOLEAN
    BY <1>1 DEF Storage!Init
  <2>3. saves \in 0..MaxSaves /\ kills \in 0..MaxKills
    BY <1>1, StorageAssumption DEF Storage!Init
  <2>4. QED
    BY <1>3, <1>4, <2>1, <2>2, <2>3
       DEF StorageTyped, Storage!StorageTypeOK, StorageProcs, StorageContents
<1>6. Storage!DataIsFound
  BY <1>1, <1>4 DEF Storage!Init, Storage!DataIsFound, Storage!DefaultRecord, Storage!Default
<1>7. StorageKinds /\ StorageHeld
  BY <1>3 DEF StorageKinds, StorageHeld, DaemonKnows, DaemonHeld, CliKnows, CliHeld, PurgeKnows,
     PurgeHeld, DaemonBefore, DaemonAfter, DaemonMoves, Storage!Processes
<1>8. QED
  BY <1>5, <1>6, <1>7 DEF StorageInv

\* It implies the properties.
LEMMA StorageSafe ==
    ASSUME StorageInv
    PROVE  Storage!DataIsFound /\ Storage!CliRootIsCurrent /\ Storage!PurgeIsAlone
<1>1. Storage!CliRootIsCurrent
  BY DEF StorageInv, StorageHeld, CliHeld, Storage!CliRootIsCurrent
<1>2. Storage!PurgeIsAlone
  <2>1. SUFFICES ASSUME Storage!Ordinary, NEW u \in Purges, proc[u].at = "purging",
                        NEW p \in Storage!Processes \ {u},
                        proc[p].at \in {"running", "working", "removing", "committing"}
                 PROVE  FALSE
    BY DEF Storage!PurgeIsAlone
  <2>2. StorageOwns(u)
    BY <2>1 DEF StorageInv, StorageHeld, PurgeHeld, StorageOwns
  <2>3. ~StorageOwns(p)
    BY <2>1, <2>2 DEF StorageOwns
  <2>4. CASE p \in Daemons
    BY <2>1, <2>3, <2>4 DEF StorageInv, StorageHeld, StorageKinds, DaemonKnows, DaemonHeld,
       DaemonBefore, DaemonAfter, DaemonMoves
  <2>5. CASE p \in Clis
    BY <2>1, <2>3, <2>5 DEF StorageInv, StorageHeld, StorageKinds, CliKnows, CliHeld,
       StorageOwns
  <2>6. CASE p \in Purges
    BY <2>1, <2>6 DEF StorageInv, StorageKinds, PurgeKnows
  <2>7. QED
    BY <2>1, <2>4, <2>5, <2>6 DEF Storage!Processes
<1>3. QED
  BY <1>1, <1>2 DEF StorageInv

-----------------------------------------------------------------------------
(* The composition                                                         *)

\* One component runs, and its steps are the steps of its own specification.
LEMMA DesktopSteps ==
    ASSUME [DesktopNext]_DesktopVars
    PROVE  /\ part' = part
           /\ part = "quit" => [Quit!Next]_quitVars
           /\ part = "update" => [Update!Next]_updateVars
           /\ part = "publish" => [Publish!Next]_publishVars
           /\ part = "job" => [Job!JobNext]_jobVars
           /\ part = "settings" => [Prefs!Next]_settingsVars
           /\ part = "storage" => [Storage!Next]_storageVars
<1>1. CASE DesktopNext
  BY <1>1 DEF DesktopNext, QuitNext, UpdateNext, PublishNext, AskNext, UINext, PrefsNext,
              StorageNext, ActivityNext, JobNext, ImportNext, StoreNext, AcquireNext
<1>2. CASE UNCHANGED DesktopVars
  BY <1>2 DEF DesktopVars
<1>3. QED
  BY <1>1, <1>2

\* The invariant of the component that runs.
DesktopInv ==
    /\ part = "quit" => QuitInv
    /\ part = "update" => UpdateInv
    /\ part = "publish" => PublishInv
    /\ part = "job" => JobInv
    /\ part = "settings" => SettingsInv
    /\ part = "storage" => StorageInv

\* The component that runs keeps its invariant.
LEMMA DesktopInvariant == DesktopSpec => []DesktopInv
<1>1. DesktopInit => DesktopInv
  BY QuitStart, UpdateStart, PublishStart, JobStart, SettingsStart, StorageStart
     DEF DesktopInit, DesktopInv
<1>2. DesktopInv /\ [DesktopNext]_DesktopVars => DesktopInv'
  BY DesktopSteps, QuitStep, UpdateStep, PublishStep, JobStep, SettingsStep, StorageStep
     DEF DesktopInv
<1>3. QED
  BY <1>1, <1>2, PTL DEF DesktopSpec

\* The Worker's process boundary, for any set of processes, any amount of output and any
\* number of stops: nothing outlives a closed job (job_windows.go:145-200), the exit wait
\* keeps the handle it waits on, no query reaches a closed job, a boundary reported empty
\* is empty and nothing is sent on the closed events channel (job_windows.go:312-500).
THEOREM JobContained == DesktopSpec => []JobIsContained
<1>1. DesktopInv => JobIsContained
  BY JobSafe DEF DesktopInv, JobIsContained
<1>2. QED
  BY <1>1, DesktopInvariant, PTL

\* Leaving the application, for any number of quit requests, calls, channels, goroutines
\* and switches: one cleanup at a time, a drain cancels every mutable call, the question is
\* never left taken, one update operation at a time, and what is reported ready is the
\* staged release of the channel followed now (quit_flow.go:54-60, quit_confirm.go:19-43,
\* update.go:195-197, 640-692).
THEOREM ExitOrderly == DesktopSpec => []ExitIsOrderly
<1>1. DesktopInv => ExitIsOrderly
  BY QuitSafe, UpdateSafe DEF DesktopInv, ExitIsOrderly
<1>2. QED
  BY <1>1, DesktopInvariant, PTL

\* No step ends a claimed exit without quitting (update.go:508-531), and none publishes an
\* older value over a newer one, whichever of any number of goroutines drains the outbox
\* (trailing_publisher.go:106-153).
THEOREM PromisesKept == DesktopSpec => StepsKeepPromises
<1>1. DesktopInv /\ [DesktopNext]_DesktopVars =>
          [/\ part = "update" => Update!ExitQuitsStep
           /\ part = "publish" => Publish!NeverBackwardsStep]_<<updateVars, publishVars>>
  BY DesktopSteps, ExitQuits, PublishStep DEF DesktopInv
<1>2. QED
  BY <1>1, DesktopInvariant, PTL DEF DesktopSpec, StepsKeepPromises

\* Preferences and data, for any number of setters, places, daemons, offline commands and
\* purges, killed at any step: no setter undoes another's field (settings.go:363-443,
\* 574-622); and as long as every daemon locked the root while the record still named the
\* places it had read, the record names a complete copy of the data (locations.go:344-474),
\* an offline command works only in the recorded root (main.go:106-122), and the first purge
\* is alone in what it deletes (data_purge.go:111-167).
THEOREM DataKept == DesktopSpec => []DataIsKept
<1>1. DesktopInv => DataIsKept
  BY StorageSafe DEF DesktopInv, DataIsKept, SettingsInv
<1>2. QED
  BY <1>1, DesktopInvariant, PTL
=============================================================================
