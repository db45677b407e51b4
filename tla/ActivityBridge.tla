--------------------------- MODULE ActivityBridge ---------------------------
(***************************************************************************)
(* The activity of a Worker's conversations as the desktop shows it: the   *)
(* bridge follows one Worker generation at a time over an event stream     *)
(* that is dropped and retried, and opens a conversation in a window when  *)
(* the user asks for one, with a timeout for the page's answer.            *)
(*                                                                         *)
(* lifecycleMu serializes Begin, Start and Close; each stops the stream    *)
(* goroutine and waits for it to end.  Everything else is under mu and     *)
(* interleaves.  The stream's content is external: Frames are the          *)
(* snapshots a Worker may send.  Timers fire at any time; a select that    *)
(* finds both its timer and its context ready takes either.                *)
(***************************************************************************)
EXTENDS Naturals, Sequences, FiniteSets

CONSTANTS
    Frames,             \* sets of conversations, each one valid snapshot
    Openers,            \* goroutines that call Open
    MaxGenerations,     \* bound: calls of Begin
    MaxRuns,            \* bound: streams started
    MaxNavigations,     \* bound: navigations requested
    MaxRetries          \* bound: retries of one stream

VARIABLES
    bridgeGen,          \* generation; 0 before the first Begin
    client,             \* client # nil
    online,             \* state.Connected
    activities,         \* state.Sessions
    navError, navBy,    \* state.NavigationError, and the navigation it is about
    navID, navSeq,      \* navigationID (0 is none) and navigationSequence
    navTimers,          \* per navigation: its timer goroutine and the generation it holds
    opens,              \* the Open calls
    streamRuns,         \* the stream goroutines
    doneRun,            \* the run whose done channel the bridge holds; 0 is nil
    lifeOp              \* the lifecycle operation under lifecycleMu

activityVars == <<bridgeGen, client, online, activities, navError, navBy, navID, navSeq,
                  navTimers, opens, streamRuns, doneRun, lifeOp>>
navVars == <<navID, navSeq, navTimers, opens>>

Runs == 1..MaxRuns
Navigations == 1..MaxNavigations
NoRun == [at |-> "none", gen |-> 0, ctx |-> FALSE, got |-> FALSE, tries |-> 0]

----------------------------------------------------------------------------
(* normalize, activityState, priority and AnimationIntent. *)

activityState(a) ==
    IF a.interaction # "none" THEN "needs-input"
    ELSE IF a.goalBlocked THEN "blocked"
    ELSE IF a.running THEN "running"
    ELSE IF a.outcome \in {"error", "blocked", "max-tokens", "interrupted"} THEN a.outcome
    ELSE IF "failed" \in a.jobs THEN "error"
    ELSE IF a.jobs \cap {"running", "stopping"} # {} THEN "running"
    ELSE "idle"

\* Mutant: work in progress comes before what failed or waits.
priorityWork(s) == IF s = "running" THEN 0 ELSE 1

priority(s) ==
    CASE s = "needs-input" -> 0
      [] s \in {"blocked", "error", "max-tokens", "interrupted"} -> 1
      [] s = "running" -> 3
      [] OTHER -> 4

Before(a, b) ==
    LET pa == priority(activityState(a))
        pb == priority(activityState(b))
    IN \/ pa < pb
       \/ pa = pb /\ a.updatedAt > b.updatedAt
       \/ pa = pb /\ a.updatedAt = b.updatedAt /\ a.id < b.id

\* What is sorted by an order has at each place the one as many come before.
SortedBy(frame, precedes(_, _)) ==
    [i \in 1..Cardinality(frame) |->
        CHOOSE a \in frame : Cardinality({b \in frame : precedes(b, a)}) = i - 1]

normalize(frame) == SortedBy(frame, Before)

\* What the Worker lists, in its own order.
Listed(frame) == SortedBy(frame, LAMBDA a, b : a.id < b.id)

\* The kind of animation the Pet is asked for.
AnimationIntent ==
    IF ~online THEN "host.offline"
    ELSE IF activities = <<>> THEN "host.ready"
    ELSE LET a == activities[1]
             state == activityState(a)
         IN CASE state = "needs-input" -> IF a.interaction = "plan-review" THEN "task.reviewing"
                                          ELSE "task.waiting"
              [] state = "error" -> "task.failed"
              [] state = "blocked" -> "task.blocked"
              [] state = "max-tokens" -> "task.limited"
              [] state = "interrupted" -> "task.interrupted"
              [] state = "running" -> CASE a.phase = "thinking" -> "task.thinking"
                                        [] a.phase = "result" -> "task.result"
                                        [] OTHER -> "task.working"
              [] OTHER -> IF a.outcome = "completed" /\ a.liveCompletion THEN "task.completed"
                          ELSE IF a.outcome = "aborted" THEN "task.cancelled" ELSE "host.ready"

----------------------------------------------------------------------------

ActivityTypeOK ==
    /\ bridgeGen \in 0..MaxGenerations
    /\ client \in BOOLEAN /\ online \in BOOLEAN
    /\ activities \in {normalize(f) : f \in Frames} \cup {<<>>}
    /\ navError \in {"", "timeout", "reported"} /\ {navBy, navID, navSeq} \subseteq 0..MaxNavigations
    /\ navTimers \in [Navigations -> [at : {"none", "armed", "cancelled", "fired", "done"},
                                      gen : 0..MaxGenerations]]
    /\ opens \in [Openers -> [at : {"idle", "window"}, gen : 0..MaxGenerations]]
    /\ streamRuns \in [Runs -> [at : {"none", "auth", "receive", "left", "retry", "ended"},
                                gen : 0..MaxGenerations, ctx : BOOLEAN, got : BOOLEAN,
                                tries : 0..MaxRetries]]
    /\ doneRun \in 0..MaxRuns
    /\ lifeOp \in [kind : {"none", "begin", "start", "close"}, join : 0..MaxRuns]

ActivityInit ==
    /\ bridgeGen = 0 /\ client = FALSE /\ online = FALSE /\ activities = <<>>
    /\ navError = "" /\ navBy = 0 /\ navID = 0 /\ navSeq = 0
    /\ navTimers = [n \in Navigations |-> [at |-> "none", gen |-> 0]]
    /\ opens = [o \in Openers |-> [at |-> "idle", gen |-> 0]]
    /\ streamRuns = [r \in Runs |-> NoRun]
    /\ doneRun = 0
    /\ lifeOp = [kind |-> "none", join |-> 0]

\* A navigation's context is cancelled: its goroutine leaves, unless its timer
\* has fired.
CancelTimer(n) ==
    IF n \in Navigations /\ navTimers[n].at = "armed"
    THEN [navTimers EXCEPT ![n].at = "cancelled"] ELSE navTimers

----------------------------------------------------------------------------
(* Begin, Start and Close. *)

\* stop: the stream's context is cancelled, the pending navigation forgotten,
\* and the caller waits for the stream goroutine.
stop(kind) ==
    /\ lifeOp.kind = "none"
    /\ kind = "begin" => bridgeGen < MaxGenerations
    /\ kind = "start" => bridgeGen > 0 /\ \E r \in Runs : streamRuns[r].at = "none"
    /\ kind = "close" => doneRun # 0
    /\ lifeOp' = [kind |-> kind, join |-> doneRun]
    /\ doneRun' = 0
    /\ streamRuns' = IF doneRun = 0 THEN streamRuns ELSE [streamRuns EXCEPT ![doneRun].ctx = FALSE]
    /\ navTimers' = CancelTimer(navID)
    /\ navID' = 0
    /\ UNCHANGED <<bridgeGen, client, online, activities, navError, navBy, navSeq, opens>>

\* Mutant: the operation goes on without waiting for the goroutine.
JoinedAtOnce == TRUE

Joined == IF lifeOp.join = 0 THEN TRUE ELSE streamRuns[lifeOp.join].at = "ended"

LifeEnds == lifeOp' = [kind |-> "none", join |-> 0]

Begin ==
    /\ lifeOp.kind = "begin" /\ Joined
    /\ bridgeGen' = bridgeGen + 1
    /\ client' = FALSE /\ online' = FALSE /\ activities' = <<>>
    /\ navError' = "" /\ navBy' = 0
    /\ LifeEnds
    /\ UNCHANGED <<streamRuns, doneRun>> /\ UNCHANGED navVars

Start ==
    /\ lifeOp.kind = "start" /\ Joined
    /\ \E r \in Runs :
         /\ streamRuns[r].at = "none" /\ \A q \in Runs : q < r => streamRuns[q].at # "none"
         /\ streamRuns' = [streamRuns EXCEPT ![r] = [NoRun EXCEPT !.at = "auth", !.gen = bridgeGen,
                                                                  !.ctx = TRUE]]
         /\ doneRun' = r
    /\ client' = TRUE
    /\ LifeEnds
    /\ UNCHANGED <<bridgeGen, online, activities, navError, navBy>> /\ UNCHANGED navVars

Close ==
    /\ lifeOp.kind = "close" /\ Joined
    /\ LifeEnds
    /\ UNCHANGED <<bridgeGen, client, online, activities, navError, navBy, streamRuns, doneRun>>
    /\ UNCHANGED navVars

----------------------------------------------------------------------------
(* The stream goroutine. *)

StreamKeeps == UNCHANGED <<bridgeGen, client, navError, navBy, doneRun, lifeOp>> /\ UNCHANGED navVars

\* disconnected(generation) at the run's next stop.
Disconnected(r, at) ==
    /\ online' = IF bridgeGen = streamRuns[r].gen THEN FALSE ELSE online
    /\ streamRuns' = [streamRuns EXCEPT ![r].at = at]
    /\ UNCHANGED activities
    /\ StreamKeeps

\* The Worker's context ends.
WorkerContextEnds(r) ==
    /\ streamRuns[r].at \notin {"none", "ended"} /\ streamRuns[r].ctx
    /\ streamRuns' = [streamRuns EXCEPT ![r].ctx = FALSE]
    /\ UNCHANGED <<online, activities>> /\ StreamKeeps

Authenticated(r) ==
    /\ streamRuns[r].at = "auth" /\ streamRuns[r].ctx
    /\ streamRuns' = [streamRuns EXCEPT ![r].at = "receive", ![r].got = FALSE]
    /\ UNCHANGED <<online, activities>> /\ StreamKeeps

AuthenticationFails(r) ==
    /\ streamRuns[r].at = "auth" /\ streamRuns[r].ctx
    /\ Disconnected(r, "retry")

\* Mutant: the snapshot is shown as the Worker listed it.
acceptListed(r, frame) ==
    /\ streamRuns[r].at = "receive"
    /\ streamRuns' = [streamRuns EXCEPT ![r].got = TRUE]
    /\ IF bridgeGen = streamRuns[r].gen
         THEN online' = TRUE /\ activities' = Listed(frame)
         ELSE UNCHANGED <<online, activities>>
    /\ StreamKeeps

\* receiveActivity accepts a valid snapshot of its generation; a frame already
\* read may be taken after the context ended.
accept(r, frame) ==
    /\ streamRuns[r].at = "receive"
    /\ streamRuns' = [streamRuns EXCEPT ![r].got = TRUE]
    /\ IF bridgeGen = streamRuns[r].gen
         THEN online' = TRUE /\ activities' = normalize(frame)
         ELSE UNCHANGED <<online, activities>>
    /\ StreamKeeps

\* receiveActivity returns: its context ended, silence for 45 s, an error of
\* the stream, or a snapshot that is invalid or of another generation.
StreamEnds(r) ==
    /\ streamRuns[r].at = "receive"
    /\ streamRuns' = [streamRuns EXCEPT ![r].at = "left"]
    /\ UNCHANGED <<online, activities>> /\ StreamKeeps

StreamLost(r) ==
    /\ streamRuns[r].at = "left"
    /\ Disconnected(r, IF streamRuns[r].ctx THEN "retry" ELSE "ended")

\* waitBridgeTimer elapses and the stream is tried again.
Retry(r) ==
    /\ streamRuns[r].at = "retry" /\ streamRuns[r].tries < MaxRetries
    /\ streamRuns' = [streamRuns EXCEPT ![r].at = "auth", ![r].tries = @ + 1]
    /\ UNCHANGED <<online, activities>> /\ StreamKeeps

\* The context ended while the run authenticated or waited.
StreamReturns(r) ==
    /\ streamRuns[r].at \in {"auth", "retry"} /\ ~streamRuns[r].ctx
    /\ Disconnected(r, "ended")

----------------------------------------------------------------------------
(* Open, the page's report and the timeout. *)

OpenKeeps == UNCHANGED <<bridgeGen, client, online, activities, streamRuns, doneRun, lifeOp>>

\* Connected and a known conversation: the generation is read, and the window
\* opened outside the lock.
OpenReads(o) ==
    /\ opens[o].at = "idle" /\ client /\ online /\ activities # <<>> /\ navSeq < MaxNavigations
    /\ opens' = [opens EXCEPT ![o] = [at |-> "window", gen |-> bridgeGen]]
    /\ UNCHANGED <<navError, navBy, navID, navSeq, navTimers>> /\ OpenKeeps

\* No window opened, or the caller's context ended.
OpenFails(o) ==
    /\ opens[o].at = "window"
    /\ opens' = [opens EXCEPT ![o] = [at |-> "idle", gen |-> 0]]
    /\ UNCHANGED <<navError, navBy, navID, navSeq, navTimers>> /\ OpenKeeps

\* The newest navigation replaces the pending one; its timer is armed and the
\* command sent.
Open(o) ==
    /\ opens[o].at = "window" /\ navSeq < MaxNavigations
    /\ navSeq' = navSeq + 1
    /\ navID' = navSeq + 1
    /\ navTimers' = [CancelTimer(navID) EXCEPT ![navSeq + 1] = [at |-> "armed", gen |-> opens[o].gen]]
    /\ navError' = "" /\ navBy' = 0
    /\ opens' = [opens EXCEPT ![o] = [at |-> "idle", gen |-> 0]]
    /\ OpenKeeps

\* Mutant: the report of any navigation is taken.
ReportAnyOpened(id, error) ==
    /\ id \in 1..navSeq
    /\ navTimers' = CancelTimer(navID)
    /\ navID' = 0
    /\ navError' = error /\ navBy' = IF error = "" THEN 0 ELSE id
    /\ UNCHANGED <<navSeq, opens>> /\ OpenKeeps

\* A page reports a navigation it was sent: only the newest pending one counts.
ReportSessionOpened(id, error) ==
    /\ id \in 1..navSeq /\ navID = id
    /\ navTimers' = CancelTimer(id)
    /\ navID' = 0
    /\ navError' = error /\ navBy' = IF error = "" THEN 0 ELSE id
    /\ UNCHANGED <<navSeq, opens>> /\ OpenKeeps

\* The timer wins the goroutine's select.
TimerFires(n) ==
    /\ navTimers[n].at \in {"armed", "cancelled"}
    /\ navTimers' = [navTimers EXCEPT ![n].at = "fired"]
    /\ UNCHANGED <<navError, navBy, navID, navSeq, opens>> /\ OpenKeeps

\* Mutant: the navigation is reported as failed and stays pending.
TimedOutKeeps(n) ==
    /\ navTimers[n].at = "fired"
    /\ navTimers' = [navTimers EXCEPT ![n].at = "done"]
    /\ IF bridgeGen = navTimers[n].gen /\ navID = n
         THEN navError' = "timeout" /\ navBy' = n
         ELSE UNCHANGED <<navError, navBy>>
    /\ UNCHANGED <<navID, navSeq, opens>> /\ OpenKeeps

\* The timeout counts for the pending navigation of the same generation.
navigationTimedOut(n) ==
    /\ navTimers[n].at = "fired"
    /\ navTimers' = [navTimers EXCEPT ![n].at = "done"]
    /\ IF bridgeGen = navTimers[n].gen /\ navID = n
         THEN navID' = 0 /\ navError' = "timeout" /\ navBy' = n
         ELSE UNCHANGED <<navID, navError, navBy>>
    /\ UNCHANGED <<navSeq, opens>> /\ OpenKeeps

ActivityNext ==
    \/ \E kind \in {"begin", "start", "close"} : stop(kind)
    \/ Begin
    \/ Start
    \/ Close
    \/ \E r \in Runs : WorkerContextEnds(r)
    \/ \E r \in Runs : Authenticated(r)
    \/ \E r \in Runs : AuthenticationFails(r)
    \/ \E r \in Runs, frame \in Frames : accept(r, frame)
    \/ \E r \in Runs : StreamEnds(r)
    \/ \E r \in Runs : StreamLost(r)
    \/ \E r \in Runs : Retry(r)
    \/ \E r \in Runs : StreamReturns(r)
    \/ \E o \in Openers : OpenReads(o)
    \/ \E o \in Openers : OpenFails(o)
    \/ \E o \in Openers : Open(o)
    \/ \E id \in Navigations, error \in {"", "reported"} : ReportSessionOpened(id, error)
    \/ \E n \in Navigations : TimerFires(n)
    \/ \E n \in Navigations : navigationTimedOut(n)

ActivitySpec == ActivityInit /\ [][ActivityNext]_activityVars

----------------------------------------------------------------------------
(* Properties. *)

\* The desktop shows a Worker as connected exactly while the stream of its
\* generation delivers: a stream that ended or was replaced never leaves it
\* connected, and the end of a replaced one never hides the new one.
ConnectedIsTrue ==
    online <=> \E r \in Runs : /\ streamRuns[r].at \in {"receive", "left"}
                               /\ streamRuns[r].got /\ streamRuns[r].gen = bridgeGen

\* The navigation error on show is that of the newest navigation: neither the
\* late report of an older page nor an older timer overwrites it.
OutcomeIsNewest == navError # "" => navBy = navSeq

\* A navigation of the current generation that waits for its page has a timer
\* that will end the wait.
PendingIsTimed ==
    navID # 0 /\ navTimers[navID].gen = bridgeGen => navTimers[navID].at \in {"armed", "fired"}

\* A conversation that waits for the user is what the Pet shows, whatever the
\* other conversations do and in whatever order the Worker listed them; one
\* that failed is shown before those that merely run.
MostUrgentIsShown ==
    LET states == {activityState(activities[i]) : i \in DOMAIN activities} IN
    online => /\ "needs-input" \in states => AnimationIntent \in {"task.waiting", "task.reviewing"}
              /\ AnimationIntent \in {"task.thinking", "task.result", "task.working"} =>
                     states \subseteq {"running", "idle"}
              /\ AnimationIntent = "host.ready" => states \subseteq {"idle"}

=============================================================================
