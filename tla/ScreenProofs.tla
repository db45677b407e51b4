---------------------------- MODULE ScreenProofs ----------------------------
(***************************************************************************)
(* What the user is shown is true, for any number of windows, pages,       *)
(* conversations, setters, calls and reports.                              *)
(*                                                                         *)
(* None of the properties is inductive.  The activity: a run delivers only *)
(* under the generation it was started for, and the list of a frame is in  *)
(* the order of urgency because each conversation stands where its rank    *)
(* says (Rank, NormalizeIs).  The windows: the newest focus report waits,  *)
(* or is on its way (UIFocus), and commands are numbered in the order they *)
(* came (UICommands).  The preferences: while what is shown is outdated,   *)
(* some call has yet to show it (SettingsShown).  An acquisition: one call *)
(* has the slot, the gate and the staging directory (AcquireInv).  A       *)
(* notification: its interaction is pending, or its removal waits behind   *)
(* everything that announces it (AskCovered, AskTruthful); a ring that is  *)
(* not full begins at its first slot (AskRing).                            *)
(***************************************************************************)
EXTENDS DesktopProofs

-----------------------------------------------------------------------------
(* ActivityBridge: the order of the conversations.                         *)

\* The states of a conversation, and how urgent each is (bridge.go:620-667).
ActivityStates == {"needs-input", "blocked", "error", "max-tokens", "interrupted", "running", "idle"}

\* Every conversation has one of them.
LEMMA StatesAre == \A a : Activity!activityState(a) \in ActivityStates
  BY DEF Activity!activityState, ActivityStates

\* Waiting for the user comes first, what failed next, what runs last but for the rest.
LEMMA PrioritiesAre ==
  /\ \A s : Activity!priority(s) \in {0, 1, 3, 4}
  /\ \A s : Activity!priority(s) = 0 <=> s = "needs-input"
  /\ \A s : Activity!priority(s) = 1 <=> s \in {"blocked", "error", "max-tokens", "interrupted"}
  /\ \A s : Activity!priority(s) = 3 <=> s = "running"
  BY DEF Activity!priority

\* Two conversations of a frame are ordered, one way.
LEMMA BeforeOrders ==
  ASSUME NEW frame \in Frames
  PROVE  /\ \A a \in frame : ~Activity!Before(a, a)
         /\ \A a, b, c \in frame :
               Activity!Before(a, b) /\ Activity!Before(b, c) => Activity!Before(a, c)
         /\ \A a, b \in frame : a # b => Activity!Before(a, b) \/ Activity!Before(b, a)
<1> DEFINE p(a) == Activity!priority(Activity!activityState(a))
<1>1. \A a \in frame : p(a) \in Nat /\ a.id \in Nat /\ a.updatedAt \in Nat
  BY PrioritiesAre, ActivityAssumption
<1>2. \A a, b \in frame : a.id = b.id => a = b
  BY ActivityAssumption
<1>3. \A a, b \in frame :
         Activity!Before(a, b) <=> \/ p(a) < p(b)
                                   \/ p(a) = p(b) /\ a.updatedAt > b.updatedAt
                                   \/ p(a) = p(b) /\ a.updatedAt = b.updatedAt /\ a.id < b.id
  BY DEF Activity!Before
<1> HIDE DEF p
<1>4. \A a \in frame : ~Activity!Before(a, a)
  BY <1>1, <1>3
<1>5. \A a, b, c \in frame :
         Activity!Before(a, b) /\ Activity!Before(b, c) => Activity!Before(a, c)
  <2> TAKE a, b, c \in frame
  <2> QED BY <1>1, <1>3
<1>6. \A a, b \in frame : a # b => Activity!Before(a, b) \/ Activity!Before(b, a)
  <2> TAKE a, b \in frame
  <2> QED BY <1>1, <1>2, <1>3
<1> QED BY <1>4, <1>5, <1>6

\* How many conversations come before one.
Rank(frame, a) == Cardinality({b \in frame : Activity!Before(b, a)})

\* It is a place in a list of them all.
LEMMA RankIs ==
  ASSUME NEW frame \in Frames, NEW a \in frame
  PROVE  /\ Cardinality(frame) \in Nat /\ IsFiniteSet(frame)
         /\ Rank(frame, a) \in 0..(Cardinality(frame) - 1)
<1> DEFINE B == {b \in frame : Activity!Before(b, a)}
<1>1. IsFiniteSet(frame) /\ Cardinality(frame) \in Nat
  BY ActivityAssumption, FS_CardinalityType
<1>2. B \in SUBSET (frame \ {a})
  BY BeforeOrders
<1>3. IsFiniteSet(frame \ {a}) /\ Cardinality(frame \ {a}) = Cardinality(frame) - 1
  BY <1>1, FS_RemoveElement
<1> HIDE DEF B
<1>4. IsFiniteSet(B) /\ Cardinality(B) <= Cardinality(frame) - 1
  BY <1>2, <1>3, FS_Subset
<1>5. Cardinality(B) \in Nat
  BY <1>4, FS_CardinalityType
<1> QED BY <1>1, <1>4, <1>5 DEF Rank, B

\* Who comes before has the lower one.
LEMMA RankGrows ==
  ASSUME NEW frame \in Frames, NEW a \in frame, NEW b \in frame, Activity!Before(a, b)
  PROVE  Rank(frame, a) < Rank(frame, b)
<1> DEFINE A == {c \in frame : Activity!Before(c, a)}
           B == {c \in frame : Activity!Before(c, b)}
<1>1. A \in SUBSET B /\ a \in B /\ a \notin A
  BY BeforeOrders
<1>2. IsFiniteSet(frame) /\ B \in SUBSET frame
  BY ActivityAssumption
<1> HIDE DEF A, B
<1>3. IsFiniteSet(B)
  BY <1>2, FS_Subset
<1>4. Cardinality(A) <= Cardinality(B) /\ Cardinality(A) # Cardinality(B)
  BY <1>1, <1>3, FS_Subset
<1>5. Cardinality(A) \in Int /\ Cardinality(B) \in Int
  BY RankIs DEF Rank, A, B
<1> QED BY <1>4, <1>5 DEF Rank, A, B

\* Every place is some conversation's: as many places as conversations, and no two share one.
LEMMA RankReaches ==
  ASSUME NEW frame \in Frames, NEW i \in 1..Cardinality(frame)
  PROVE  \E a \in frame : Rank(frame, a) = i - 1
<1> DEFINE n == Cardinality(frame)
           f == [a \in frame |-> Rank(frame, a)]
<1>1. IsFiniteSet(frame) /\ n \in Nat
  BY ActivityAssumption, FS_CardinalityType
<1>2. n # 0
  BY <1>1
<1>3. f \in [frame -> 0..(n - 1)]
  BY RankIs
<1> HIDE DEF n
<1>4. ASSUME NEW a \in frame, NEW b \in frame, a # b PROVE f[a] # f[b]
  <2>1. Rank(frame, a) \in Int /\ Rank(frame, b) \in Int
    BY RankIs
  <2>2. Rank(frame, a) # Rank(frame, b)
    BY <1>4, <2>1, BeforeOrders, RankGrows
  <2> QED BY <2>2
<1>5. f \in Injection(frame, 0..(n - 1))
  <2> HIDE DEF f
  <2> QED BY <1>3, <1>4 DEF Injection, IsInjective
<1>6. IsFiniteSet(0..(n - 1)) /\ Cardinality(0..(n - 1)) = n
  <2>1. 0 \in Int /\ n - 1 \in Int /\ ~(0 > n - 1) /\ (n - 1) - 0 + 1 = n
    BY <1>1, <1>2
  <2> QED BY <2>1, FS_Interval
<1> HIDE DEF f
<1>7. f \in Surjection(frame, 0..(n - 1))
  BY <1>5, <1>6, FS_Injection DEF n
<1>8. i - 1 \in 0..(n - 1)
  BY <1>1 DEF n
<1>9. \E a \in frame : f[a] = i - 1
  BY <1>7, <1>8 DEF Surjection
<1> QED BY <1>9 DEF f, n

\* What the bridge keeps of a snapshot: its conversations, none before the first.
LEMMA NormalizeIs ==
  ASSUME NEW frame \in Frames
  PROVE  /\ Cardinality(frame) \in Nat
         /\ Activity!normalize(frame) \in [1..Cardinality(frame) -> frame]
         /\ Cardinality(frame) # 0 =>
               \A b \in frame : ~Activity!Before(b, Activity!normalize(frame)[1])
<1> DEFINE n == Cardinality(frame)
           s == Activity!normalize(frame)
<1>1. IsFiniteSet(frame) /\ n \in Nat
  BY ActivityAssumption, FS_CardinalityType
<1>2. s = [i \in 1..n |-> CHOOSE a \in frame : Rank(frame, a) = i - 1]
  BY DEF Activity!normalize, Activity!SortedBy, Rank, Activity!Cardinality, Cardinality
<1> HIDE DEF s
<1>3. \A i \in 1..n : s[i] \in frame /\ Rank(frame, s[i]) = i - 1
  BY <1>2, RankReaches
<1>4. s \in [1..n -> frame]
  BY <1>2, <1>3
<1>5. ASSUME n # 0, NEW b \in frame PROVE ~Activity!Before(b, s[1])
  <2>1. s[1] \in frame /\ Rank(frame, s[1]) = 0
    BY <1>1, <1>3, <1>5
  <2> DEFINE B == {c \in frame : Activity!Before(c, s[1])}
  <2>2. IsFiniteSet(B) /\ Cardinality(B) = 0
    BY <1>1, <2>1, FS_Subset DEF Rank
  <2>3. B = {}
    <3> HIDE DEF B
    <3> QED BY <2>2, FS_EmptySet
  <2> QED BY <2>3
<1> QED BY <1>1, <1>4, <1>5 DEF s

ActivityLists == {Activity!normalize(f) : f \in Frames} \cup {<<>>}

\* None of a list is more urgent than its first.
LEMMA MostUrgentFirst ==
  ASSUME NEW s \in ActivityLists, s # <<>>
  PROVE  /\ 1 \in DOMAIN s
         /\ \A i \in DOMAIN s : Activity!priority(Activity!activityState(s[1]))
                                   <= Activity!priority(Activity!activityState(s[i]))
<1>1. PICK frame \in Frames : s = Activity!normalize(frame)
  BY DEF ActivityLists
<1>2. /\ Cardinality(frame) \in Nat /\ s \in [1..Cardinality(frame) -> frame]
      /\ Cardinality(frame) # 0 => \A b \in frame : ~Activity!Before(b, s[1])
  BY <1>1, NormalizeIs
<1>3. Cardinality(frame) # 0
  <2>1. SUFFICES ASSUME Cardinality(frame) = 0 PROVE s = <<>>
    OBVIOUS
  <2>2. s \in Seq(frame) /\ Len(s) = 0
    BY <1>2, <2>1
  <2> QED BY <2>2
<1>4. 1 \in DOMAIN s /\ s[1] \in frame
  BY <1>2, <1>3
<1>5. ASSUME NEW i \in DOMAIN s
      PROVE  Activity!priority(Activity!activityState(s[1]))
                <= Activity!priority(Activity!activityState(s[i]))
  <2>1. s[i] \in frame /\ ~Activity!Before(s[i], s[1])
    BY <1>2, <1>3
  <2>2. ~(Activity!priority(Activity!activityState(s[i]))
             < Activity!priority(Activity!activityState(s[1])))
    BY <2>1 DEF Activity!Before
  <2>3. /\ Activity!priority(Activity!activityState(s[i])) \in Nat
        /\ Activity!priority(Activity!activityState(s[1])) \in Nat
    BY PrioritiesAre
  <2> QED BY <2>2, <2>3
<1> QED BY <1>4, <1>5

\* A conversation that waits for the user is shown before those that failed or run.
LEMMA ActivityUrgent ==
  ASSUME activities \in ActivityLists
  PROVE  Activity!MostUrgentIsShown
<1> DEFINE states == {Activity!activityState(activities[i]) : i \in DOMAIN activities}
           first == Activity!activityState(activities[1])
<1>1. CASE activities = <<>>
  <2>1. states = {}
    BY <1>1
  <2> QED BY <1>1, <2>1 DEF Activity!MostUrgentIsShown, Activity!AnimationIntent
<1>2. CASE activities # <<>>
  <2>1. /\ first \in states /\ states \subseteq ActivityStates
        /\ \A t \in states : Activity!priority(first) <= Activity!priority(t)
    BY <1>2, MostUrgentFirst, StatesAre
  <2>2. online => Activity!AnimationIntent =
           (CASE first = "needs-input" -> IF activities[1].interaction = "plan-review"
                                           THEN "task.reviewing" ELSE "task.waiting"
              [] first = "error" -> "task.failed"
              [] first = "blocked" -> "task.blocked"
              [] first = "max-tokens" -> "task.limited"
              [] first = "interrupted" -> "task.interrupted"
              [] first = "running" -> CASE activities[1].phase = "thinking" -> "task.thinking"
                                        [] activities[1].phase = "result" -> "task.result"
                                        [] OTHER -> "task.working"
              [] OTHER -> IF activities[1].outcome = "completed" /\ activities[1].liveCompletion
                          THEN "task.completed"
                          ELSE IF activities[1].outcome = "aborted" THEN "task.cancelled"
                          ELSE "host.ready")
    BY <1>2 DEF Activity!AnimationIntent
  <2> HIDE DEF states, first
  <2>3. /\ "needs-input" \in states => first = "needs-input"
        /\ first = "running" => states \subseteq {"running", "idle"}
        /\ first = "idle" => states \subseteq {"idle"}
    BY <2>1, PrioritiesAre DEF ActivityStates
  <2>4. online /\ first = "needs-input" =>
           Activity!AnimationIntent \in {"task.waiting", "task.reviewing"}
    BY <2>2
  <2>5. online /\ Activity!AnimationIntent \in {"task.thinking", "task.result", "task.working"}
           => first = "running"
    BY <2>1, <2>2 DEF ActivityStates
  <2>6. online /\ Activity!AnimationIntent = "host.ready" => first = "idle"
    BY <2>1, <2>2 DEF ActivityStates
  <2>7. online =>
           /\ "needs-input" \in states => Activity!AnimationIntent \in {"task.waiting", "task.reviewing"}
           /\ Activity!AnimationIntent \in {"task.thinking", "task.result", "task.working"} =>
                  states \subseteq {"running", "idle"}
           /\ Activity!AnimationIntent = "host.ready" => states \subseteq {"idle"}
    BY <2>3, <2>4, <2>5, <2>6
  <2> QED BY <2>7 DEF Activity!MostUrgentIsShown, states
<1> QED BY <1>1, <1>2

-----------------------------------------------------------------------------
(* ActivityBridge: the stream of the current generation and the navigations. *)

ActivityRuns == [at : {"none", "auth", "receive", "left", "retry", "ended"}, gen : 0..MaxGenerations,
                 ctx : BOOLEAN, got : BOOLEAN, tries : 0..MaxRetries]
ActivityTimers == [at : {"none", "armed", "cancelled", "fired", "done"}, gen : 0..MaxGenerations]
ActivityOpens == [at : {"idle", "window"}, gen : 0..MaxGenerations]

Live(r) == streamRuns[r].at \notin {"none", "ended"}
Delivers(r) == streamRuns[r].at \in {"receive", "left"} /\ streamRuns[r].got

\* The stream's side: a run that lives is of the current generation and is the one the bridge
\* or its lifecycle operation holds, so there is one at most; what it delivers is shown.
ActivityStream ==
    /\ bridgeGen \in 0..MaxGenerations /\ client \in BOOLEAN /\ online \in BOOLEAN
    /\ activities \in ActivityLists
    /\ streamRuns \in [Activity!Runs -> ActivityRuns]
    /\ doneRun \in 0..MaxRuns
    /\ lifeOp \in [kind : {"none", "begin", "start", "close"}, join : 0..MaxRuns]
    /\ lifeOp.kind = "none" => lifeOp.join = 0
    /\ lifeOp.kind # "none" => doneRun = 0
    /\ lifeOp.kind = "begin" => bridgeGen < MaxGenerations
    /\ \A r \in Activity!Runs : Live(r) => streamRuns[r].gen = bridgeGen /\ r \in {doneRun, lifeOp.join}
    /\ online <=> \E r \in Activity!Runs : Delivers(r)

\* The navigations' side: the one that waits is the newest, and nothing is of a later
\* generation than the bridge's.
ActivityPages ==
    /\ bridgeGen \in 0..MaxGenerations
    /\ navError \in {"", "timeout", "reported"}
    /\ navBy \in 0..MaxNavigations /\ navID \in 0..MaxNavigations /\ navSeq \in 0..MaxNavigations
    /\ navTimers \in [Activity!Navigations -> ActivityTimers]
    /\ opens \in [Openers -> ActivityOpens]
    /\ \A n \in Activity!Navigations : navTimers[n].gen <= bridgeGen
    /\ \A o \in Openers : opens[o].gen <= bridgeGen
    /\ navID # 0 => navID = navSeq
    /\ navError # "" => navBy = navSeq
    /\ navID # 0 /\ navTimers[navID].gen = bridgeGen => navTimers[navID].at \in {"armed", "fired"}

ActivityInv == ActivityStream /\ ActivityPages

\* The bounds, and the numbers of runs and navigations.
LEMMA ActivityBounds ==
  /\ MaxGenerations \in Nat /\ MaxRuns \in Nat /\ MaxNavigations \in Nat /\ MaxRetries \in Nat
  /\ 0 \in 0..MaxGenerations /\ 0 \in 0..MaxRuns /\ 0 \in 0..MaxNavigations /\ 0 \in 0..MaxRetries
  /\ \A n \in Activity!Navigations : n # 0 /\ n \in 0..MaxNavigations
  /\ \A n \in 0..MaxNavigations : n # 0 => n \in Activity!Navigations
  /\ \A r \in Activity!Runs : r # 0 /\ r \in 0..MaxRuns
<1>1. MaxGenerations \in Nat /\ MaxRuns \in Nat /\ MaxNavigations \in Nat /\ MaxRetries \in Nat
  BY ActivityAssumption
<1> QED BY <1>1 DEF Activity!Navigations, Activity!Runs

\* A generation number, and the next.
LEMMA ActivityCounts ==
  ASSUME NEW k \in 0..MaxGenerations
  PROVE  /\ 0 <= k /\ k <= k
         /\ k < MaxGenerations => k + 1 \in 0..MaxGenerations
         /\ \A j \in 0..MaxGenerations : j <= k => j <= k + 1 /\ j # k + 1
  BY ActivityBounds

\* A navigation number, and the next.
LEMMA NavigationCounts ==
  ASSUME NEW k \in 0..MaxNavigations, k < MaxNavigations
  PROVE  k + 1 \in 0..MaxNavigations /\ k + 1 # 0 /\ k + 1 \in Activity!Navigations
<1>1. k + 1 \in 0..MaxNavigations /\ k + 1 # 0
  BY ActivityBounds
<1> QED BY <1>1, ActivityBounds

\* One stream at most has not ended.
LEMMA ActivityOneLives ==
  ASSUME ActivityStream, NEW r \in Activity!Runs, NEW q \in Activity!Runs, Live(r), Live(q)
  PROVE  r = q
  BY ActivityBounds DEF ActivityStream, Activity!Runs

\* A run goes on, and the desktop is told whether it delivers.
LEMMA ActivityRunGoes ==
  ASSUME ActivityStream, NEW r \in Activity!Runs, Live(r), NEW v \in ActivityRuns,
         v.at # "none", v.gen = streamRuns[r].gen,
         streamRuns' = [streamRuns EXCEPT ![r] = v],
         online' \in BOOLEAN, online' <=> v.at \in {"receive", "left"} /\ v.got,
         activities' \in ActivityLists,
         UNCHANGED <<bridgeGen, client, doneRun, lifeOp>>
  PROVE  ActivityStream'
<1>1. /\ streamRuns \in [Activity!Runs -> ActivityRuns]
      /\ \A q \in Activity!Runs : Live(q) => streamRuns[q].gen = bridgeGen /\ q \in {doneRun, lifeOp.join}
  BY DEF ActivityStream
<1>2. /\ streamRuns' \in [Activity!Runs -> ActivityRuns] /\ streamRuns'[r] = v
      /\ \A q \in Activity!Runs : q # r => streamRuns'[q] = streamRuns[q]
  BY <1>1
<1>3. \A q \in Activity!Runs : q # r => ~Live(q)
  BY ActivityOneLives
<1>4. \A q \in Activity!Runs : Live(q)' => streamRuns'[q].gen = bridgeGen /\ q \in {doneRun, lifeOp.join}
  BY <1>1, <1>2, <1>3 DEF Live
<1>5. \A q \in Activity!Runs : q # r => ~Delivers(q)'
  BY <1>2, <1>3 DEF Live, Delivers
<1>6. online' <=> \E q \in Activity!Runs : Delivers(q)'
  <2>1. Delivers(r)' <=> v.at \in {"receive", "left"} /\ v.got
    BY <1>2 DEF Delivers
  <2> QED BY <1>5, <2>1
<1> QED BY <1>2, <1>4, <1>6 DEF ActivityStream

\* Whether a run that lives delivers is what the desktop shows.
LEMMA ActivityShows ==
  ASSUME ActivityStream, NEW r \in Activity!Runs, Live(r)
  PROVE  online <=> Delivers(r)
<1>1. \A q \in Activity!Runs : Delivers(q) => Live(q)
  BY DEF Delivers, Live
<1> QED BY <1>1, ActivityOneLives DEF ActivityStream

\* The navigations do not see the stream.
LEMMA ActivityPagesStay ==
  ASSUME ActivityPages, UNCHANGED <<bridgeGen, navError, navBy, navID, navSeq, navTimers, opens>>
  PROVE  ActivityPages'
  BY DEF ActivityPages

\* The stream stays as it is.
LEMMA ActivityStreamStays ==
  ASSUME ActivityStream,
         UNCHANGED <<bridgeGen, client, online, activities, streamRuns, doneRun, lifeOp>>
  PROVE  ActivityStream'
  BY DEF ActivityStream, Live, Delivers

\* The steps of the stream goroutine.
LEMMA ActivityStreamSteps ==
  ASSUME ActivityInv, NEW r \in Activity!Runs,
         \/ Activity!WorkerContextEnds(r) \/ Activity!Authenticated(r)
         \/ Activity!AuthenticationFails(r) \/ \E frame \in Frames : Activity!accept(r, frame)
         \/ Activity!StreamEnds(r) \/ Activity!StreamLost(r) \/ Activity!Retry(r)
         \/ Activity!StreamReturns(r)
  PROVE  ActivityInv'
<1>t. /\ streamRuns \in [Activity!Runs -> ActivityRuns] /\ streamRuns[r] \in ActivityRuns
      /\ Live(r) => streamRuns[r].gen = bridgeGen
      /\ activities \in ActivityLists /\ online \in BOOLEAN /\ ActivityStream
  BY DEF ActivityInv, ActivityStream
<1>p. ActivityPages'
  BY ActivityPagesStay DEF ActivityInv, Activity!WorkerContextEnds, Activity!Authenticated,
     Activity!AuthenticationFails, Activity!accept, Activity!StreamEnds, Activity!StreamLost,
     Activity!Retry, Activity!StreamReturns, Activity!Disconnected, Activity!StreamKeeps,
     Activity!navVars
<1>1. CASE Activity!WorkerContextEnds(r)
  <2> DEFINE v == [streamRuns[r] EXCEPT !.ctx = FALSE]
  <2>1. /\ Live(r) /\ streamRuns' = [streamRuns EXCEPT ![r] = v]
        /\ UNCHANGED <<online, activities, bridgeGen, client, doneRun, lifeOp>>
    BY <1>1 DEF Activity!WorkerContextEnds, Activity!StreamKeeps, Live
  <2>2. v \in ActivityRuns /\ v.at = streamRuns[r].at /\ v.gen = streamRuns[r].gen /\ v.got = streamRuns[r].got
    BY <1>t DEF ActivityRuns
  <2>3. online' <=> v.at \in {"receive", "left"} /\ v.got
    BY <1>t, <2>1, <2>2, ActivityShows DEF Delivers
  <2> HIDE DEF v
  <2>4. v.at # "none"
    BY <2>1, <2>2 DEF Live
  <2> QED BY <1>t, <1>p, <2>1, <2>2, <2>3, <2>4, ActivityRunGoes DEF ActivityInv
<1>2. CASE Activity!Authenticated(r)
  <2> DEFINE v == [streamRuns[r] EXCEPT !.at = "receive", !.got = FALSE]
  <2>1. /\ streamRuns[r].at = "auth" /\ streamRuns' = [streamRuns EXCEPT ![r] = v]
        /\ UNCHANGED <<online, activities, bridgeGen, client, doneRun, lifeOp>>
    BY <1>2 DEF Activity!Authenticated, Activity!StreamKeeps
  <2>2. v \in ActivityRuns /\ v.at = "receive" /\ v.gen = streamRuns[r].gen /\ v.got = FALSE
    BY <1>t DEF ActivityRuns
  <2>3. Live(r) /\ ~online
    BY <1>t, <2>1, ActivityShows DEF Delivers, Live
  <2> HIDE DEF v
  <2> QED BY <1>t, <1>p, <2>1, <2>2, <2>3, ActivityRunGoes DEF ActivityInv
<1>3. CASE Activity!AuthenticationFails(r)
  <2> DEFINE v == [streamRuns[r] EXCEPT !.at = "retry"]
  <2>1. /\ streamRuns[r].at = "auth" /\ streamRuns' = [streamRuns EXCEPT ![r] = v]
        /\ online' = IF bridgeGen = streamRuns[r].gen THEN FALSE ELSE online
        /\ UNCHANGED <<activities, bridgeGen, client, doneRun, lifeOp>>
    BY <1>3 DEF Activity!AuthenticationFails, Activity!Disconnected, Activity!StreamKeeps
  <2>2. v \in ActivityRuns /\ v.at = "retry" /\ v.gen = streamRuns[r].gen
    BY <1>t DEF ActivityRuns
  <2>3. Live(r) /\ online' = FALSE
    BY <1>t, <2>1 DEF Live
  <2> HIDE DEF v
  <2> QED BY <1>t, <1>p, <2>1, <2>2, <2>3, ActivityRunGoes DEF ActivityInv
<1>4. ASSUME NEW frame \in Frames, Activity!accept(r, frame) PROVE ActivityInv'
  <2> DEFINE v == [streamRuns[r] EXCEPT !.got = TRUE]
  <2>1. /\ streamRuns[r].at = "receive" /\ streamRuns' = [streamRuns EXCEPT ![r] = v]
        /\ bridgeGen = streamRuns[r].gen => online' = TRUE /\ activities' = Activity!normalize(frame)
        /\ UNCHANGED <<bridgeGen, client, doneRun, lifeOp>>
    BY <1>4 DEF Activity!accept, Activity!StreamKeeps
  <2>2. v \in ActivityRuns /\ v.at = "receive" /\ v.gen = streamRuns[r].gen /\ v.got = TRUE
    BY <1>t, <2>1 DEF ActivityRuns
  <2>3. Live(r) /\ online' = TRUE /\ activities' \in ActivityLists
    BY <1>t, <2>1 DEF Live, ActivityLists
  <2> HIDE DEF v
  <2> QED BY <1>t, <1>p, <2>1, <2>2, <2>3, ActivityRunGoes DEF ActivityInv
<1>5. CASE Activity!StreamEnds(r)
  <2> DEFINE v == [streamRuns[r] EXCEPT !.at = "left"]
  <2>1. /\ streamRuns[r].at = "receive" /\ streamRuns' = [streamRuns EXCEPT ![r] = v]
        /\ UNCHANGED <<online, activities, bridgeGen, client, doneRun, lifeOp>>
    BY <1>5 DEF Activity!StreamEnds, Activity!StreamKeeps
  <2>2. v \in ActivityRuns /\ v.at = "left" /\ v.gen = streamRuns[r].gen /\ v.got = streamRuns[r].got
    BY <1>t DEF ActivityRuns
  <2>3. Live(r) /\ (online' <=> v.at \in {"receive", "left"} /\ v.got)
    BY <1>t, <2>1, <2>2, ActivityShows DEF Delivers, Live
  <2> HIDE DEF v
  <2> QED BY <1>t, <1>p, <2>1, <2>2, <2>3, ActivityRunGoes DEF ActivityInv
<1>6. CASE Activity!StreamLost(r)
  <2> DEFINE next == IF streamRuns[r].ctx THEN "retry" ELSE "ended"
             v == [streamRuns[r] EXCEPT !.at = next]
  <2>1. /\ streamRuns[r].at = "left" /\ streamRuns' = [streamRuns EXCEPT ![r] = v]
        /\ online' = IF bridgeGen = streamRuns[r].gen THEN FALSE ELSE online
        /\ UNCHANGED <<activities, bridgeGen, client, doneRun, lifeOp>>
    BY <1>6 DEF Activity!StreamLost, Activity!Disconnected, Activity!StreamKeeps
  <2>2. v \in ActivityRuns /\ v.at \in {"retry", "ended"} /\ v.gen = streamRuns[r].gen
    BY <1>t DEF ActivityRuns
  <2>3. Live(r) /\ online' = FALSE
    BY <1>t, <2>1 DEF Live
  <2> HIDE DEF v
  <2> QED BY <1>t, <1>p, <2>1, <2>2, <2>3, ActivityRunGoes DEF ActivityInv
<1>7. CASE Activity!Retry(r)
  <2> DEFINE v == [streamRuns[r] EXCEPT !.at = "auth", !.tries = streamRuns[r].tries + 1]
  <2>1. /\ streamRuns[r].at = "retry" /\ streamRuns[r].tries < MaxRetries
        /\ streamRuns' = [streamRuns EXCEPT ![r] = v]
        /\ UNCHANGED <<online, activities, bridgeGen, client, doneRun, lifeOp>>
    BY <1>7 DEF Activity!Retry, Activity!StreamKeeps
  <2>2. v \in ActivityRuns /\ v.at = "auth" /\ v.gen = streamRuns[r].gen
    <3>1. streamRuns[r].tries + 1 \in 0..MaxRetries
      BY <1>t, <2>1, ActivityBounds DEF ActivityRuns
    <3> QED BY <1>t, <3>1 DEF ActivityRuns
  <2>3. Live(r) /\ ~online
    BY <1>t, <2>1, ActivityShows DEF Delivers, Live
  <2> HIDE DEF v
  <2> QED BY <1>t, <1>p, <2>1, <2>2, <2>3, ActivityRunGoes DEF ActivityInv
<1>8. CASE Activity!StreamReturns(r)
  <2> DEFINE v == [streamRuns[r] EXCEPT !.at = "ended"]
  <2>1. /\ streamRuns[r].at \in {"auth", "retry"} /\ streamRuns' = [streamRuns EXCEPT ![r] = v]
        /\ online' = IF bridgeGen = streamRuns[r].gen THEN FALSE ELSE online
        /\ UNCHANGED <<activities, bridgeGen, client, doneRun, lifeOp>>
    BY <1>8 DEF Activity!StreamReturns, Activity!Disconnected, Activity!StreamKeeps
  <2>2. v \in ActivityRuns /\ v.at = "ended" /\ v.gen = streamRuns[r].gen
    BY <1>t DEF ActivityRuns
  <2>3. Live(r) /\ online' = FALSE
    BY <1>t, <2>1 DEF Live
  <2> HIDE DEF v
  <2> QED BY <1>t, <1>p, <2>1, <2>2, <2>3, ActivityRunGoes DEF ActivityInv
<1> QED BY <1>1, <1>2, <1>3, <1>4, <1>5, <1>6, <1>7, <1>8

\* A navigation's timer is cancelled, or has fired already.
LEMMA ActivityCancelled ==
  ASSUME ActivityPages, NEW n
  PROVE  /\ Activity!CancelTimer(n) \in [Activity!Navigations -> ActivityTimers]
         /\ \A m \in Activity!Navigations :
               /\ Activity!CancelTimer(n)[m].gen = navTimers[m].gen
               /\ m # n => Activity!CancelTimer(n)[m] = navTimers[m]
<1>1. navTimers \in [Activity!Navigations -> ActivityTimers]
  BY DEF ActivityPages
<1>2. CASE n \in Activity!Navigations /\ navTimers[n].at = "armed"
  <2> DEFINE v == [navTimers[n] EXCEPT !.at = "cancelled"]
  <2>1. Activity!CancelTimer(n) = [navTimers EXCEPT ![n] = v]
    BY <1>2 DEF Activity!CancelTimer
  <2>2. v \in ActivityTimers /\ v.gen = navTimers[n].gen
    BY <1>1, <1>2 DEF ActivityTimers
  <2> HIDE DEF v
  <2> QED BY <1>1, <2>1, <2>2
<1>3. CASE ~(n \in Activity!Navigations /\ navTimers[n].at = "armed")
  <2>1. Activity!CancelTimer(n) = navTimers
    BY <1>3 DEF Activity!CancelTimer
  <2> QED BY <1>1, <2>1
<1> QED BY <1>2, <1>3

\* The navigation that waits is forgotten.
LEMMA ActivityForgets ==
  ASSUME ActivityPages, NEW n, navTimers' = Activity!CancelTimer(n), navID' = 0,
         navError' \in {"", "timeout", "reported"}, navBy' \in 0..MaxNavigations,
         navError' # "" => navBy' = navSeq,
         UNCHANGED <<bridgeGen, navSeq, opens>>
  PROVE  ActivityPages'
<1>1. /\ Activity!CancelTimer(n) \in [Activity!Navigations -> ActivityTimers]
      /\ \A m \in Activity!Navigations : Activity!CancelTimer(n)[m].gen = navTimers[m].gen
  BY ActivityCancelled
<1>2. navID' \in 0..MaxNavigations
  BY ActivityBounds
<1> QED BY <1>1, <1>2 DEF ActivityPages

\* A run that no operation and no bridge holds has ended or was never started.
LEMMA ActivityJoined ==
  ASSUME ActivityStream, lifeOp.kind # "none", Activity!Joined
  PROVE  \A r \in Activity!Runs : ~Live(r)
  BY DEF ActivityStream, Activity!Joined, Activity!Runs, Live

\* The calls of the lifecycle.
LEMMA ActivityLifeSteps ==
  ASSUME ActivityInv,
         \/ \E kind \in {"begin", "start", "close"} : Activity!stop(kind)
         \/ Activity!Begin \/ Activity!Start \/ Activity!Close
  PROVE  ActivityInv'
<1>t. /\ streamRuns \in [Activity!Runs -> ActivityRuns] /\ ActivityStream /\ ActivityPages
      /\ doneRun \in 0..MaxRuns /\ bridgeGen \in 0..MaxGenerations
      /\ lifeOp.kind # "none" => doneRun = 0
      /\ lifeOp.kind = "none" => lifeOp.join = 0
      /\ online <=> \E r \in Activity!Runs : Delivers(r)
      /\ \A r \in Activity!Runs : Live(r) => streamRuns[r].gen = bridgeGen /\ r \in {doneRun, lifeOp.join}
      /\ activities \in ActivityLists /\ online \in BOOLEAN /\ client \in BOOLEAN
  BY DEF ActivityInv, ActivityStream
<1>l. \A k \in {"none", "begin", "start", "close"}, j \in 0..MaxRuns :
         [kind |-> k, join |-> j] \in [kind : {"none", "begin", "start", "close"}, join : 0..MaxRuns]
  OBVIOUS
<1>z. 0 \in 0..MaxRuns /\ 0 \in 0..MaxNavigations
  BY ActivityBounds
<1>1. ASSUME NEW kind \in {"begin", "start", "close"}, Activity!stop(kind) PROVE ActivityInv'
  <2>1. /\ lifeOp.kind = "none"
        /\ kind = "begin" => bridgeGen < MaxGenerations
        /\ lifeOp' = [kind |-> kind, join |-> doneRun] /\ doneRun' = 0
        /\ streamRuns' = IF doneRun = 0 THEN streamRuns ELSE [streamRuns EXCEPT ![doneRun].ctx = FALSE]
        /\ navTimers' = Activity!CancelTimer(navID) /\ navID' = 0
        /\ UNCHANGED <<bridgeGen, client, online, activities, navError, navBy, navSeq, opens>>
    BY <1>1 DEF Activity!stop
  <2>2. ActivityPages'
    <3>1. /\ navError' \in {"", "timeout", "reported"} /\ navBy' \in 0..MaxNavigations
          /\ navError' # "" => navBy' = navSeq
      BY <1>t, <2>1 DEF ActivityPages
    <3> QED BY <1>t, <2>1, <3>1, ActivityForgets
  <2>3. /\ streamRuns' \in [Activity!Runs -> ActivityRuns]
        /\ \A r \in Activity!Runs : /\ streamRuns'[r].at = streamRuns[r].at
                                    /\ streamRuns'[r].gen = streamRuns[r].gen
                                    /\ streamRuns'[r].got = streamRuns[r].got
    <3>1. CASE doneRun = 0
      BY <1>t, <2>1, <3>1
    <3>2. CASE doneRun # 0
      <4> DEFINE v == [streamRuns[doneRun] EXCEPT !.ctx = FALSE]
      <4>1. doneRun \in Activity!Runs /\ streamRuns' = [streamRuns EXCEPT ![doneRun] = v]
        BY <1>t, <2>1, <3>2, ActivityBounds DEF Activity!Runs
      <4>2. /\ v \in ActivityRuns /\ v.at = streamRuns[doneRun].at
            /\ v.gen = streamRuns[doneRun].gen /\ v.got = streamRuns[doneRun].got
        BY <1>t, <4>1 DEF ActivityRuns
      <4> HIDE DEF v
      <4> QED BY <1>t, <4>1, <4>2
    <3> QED BY <3>1, <3>2
  <2>4. \A r \in Activity!Runs : (Live(r)' <=> Live(r)) /\ (Delivers(r)' <=> Delivers(r))
    BY <2>3 DEF Live, Delivers
  <2>5. \A r \in Activity!Runs : Live(r)' => streamRuns'[r].gen = bridgeGen' /\ r \in {doneRun', lifeOp'.join}
    BY <1>t, <2>1, <2>3, <2>4, ActivityBounds DEF Activity!Runs
  <2>6. ActivityStream'
    BY <1>t, <1>l, <1>z, <2>1, <2>3, <2>4, <2>5 DEF ActivityStream
  <2> QED BY <2>2, <2>6 DEF ActivityInv
<1>2. CASE Activity!Begin
  <2>1. /\ lifeOp.kind = "begin" /\ Activity!Joined /\ bridgeGen' = bridgeGen + 1
        /\ client' = FALSE /\ online' = FALSE /\ activities' = <<>> /\ navError' = "" /\ navBy' = 0
        /\ lifeOp' = [kind |-> "none", join |-> 0]
        /\ UNCHANGED <<streamRuns, doneRun, navID, navSeq, navTimers, opens>>
    BY <1>2 DEF Activity!Begin, Activity!LifeEnds, Activity!navVars
  <2>2. \A r \in Activity!Runs : ~Live(r) /\ ~Live(r)' /\ ~Delivers(r)'
    BY <1>t, <2>1, ActivityJoined DEF Live, Delivers
  <2>3. bridgeGen < MaxGenerations
    BY <1>t, <2>1 DEF ActivityStream
  <2>4. bridgeGen' \in 0..MaxGenerations
    BY <1>t, <2>1, <2>3, ActivityCounts
  <2>5. ActivityStream'
    BY <1>t, <1>l, <1>z, <2>1, <2>2, <2>4 DEF ActivityStream, ActivityLists
  <2>6. /\ \A n \in Activity!Navigations : navTimers[n].gen \in 0..MaxGenerations /\ navTimers[n].gen <= bridgeGen
        /\ \A o \in Openers : opens[o].gen \in 0..MaxGenerations /\ opens[o].gen <= bridgeGen
    BY <1>t DEF ActivityPages, ActivityTimers, ActivityOpens
  <2>7. /\ \A n \in Activity!Navigations : navTimers[n].gen <= bridgeGen' /\ navTimers[n].gen # bridgeGen'
        /\ \A o \in Openers : opens[o].gen <= bridgeGen'
    BY <1>t, <2>1, <2>6, ActivityCounts
  <2>8. navID # 0 => navID \in Activity!Navigations
    BY <1>t, ActivityBounds DEF ActivityPages, Activity!Navigations
  <2>9. ActivityPages'
    BY <1>t, <1>z, <2>1, <2>4, <2>7, <2>8 DEF ActivityPages
  <2> QED BY <2>5, <2>9 DEF ActivityInv
<1>3. CASE Activity!Start
  <2>1. PICK r \in Activity!Runs :
           /\ streamRuns[r].at = "none"
           /\ streamRuns' = [streamRuns EXCEPT ![r] = [Activity!NoRun EXCEPT !.at = "auth", !.gen = bridgeGen,
                                                                            !.ctx = TRUE]]
           /\ doneRun' = r
    BY <1>3 DEF Activity!Start
  <2>2. /\ lifeOp.kind = "start" /\ Activity!Joined /\ client' = TRUE
        /\ lifeOp' = [kind |-> "none", join |-> 0]
        /\ UNCHANGED <<bridgeGen, online, activities, navError, navBy, navID, navSeq, navTimers, opens>>
    BY <1>3 DEF Activity!Start, Activity!LifeEnds, Activity!navVars
  <2> DEFINE v == [Activity!NoRun EXCEPT !.at = "auth", !.gen = bridgeGen, !.ctx = TRUE]
  <2>3. v \in ActivityRuns /\ v.at = "auth" /\ v.gen = bridgeGen
    BY <1>t, ActivityBounds DEF ActivityRuns, Activity!NoRun
  <2> HIDE DEF v
  <2>4. /\ streamRuns' \in [Activity!Runs -> ActivityRuns] /\ streamRuns'[r] = v
        /\ \A q \in Activity!Runs : q # r => streamRuns'[q] = streamRuns[q]
    BY <1>t, <2>1, <2>3 DEF v
  <2>5. \A q \in Activity!Runs : ~Live(q) /\ ~Delivers(q)
    BY <1>t, <2>2, ActivityJoined DEF Live, Delivers
  <2>6. \A q \in Activity!Runs : (Live(q)' => q = r) /\ ~Delivers(q)'
    BY <2>3, <2>4, <2>5 DEF Live, Delivers
  <2>7. r \in 0..MaxRuns
    BY ActivityBounds DEF Activity!Runs
  <2>8. \A q \in Activity!Runs : Live(q)' => streamRuns'[q].gen = bridgeGen' /\ q \in {doneRun', lifeOp'.join}
    BY <2>1, <2>2, <2>3, <2>4, <2>6
  <2>9. ActivityStream'
    BY <1>t, <1>l, <1>z, <2>1, <2>2, <2>4, <2>5, <2>6, <2>7, <2>8 DEF ActivityStream
  <2>10. ActivityPages'
    BY <1>t, <2>2, ActivityPagesStay
  <2> QED BY <2>9, <2>10 DEF ActivityInv
<1>4. CASE Activity!Close
  <2>1. /\ lifeOp.kind = "close" /\ Activity!Joined /\ lifeOp' = [kind |-> "none", join |-> 0]
        /\ UNCHANGED <<bridgeGen, client, online, activities, streamRuns, doneRun>>
        /\ UNCHANGED <<navError, navBy, navID, navSeq, navTimers, opens>>
    BY <1>4 DEF Activity!Close, Activity!LifeEnds, Activity!navVars
  <2>2. \A q \in Activity!Runs : ~Live(q) /\ ~Live(q)' /\ (Delivers(q)' <=> Delivers(q))
    BY <1>t, <2>1, ActivityJoined DEF Live, Delivers
  <2>3. ActivityStream'
    BY <1>t, <1>l, <1>z, <2>1, <2>2 DEF ActivityStream
  <2>4. ActivityPages'
    BY <1>t, <2>1, ActivityPagesStay
  <2> QED BY <2>3, <2>4 DEF ActivityInv
<1> QED BY <1>1, <1>2, <1>3, <1>4

\* The calls of Open, the pages' reports and the timers.
LEMMA ActivityPageSteps ==
  ASSUME ActivityInv,
         \/ \E o \in Openers : Activity!OpenReads(o) \/ Activity!OpenFails(o) \/ Activity!Open(o)
         \/ \E id \in Activity!Navigations, error \in {"", "reported"} :
               Activity!ReportSessionOpened(id, error)
         \/ \E n \in Activity!Navigations : Activity!TimerFires(n) \/ Activity!navigationTimedOut(n)
  PROVE  ActivityInv'
<1>s. ActivityStream'
  BY ActivityStreamStays DEF ActivityInv, Activity!OpenReads, Activity!OpenFails, Activity!Open,
     Activity!ReportSessionOpened, Activity!TimerFires, Activity!navigationTimedOut,
     Activity!OpenKeeps
<1>t. /\ ActivityPages /\ bridgeGen \in 0..MaxGenerations
      /\ navError \in {"", "timeout", "reported"}
      /\ navBy \in 0..MaxNavigations /\ navID \in 0..MaxNavigations /\ navSeq \in 0..MaxNavigations
      /\ navTimers \in [Activity!Navigations -> ActivityTimers]
      /\ opens \in [Openers -> ActivityOpens]
      /\ \A n \in Activity!Navigations : navTimers[n].gen <= bridgeGen
      /\ \A o \in Openers : opens[o].gen <= bridgeGen
  BY DEF ActivityInv, ActivityPages
<1>z. 0 \in 0..MaxNavigations /\ 0 \in 0..MaxGenerations /\ 0 <= bridgeGen /\ bridgeGen <= bridgeGen
  BY <1>t, ActivityBounds, ActivityCounts
<1>o. ASSUME NEW o \in Openers, NEW v \in ActivityOpens, v.gen <= bridgeGen,
             opens' = [opens EXCEPT ![o] = v]
      PROVE  opens' \in [Openers -> ActivityOpens] /\ \A q \in Openers : opens'[q].gen <= bridgeGen
  BY <1>t, <1>o
<1>1. ASSUME NEW o \in Openers, Activity!OpenReads(o) PROVE ActivityPages'
  <2>1. /\ opens' = [opens EXCEPT ![o] = [at |-> "window", gen |-> bridgeGen]]
        /\ UNCHANGED <<bridgeGen, navError, navBy, navID, navSeq, navTimers>>
    BY <1>1 DEF Activity!OpenReads, Activity!OpenKeeps
  <2>2. [at |-> "window", gen |-> bridgeGen] \in ActivityOpens
    BY <1>t DEF ActivityOpens
  <2>3. opens' \in [Openers -> ActivityOpens] /\ \A q \in Openers : opens'[q].gen <= bridgeGen
    BY <1>o, <1>z, <2>1, <2>2
  <2> QED BY <1>t, <2>1, <2>3 DEF ActivityPages
<1>2. ASSUME NEW o \in Openers, Activity!OpenFails(o) PROVE ActivityPages'
  <2>1. /\ opens' = [opens EXCEPT ![o] = [at |-> "idle", gen |-> 0]]
        /\ UNCHANGED <<bridgeGen, navError, navBy, navID, navSeq, navTimers>>
    BY <1>2 DEF Activity!OpenFails, Activity!OpenKeeps
  <2>2. [at |-> "idle", gen |-> 0] \in ActivityOpens
    BY <1>z DEF ActivityOpens
  <2>3. opens' \in [Openers -> ActivityOpens] /\ \A q \in Openers : opens'[q].gen <= bridgeGen
    BY <1>o, <1>z, <2>1, <2>2
  <2> QED BY <1>t, <2>1, <2>3 DEF ActivityPages
<1>3. ASSUME NEW o \in Openers, Activity!Open(o) PROVE ActivityPages'
  <2> DEFINE id == navSeq + 1
             v == [at |-> "armed", gen |-> opens[o].gen]
  <2>1. /\ navSeq < MaxNavigations /\ navSeq' = id /\ navID' = id
        /\ navTimers' = [Activity!CancelTimer(navID) EXCEPT ![id] = v]
        /\ navError' = "" /\ navBy' = 0
        /\ opens' = [opens EXCEPT ![o] = [at |-> "idle", gen |-> 0]] /\ bridgeGen' = bridgeGen
    BY <1>3 DEF Activity!Open, Activity!OpenKeeps
  <2>2. [at |-> "idle", gen |-> 0] \in ActivityOpens
    BY <1>z DEF ActivityOpens
  <2>3. opens' \in [Openers -> ActivityOpens] /\ \A q \in Openers : opens'[q].gen <= bridgeGen
    BY <1>o, <1>z, <2>1, <2>2
  <2>4. id \in Activity!Navigations /\ id \in 0..MaxNavigations /\ id # 0
    BY <1>t, <2>1, NavigationCounts
  <2>5. v \in ActivityTimers /\ v.gen <= bridgeGen /\ v.at = "armed"
    BY <1>t DEF ActivityTimers, ActivityOpens
  <2> HIDE DEF id, v
  <2>6. /\ Activity!CancelTimer(navID) \in [Activity!Navigations -> ActivityTimers]
        /\ \A m \in Activity!Navigations : Activity!CancelTimer(navID)[m].gen <= bridgeGen
    BY <1>t, ActivityCancelled
  <2>7. /\ navTimers' \in [Activity!Navigations -> ActivityTimers] /\ navTimers'[id] = v
        /\ \A m \in Activity!Navigations : navTimers'[m].gen <= bridgeGen
    BY <2>1, <2>4, <2>5, <2>6
  <2> QED BY <1>t, <1>z, <2>1, <2>3, <2>4, <2>5, <2>7 DEF ActivityPages
<1>4. ASSUME NEW id \in Activity!Navigations, NEW error \in {"", "reported"},
             Activity!ReportSessionOpened(id, error)
      PROVE  ActivityPages'
  <2>1. /\ navID = id /\ navTimers' = Activity!CancelTimer(id) /\ navID' = 0
        /\ navError' = error /\ navBy' = IF error = "" THEN 0 ELSE id
        /\ UNCHANGED <<bridgeGen, navSeq, opens>>
    BY <1>4 DEF Activity!ReportSessionOpened, Activity!OpenKeeps
  <2>2. id # 0 /\ id \in 0..MaxNavigations
    BY ActivityBounds DEF Activity!Navigations
  <2>3. navID = navSeq
    BY <1>t, <2>1, <2>2 DEF ActivityPages
  <2>4. /\ navError' \in {"", "timeout", "reported"} /\ navBy' \in 0..MaxNavigations
        /\ navError' # "" => navBy' = navSeq
    BY <1>z, <2>1, <2>2, <2>3
  <2> QED BY <1>t, <2>1, <2>4, ActivityForgets
<1>m. ASSUME NEW n \in Activity!Navigations, NEW end \in {"fired", "done"},
             navTimers' = [navTimers EXCEPT ![n].at = end]
      PROVE  /\ navTimers' \in [Activity!Navigations -> ActivityTimers]
             /\ \A m \in Activity!Navigations : navTimers'[m].gen = navTimers[m].gen
             /\ \A m \in Activity!Navigations : m # n => navTimers'[m] = navTimers[m]
             /\ navTimers'[n].at = end
  <2> DEFINE v == [navTimers[n] EXCEPT !.at = end]
  <2>1. navTimers' = [navTimers EXCEPT ![n] = v]
    BY <1>m
  <2>2. v \in ActivityTimers /\ v.gen = navTimers[n].gen /\ v.at = end
    BY <1>t DEF ActivityTimers
  <2> HIDE DEF v
  <2> QED BY <1>t, <2>1, <2>2
<1>5. ASSUME NEW n \in Activity!Navigations, Activity!TimerFires(n) PROVE ActivityPages'
  <2>1. /\ navTimers' = [navTimers EXCEPT ![n].at = "fired"]
        /\ UNCHANGED <<bridgeGen, navError, navBy, navID, navSeq, opens>>
    BY <1>5 DEF Activity!TimerFires, Activity!OpenKeeps
  <2>2. /\ navTimers' \in [Activity!Navigations -> ActivityTimers]
        /\ \A m \in Activity!Navigations : navTimers'[m].gen = navTimers[m].gen
        /\ \A m \in Activity!Navigations : m # n => navTimers'[m] = navTimers[m]
        /\ navTimers'[n].at = "fired"
    BY <1>m, <2>1
  <2>3. navID # 0 => navID \in Activity!Navigations
    BY <1>t, ActivityBounds DEF Activity!Navigations
  <2> QED BY <1>t, <2>1, <2>2, <2>3 DEF ActivityPages
<1>6. ASSUME NEW n \in Activity!Navigations, Activity!navigationTimedOut(n) PROVE ActivityPages'
  <2>1. /\ navTimers' = [navTimers EXCEPT ![n].at = "done"]
        /\ bridgeGen = navTimers[n].gen /\ navID = n =>
              navID' = 0 /\ navError' = "timeout" /\ navBy' = n
        /\ ~(bridgeGen = navTimers[n].gen /\ navID = n) => UNCHANGED <<navID, navError, navBy>>
        /\ UNCHANGED <<bridgeGen, navSeq, opens>>
    BY <1>6 DEF Activity!navigationTimedOut, Activity!OpenKeeps
  <2>2. /\ navTimers' \in [Activity!Navigations -> ActivityTimers]
        /\ \A m \in Activity!Navigations : navTimers'[m].gen = navTimers[m].gen
        /\ \A m \in Activity!Navigations : m # n => navTimers'[m] = navTimers[m]
    BY <1>m, <2>1
  <2>3. n # 0 /\ n \in 0..MaxNavigations
    BY ActivityBounds DEF Activity!Navigations
  <2>4. navID # 0 => navID \in Activity!Navigations
    BY <1>t, ActivityBounds DEF Activity!Navigations
  <2>5. CASE bridgeGen = navTimers[n].gen /\ navID = n
    BY <1>t, <1>z, <2>1, <2>2, <2>3, <2>5 DEF ActivityPages
  <2>6. CASE ~(bridgeGen = navTimers[n].gen /\ navID = n)
    BY <1>t, <2>1, <2>2, <2>4, <2>6 DEF ActivityPages
  <2> QED BY <2>5, <2>6
<1> QED BY <1>s, <1>1, <1>2, <1>3, <1>4, <1>5, <1>6 DEF ActivityInv

\* It holds at first.
LEMMA ActivityStart == Activity!ActivityInit => ActivityInv
<1> SUFFICES ASSUME Activity!ActivityInit PROVE ActivityInv
  OBVIOUS
<1>1. 0 \in 0..MaxGenerations /\ 0 \in 0..MaxRuns /\ 0 \in 0..MaxNavigations /\ 0 \in 0..MaxRetries
  BY ActivityBounds
<1>2. /\ Activity!NoRun \in ActivityRuns /\ Activity!NoRun.at = "none"
      /\ [at |-> "none", gen |-> 0] \in ActivityTimers /\ [at |-> "idle", gen |-> 0] \in ActivityOpens
      /\ [kind |-> "none", join |-> 0] \in [kind : {"none", "begin", "start", "close"}, join : 0..MaxRuns]
  BY <1>1 DEF ActivityRuns, ActivityTimers, ActivityOpens, Activity!NoRun
<1>3. ActivityStream
  BY <1>1, <1>2 DEF Activity!ActivityInit, ActivityStream, ActivityLists, Live, Delivers
<1>4. ActivityPages
  <2>1. /\ bridgeGen = 0 /\ navError = "" /\ navBy = 0 /\ navID = 0 /\ navSeq = 0
        /\ navTimers = [n \in Activity!Navigations |-> [at |-> "none", gen |-> 0]]
        /\ opens = [o \in Openers |-> [at |-> "idle", gen |-> 0]]
    BY DEF Activity!ActivityInit
  <2>2. bridgeGen = 0 => 0 <= bridgeGen
    OBVIOUS
  <2> QED BY <1>1, <1>2, <2>1, <2>2 DEF ActivityPages
<1> QED BY <1>3, <1>4 DEF ActivityInv

\* Every step keeps it.
LEMMA ActivityStep == ActivityInv /\ [Activity!ActivityNext]_activityVars => ActivityInv'
<1> SUFFICES ASSUME ActivityInv, [Activity!ActivityNext]_activityVars PROVE ActivityInv'
  OBVIOUS
<1>1. CASE Activity!ActivityNext
  BY <1>1, ActivityStreamSteps, ActivityLifeSteps, ActivityPageSteps DEF Activity!ActivityNext
<1>2. CASE UNCHANGED activityVars
  BY <1>2, ActivityStreamStays, ActivityPagesStay DEF activityVars, ActivityInv
<1> QED BY <1>1, <1>2

\* What the invariant says of the screen.
LEMMA ActivitySafe ==
  ASSUME ActivityInv
  PROVE  /\ Activity!ConnectedIsTrue /\ Activity!OutcomeIsNewest /\ Activity!PendingIsTimed
         /\ Activity!MostUrgentIsShown /\ Activity!ActivityTypeOK
<1>1. \A r \in Activity!Runs : Delivers(r) => streamRuns[r].gen = bridgeGen
  BY DEF ActivityInv, ActivityStream, Delivers, Live
<1>2. Activity!ConnectedIsTrue
  BY <1>1 DEF ActivityInv, ActivityStream, Delivers, Activity!ConnectedIsTrue
<1>3. Activity!OutcomeIsNewest /\ Activity!PendingIsTimed
  BY DEF ActivityInv, ActivityPages, Activity!OutcomeIsNewest, Activity!PendingIsTimed
<1>4. Activity!MostUrgentIsShown
  BY ActivityUrgent DEF ActivityInv, ActivityStream
<1>5. Activity!ActivityTypeOK
  BY DEF ActivityInv, ActivityStream, ActivityPages, ActivityLists, ActivityRuns, ActivityTimers,
         ActivityOpens, Activity!ActivityTypeOK
<1> QED BY <1>2, <1>3, <1>4, <1>5

-----------------------------------------------------------------------------
(* DesktopUI: launches and the notice, the commands, the focus reports.    *)

\* The window, a launch and the notice.
UIWindow ==
    /\ appStarted \in BOOLEAN /\ protocolPending \in BOOLEAN /\ wanted \in BOOLEAN
    /\ exists \in BOOLEAN /\ visible \in BOOLEAN /\ uiQuitting \in BOOLEAN
    /\ noticeBusy \in BOOLEAN /\ acknowledged \in BOOLEAN
    /\ launch \in {"idle", "open"} /\ launches \in 0..MaxLaunches
    /\ notice \in {"none", "shown", "acknowledging", "hide"}
    /\ UI!LaunchIsServed
    /\ UI!NoticeIsReleased

\* The commands are numbered as they come: those that wait, in order, are later than what was
\* emitted and not later than the last one.
UICommands ==
    /\ petReady \in BOOLEAN /\ queued \in Seq(1..MaxUICommands)
    /\ emitted \in 0..MaxUICommands /\ uiCommands \in 0..MaxUICommands
    /\ emitted <= uiCommands
    /\ Len(queued) <= QueueLimit
    /\ queued # <<>> => exists /\ ~petReady
    /\ \A m, n \in 1..Len(queued) : m < n => queued[m] < queued[n]
    /\ \A n \in 1..Len(queued) : emitted < queued[n] /\ queued[n] <= uiCommands

\* The window's focus is the last report that waits, or else the one under way, or else the
\* last one sent.
UIFocus ==
    /\ nativeFocus \in BOOLEAN /\ reported \in BOOLEAN /\ focusClosed \in BOOLEAN
    /\ focusQ \in Seq(BOOLEAN) /\ sending \in UI!Focus /\ focusEvents \in 0..MaxFocusEvents
    /\ focusQ # <<>> => focusQ[Len(focusQ)] = nativeFocus
    /\ focusQ = <<>> /\ sending # "none" => (sending = "focused") = nativeFocus
    /\ focusQ = <<>> /\ sending = "none" => reported = nativeFocus

UIInv == UIWindow /\ UICommands /\ UIFocus

UIOtherVars == <<appStarted, protocolPending, launch, wanted, launches, visible, uiQuitting,
                 noticeBusy, acknowledged, notice>>
UICommandVars == <<petReady, queued, emitted, uiCommands>>
UIFocusVars == <<nativeFocus, focusQ, sending, reported, focusClosed, focusEvents>>

\* The window stays as it is, with what it is read from.
LEMMA UIWindowStays == UIWindow /\ UNCHANGED <<UIOtherVars, exists>> => UIWindow'
  BY DEF UIWindow, UIOtherVars, UI!LaunchIsServed, UI!NoticeIsReleased

\* The commands stay as they are.
LEMMA UICommandsStay ==
  UICommands /\ UNCHANGED UICommandVars /\ (exists => exists') => UICommands'
  BY DEF UICommands, UICommandVars

\* The focus and its reports stay as they are.
LEMMA UIFocusStays == UIFocus /\ UNCHANGED UIFocusVars => UIFocus'
  BY DEF UIFocus, UIFocusVars

\* A report waits at the end, or is dropped with the window's focus as it was.
LEMMA UIEnqueues ==
  ASSUME UIFocus, NEW f \in BOOLEAN, UI!Enqueue(f)
  PROVE  UIFocus'
<1>1. /\ focusQ \in Seq(BOOLEAN) /\ sending \in UI!Focus /\ focusEvents \in 0..MaxFocusEvents
      /\ focusEvents < MaxFocusEvents /\ focusEvents' = focusEvents + 1
      /\ UNCHANGED <<sending, reported, focusClosed>>
  BY DEF UIFocus, UI!Enqueue
<1>2. focusEvents' \in 0..MaxFocusEvents
  BY <1>1, UIAssumption
<1>3. CASE focusClosed
  BY <1>1, <1>2, <1>3 DEF UIFocus, UI!Enqueue
<1>4. CASE ~focusClosed
  <2>1. focusQ' = Append(focusQ, f) /\ nativeFocus' = f
    BY <1>4 DEF UI!Enqueue
  <2>2. focusQ' \in Seq(BOOLEAN) /\ focusQ' # <<>> /\ focusQ'[Len(focusQ')] = f
    BY <1>1, <2>1
  <2> QED BY <1>1, <1>2, <2>1, <2>2 DEF UIFocus
<1> QED BY <1>3, <1>4

\* What opening and hiding the window do to each part.
LEMMA UIOpens ==
  ASSUME UIInv, UI!Open, uiQuitting' = uiQuitting
  PROVE  /\ UIFocus' /\ UI!LaunchIsServed'
         /\ wanted' \in BOOLEAN /\ exists' \in BOOLEAN /\ visible' \in BOOLEAN
         /\ (exists => exists')
<1>1. CASE uiQuitting
  <2>1. UNCHANGED <<wanted, exists, visible>> /\ UNCHANGED UI!focusVars
    BY <1>1 DEF UI!Open
  <2>2. UIFocus'
    BY <2>1, UIFocusStays DEF UI!focusVars, UIInv, UIFocusVars
  <2>3. UI!LaunchIsServed'
    BY <1>1 DEF UI!LaunchIsServed
  <2> QED BY <2>1, <2>2, <2>3 DEF UIInv, UIWindow
<1>2. CASE ~uiQuitting
  <2>1. exists' = TRUE /\ visible' = TRUE /\ wanted' = FALSE /\ UI!Enqueue(TRUE)
    BY <1>2 DEF UI!Open
  <2>2. UIFocus'
    BY <2>1, UIEnqueues DEF UIInv
  <2> QED BY <2>1, <2>2 DEF UI!LaunchIsServed
<1> QED BY <1>1, <1>2

\* Hiding it reports the focus, when there is a window.
LEMMA UIHides ==
  ASSUME UIInv, UI!Hide
  PROVE  UIFocus' /\ visible' \in BOOLEAN
<1>1. CASE uiQuitting \/ ~exists
  BY <1>1, UIFocusStays DEF UI!Hide, UI!focusVars, UIInv, UIFocusVars, UIWindow
<1>2. CASE ~(uiQuitting \/ ~exists)
  BY <1>2, UIEnqueues DEF UI!Hide, UIInv
<1> QED BY <1>1, <1>2

\* The steps of the window: launches, the notice, quitting and the focus of the system.
LEMMA UIWindowSteps ==
  ASSUME UIInv,
         \/ UI!LaunchedWithURL \/ UI!ServeLaunch \/ UI!ApplicationStarted \/ UI!OpenRequested
         \/ UI!CloseWindow \/ UI!Acknowledge \/ UI!NoticeHides \/ UI!Shutdown
  PROVE  UIInv'
<1>1. CASE UI!LaunchedWithURL
  <2>1. launches' \in 0..MaxLaunches
    BY <1>1, UIAssumption DEF UI!LaunchedWithURL, UIInv, UIWindow
  <2>2. UIWindow'
    BY <1>1, <2>1 DEF UI!LaunchedWithURL, UI!windowVars, UI!noticeVars, UIInv, UIWindow,
       UI!LaunchIsServed, UI!NoticeIsReleased
  <2> QED BY <1>1, <2>2, UICommandsStay, UIFocusStays DEF UI!LaunchedWithURL, UI!commandVars,
       UI!focusVars, UI!windowVars, UIInv, UICommandVars, UIFocusVars
<1>2. CASE UI!ServeLaunch
  <2>1. /\ UIFocus' /\ UI!LaunchIsServed'
        /\ wanted' \in BOOLEAN /\ exists' \in BOOLEAN /\ visible' \in BOOLEAN
        /\ (exists => exists')
    BY <1>2, UIOpens DEF UI!ServeLaunch
  <2>2. UIWindow'
    BY <1>2, <2>1 DEF UI!ServeLaunch, UI!noticeVars, UIInv, UIWindow, UI!NoticeIsReleased
  <2> QED BY <1>2, <2>1, <2>2, UICommandsStay DEF UI!ServeLaunch, UI!commandVars, UIInv, UICommandVars
<1>3. CASE UI!ApplicationStarted
  <2>1. CASE UI!Open
    <3>1. /\ UIFocus' /\ UI!LaunchIsServed'
          /\ wanted' \in BOOLEAN /\ exists' \in BOOLEAN /\ visible' \in BOOLEAN
          /\ (exists => exists')
      BY <1>3, <2>1, UIOpens DEF UI!ApplicationStarted
    <3>2. UIWindow'
      BY <1>3, <3>1 DEF UI!ApplicationStarted, UI!noticeVars, UIInv, UIWindow, UI!NoticeIsReleased
    <3> QED BY <1>3, <3>1, <3>2, UICommandsStay DEF UI!ApplicationStarted, UI!commandVars, UIInv, UICommandVars
  <2>2. CASE ~protocolPending /\ exists' = TRUE /\ UNCHANGED <<wanted, visible>> /\ UNCHANGED UI!focusVars
    <3>1. UIWindow'
      BY <1>3, <2>2 DEF UI!ApplicationStarted, UI!noticeVars, UIInv, UIWindow, UI!LaunchIsServed, UI!NoticeIsReleased
    <3>2. UIFocus'
      BY <2>2, UIFocusStays DEF UI!focusVars, UIInv, UIFocusVars
    <3> QED BY <1>3, <2>2, <3>1, <3>2, UICommandsStay DEF UI!ApplicationStarted, UI!commandVars, UIInv, UICommandVars
  <2> QED BY <1>3, <2>1, <2>2 DEF UI!ApplicationStarted
<1>4. CASE UI!OpenRequested
  <2>1. /\ UIFocus' /\ UI!LaunchIsServed'
        /\ wanted' \in BOOLEAN /\ exists' \in BOOLEAN /\ visible' \in BOOLEAN
        /\ (exists => exists')
    BY <1>4, UIOpens DEF UI!OpenRequested
  <2>2. UIWindow'
    BY <1>4, <2>1 DEF UI!OpenRequested, UI!noticeVars, UIInv, UIWindow, UI!NoticeIsReleased
  <2> QED BY <1>4, <2>1, <2>2, UICommandsStay DEF UI!OpenRequested, UI!commandVars, UIInv, UICommandVars
<1>5. CASE UI!CloseWindow
  <2>1. CASE acknowledged
    <3>1. UIFocus' /\ visible' \in BOOLEAN
      BY <1>5, <2>1, UIHides DEF UI!CloseWindow
    <3>2. UIWindow' /\ (exists => exists')
      BY <1>5, <2>1, <3>1 DEF UI!CloseWindow, UI!noticeVars, UI!launchVars, UIInv, UIWindow,
         UI!LaunchIsServed, UI!NoticeIsReleased
    <3> QED BY <1>5, <3>1, <3>2, UICommandsStay DEF UI!CloseWindow, UI!commandVars, UIInv, UICommandVars
  <2>2. CASE ~acknowledged
    <3>1. UIWindow' /\ (exists => exists')
      BY <1>5, <2>2 DEF UI!CloseWindow, UI!launchVars, UIInv, UIWindow, UI!LaunchIsServed, UI!NoticeIsReleased
    <3>2. UIFocus'
      BY <1>5, <2>2, UIFocusStays DEF UI!CloseWindow, UI!focusVars, UIInv, UIFocusVars
    <3> QED BY <1>5, <3>1, <3>2, UICommandsStay DEF UI!CloseWindow, UI!commandVars, UIInv, UICommandVars
  <2> QED BY <2>1, <2>2
<1>6. CASE UI!Acknowledge
  <2>1. acknowledged' \in BOOLEAN
    BY <1>6 DEF UI!Acknowledge, UIInv, UIWindow
  <2>2. UIWindow' /\ (exists => exists')
    BY <1>6, <2>1 DEF UI!Acknowledge, UI!launchVars, UI!windowVars, UIInv, UIWindow, UI!LaunchIsServed,
       UI!NoticeIsReleased
  <2> QED BY <1>6, <2>2, UICommandsStay, UIFocusStays DEF UI!Acknowledge, UI!commandVars, UI!focusVars,
       UIInv, UICommandVars, UIFocusVars
<1>7. CASE UI!NoticeHides
  <2>1. UIFocus' /\ visible' \in BOOLEAN
    BY <1>7, UIHides DEF UI!NoticeHides
  <2>2. UIWindow' /\ (exists => exists')
    BY <1>7, <2>1 DEF UI!NoticeHides, UI!launchVars, UIInv, UIWindow, UI!LaunchIsServed, UI!NoticeIsReleased
  <2> QED BY <1>7, <2>1, <2>2, UICommandsStay DEF UI!NoticeHides, UI!commandVars, UIInv, UICommandVars
<1>8. CASE UI!Shutdown
  <2>1. UIWindow' /\ (exists => exists')
    BY <1>8 DEF UI!Shutdown, UI!launchVars, UI!noticeVars, UIInv, UIWindow, UI!LaunchIsServed,
       UI!NoticeIsReleased
  <2>2. UIFocus'
    BY <1>8 DEF UI!Shutdown, UIInv, UIFocus
  <2> QED BY <1>8, <2>1, <2>2, UICommandsStay DEF UI!Shutdown, UI!commandVars, UIInv, UICommandVars
<1> QED BY <1>1, <1>2, <1>3, <1>4, <1>5, <1>6, <1>7, <1>8

\* What is left of the commands once the oldest is gone.
LEMMA UITail ==
  ASSUME NEW S, NEW s \in Seq(S), s # <<>>
  PROVE  /\ Head(s) = s[1] /\ Tail(s) \in Seq(S) /\ Len(s) \in Nat /\ Len(s) > 0 /\ Len(Tail(s)) = Len(s) - 1
         /\ \A n \in 1..Len(Tail(s)) : n + 1 \in 1..Len(s) /\ Tail(s)[n] = s[n + 1]
  OBVIOUS

\* What is in a sequence is one of its values.
LEMMA UIValue ==
  ASSUME NEW S, NEW s \in Seq(S), NEW n \in 1..Len(s)
  PROVE  s[n] \in S
  OBVIOUS

\* A command's number is one of those that have come.
LEMMA UIElement ==
  ASSUME NEW s \in Seq(1..MaxUICommands), NEW n \in 1..Len(s)
  PROVE  s[n] \in 0..MaxUICommands
<1>1. s[n] \in 1..MaxUICommands
  BY UIValue
<1> QED BY <1>1, UIAssumption

\* With none waiting the rest holds of the command last emitted.
LEMMA UINoneWaits ==
  ASSUME petReady' \in BOOLEAN, queued' = <<>>, emitted' \in 0..MaxUICommands,
         uiCommands' \in 0..MaxUICommands, emitted' <= uiCommands'
  PROVE  UICommands'
<1>1. <<>> \in Seq(1..MaxUICommands) /\ Len(<<>>) = 0 /\ 0 <= QueueLimit
  BY UIAssumption
<1>2. Len(queued') = 0 /\ \A n \in 1..0 : FALSE
  BY <1>1
<1> QED BY <1>1, <1>2 DEF UICommands

\* The steps of the commands: queued until the pet is ready, emitted in order.
LEMMA UICommandSteps ==
  ASSUME UIInv, UI!RemoveWindow \/ UI!Dispatch \/ UI!Expire \/ UI!SetPetReady
  PROVE  UIInv'
<1>t. /\ petReady \in BOOLEAN /\ queued \in Seq(1..MaxUICommands)
      /\ emitted \in 0..MaxUICommands /\ uiCommands \in 0..MaxUICommands
      /\ emitted <= uiCommands /\ Len(queued) <= QueueLimit
      /\ queued # <<>> => exists /\ ~petReady
      /\ \A m, n \in 1..Len(queued) : m < n => queued[m] < queued[n]
      /\ \A n \in 1..Len(queued) : emitted < queued[n] /\ queued[n] <= uiCommands
  BY DEF UIInv, UICommands
<1>e. <<>> \in Seq(1..MaxUICommands) /\ Len(<<>>) = 0 /\ 0 <= QueueLimit
  BY UIAssumption
<1>1. CASE UI!RemoveWindow
  <2>1. UIWindow' /\ UIFocus'
    BY <1>1, UIFocusStays DEF UI!RemoveWindow, UI!launchVars, UI!noticeVars, UI!focusVars, UIInv,
       UIWindow, UIFocusVars, UI!LaunchIsServed, UI!NoticeIsReleased
  <2>2. queued' = <<>> /\ petReady' = FALSE /\ UNCHANGED <<emitted, uiCommands>>
    BY <1>1 DEF UI!RemoveWindow
  <2>3. UICommands'
    BY <1>t, <2>2, UINoneWaits
  <2> QED BY <2>1, <2>3 DEF UIInv
<1>2. CASE UI!Dispatch
  <2>1. UIWindow' /\ UIFocus' /\ exists' = exists
    BY <1>2, UIWindowStays, UIFocusStays DEF UI!Dispatch, UI!launchVars, UI!windowVars, UI!noticeVars,
       UI!focusVars, UIInv, UIOtherVars, UIFocusVars
  <2> DEFINE next == uiCommands + 1
             kept == IF Len(queued) = QueueLimit THEN Tail(queued) ELSE queued
  <2>2. uiCommands < MaxUICommands /\ uiCommands' = next /\ petReady' = petReady
    BY <1>2 DEF UI!Dispatch
  <2>3. next \in 1..MaxUICommands /\ next \in 0..MaxUICommands /\ uiCommands < next
    BY <1>t, <2>2, UIAssumption
  <2>4. \A k \in 0..MaxUICommands : k <= uiCommands => k < next /\ k <= next
    BY <1>t, <2>3
  <2>5. CASE ~exists
    <3>1. UNCHANGED <<queued, emitted>>
      BY <1>2, <2>5 DEF UI!Dispatch
    <3> HIDE DEF next
    <3>2. \A n \in 1..Len(queued) : queued[n] <= next
      BY <1>t, <2>4, UIElement
    <3>3. emitted <= next
      BY <1>t, <2>4
    <3>4. UICommands'
      BY <1>t, <2>1, <2>2, <2>3, <3>1, <3>2, <3>3 DEF UICommands
    <3> QED BY <2>1, <3>4 DEF UIInv
  <2>6. CASE exists /\ petReady
    <3>1. queued' = queued /\ emitted' = next /\ queued = <<>>
      BY <1>2, <1>t, <2>6 DEF UI!Dispatch
    <3>2. next <= next
      BY <2>3
    <3> HIDE DEF next
    <3>3. UICommands'
      BY <1>t, <2>2, <2>3, <3>1, <3>2, UINoneWaits
    <3> QED BY <2>1, <3>3 DEF UIInv
  <2>7. CASE exists /\ ~petReady
    <3>1. queued' = Append(kept, next) /\ emitted' = emitted
      BY <1>2, <2>7 DEF UI!Dispatch
    <3>2. /\ kept \in Seq(1..MaxUICommands) /\ Len(kept) < QueueLimit
          /\ \A m, n \in 1..Len(kept) : m < n => kept[m] < kept[n]
          /\ \A n \in 1..Len(kept) : emitted < kept[n] /\ kept[n] <= uiCommands
      <4>1. CASE Len(queued) = QueueLimit
        <5>1. queued # <<>>
          BY <1>t, <4>1, UIAssumption
        <5>2. /\ Tail(queued) \in Seq(1..MaxUICommands) /\ Len(Tail(queued)) = Len(queued) - 1
              /\ \A n \in 1..Len(Tail(queued)) : n + 1 \in 1..Len(queued) /\ Tail(queued)[n] = queued[n + 1]
          BY <1>t, <5>1, UITail
        <5>3. Len(Tail(queued)) < QueueLimit
          BY <4>1, <5>2, UIAssumption
        <5>4. \A m, n \in 1..Len(Tail(queued)) : m < n => Tail(queued)[m] < Tail(queued)[n]
          <6> TAKE m, n \in 1..Len(Tail(queued))
          <6>1. m < n => m + 1 < n + 1
            BY <5>2
          <6> QED BY <1>t, <5>2, <6>1
        <5> QED BY <1>t, <4>1, <5>2, <5>3, <5>4
      <4>2. CASE Len(queued) # QueueLimit
        BY <1>t, <4>2, UIAssumption
      <4> QED BY <4>1, <4>2
    <3> HIDE DEF next, kept
    <3>3. /\ queued' \in Seq(1..MaxUICommands) /\ Len(queued') = Len(kept) + 1
          /\ queued'[Len(kept) + 1] = next
          /\ \A n \in 1..Len(kept) : queued'[n] = kept[n]
      BY <2>3, <3>1, <3>2
    <3>4. Len(queued') <= QueueLimit
      BY <3>2, <3>3, UIAssumption
    <3>5. \A n \in 1..Len(queued') : n \in 1..Len(kept) \/ n = Len(kept) + 1
      BY <3>2, <3>3
    <3>6. \A n \in 1..Len(queued') : emitted' < queued'[n] /\ queued'[n] <= uiCommands'
      <4> TAKE n \in 1..Len(queued')
      <4>1. CASE n \in 1..Len(kept)
        <5>1. kept[n] \in 0..MaxUICommands
          BY <3>2, <4>1, UIElement
        <5> QED BY <2>2, <2>4, <3>1, <3>2, <3>3, <4>1, <5>1
      <4>2. CASE n = Len(kept) + 1
        <5>1. emitted < next /\ next <= next
          BY <1>t, <2>3, <2>4
        <5> QED BY <2>2, <3>1, <3>3, <4>2, <5>1
      <4> QED BY <3>5, <4>1, <4>2
    <3>7. \A m, n \in 1..Len(queued') : m < n => queued'[m] < queued'[n]
      <4> TAKE m, n \in 1..Len(queued')
      <4>1. CASE n \in 1..Len(kept)
        <5>1. m < n => m \in 1..Len(kept)
          BY <3>2, <3>3, <4>1
        <5> QED BY <3>2, <3>3, <4>1, <5>1
      <4>2. CASE n = Len(kept) + 1
        <5>1. m < n => m \in 1..Len(kept)
          BY <3>2, <3>3, <4>2
        <5>2. m < n => kept[m] \in 0..MaxUICommands /\ kept[m] <= uiCommands
          BY <3>2, <5>1, UIElement
        <5> QED BY <2>4, <3>3, <4>2, <5>1, <5>2
      <4> QED BY <3>5, <4>1, <4>2
    <3>8. emitted' <= uiCommands'
      BY <1>t, <2>2, <2>4, <3>1
    <3> QED BY <1>t, <2>1, <2>2, <2>3, <2>7, <3>1, <3>3, <3>4, <3>6, <3>7, <3>8 DEF UICommands, UIInv
  <2> QED BY <1>t, <2>1, <2>5, <2>6, <2>7
<1>3. CASE UI!Expire
  <2>1. UIWindow' /\ UIFocus' /\ exists' = exists
    BY <1>3, UIWindowStays, UIFocusStays DEF UI!Expire, UI!launchVars, UI!windowVars, UI!noticeVars,
       UI!focusVars, UIInv, UIOtherVars, UIFocusVars
  <2>2. queued # <<>> /\ queued' = Tail(queued) /\ UNCHANGED <<petReady, emitted, uiCommands>>
    BY <1>3 DEF UI!Expire
  <2>3. /\ queued' \in Seq(1..MaxUICommands) /\ Len(queued') = Len(queued) - 1
        /\ \A n \in 1..Len(queued') : n + 1 \in 1..Len(queued) /\ queued'[n] = queued[n + 1]
    BY <1>t, <2>2, UITail
  <2>4. \A m, n \in 1..Len(queued') : m < n => queued'[m] < queued'[n]
    <3> TAKE m, n \in 1..Len(queued')
    <3>1. m < n => m + 1 < n + 1
      BY <2>3
    <3> QED BY <1>t, <2>3, <3>1
  <2>5. Len(queued') <= QueueLimit
    BY <1>t, <2>3, UIAssumption
  <2> QED BY <1>t, <2>1, <2>2, <2>3, <2>4, <2>5 DEF UICommands, UIInv
<1>4. CASE UI!SetPetReady
  <2>1. UIWindow' /\ UIFocus' /\ exists' = exists /\ exists
    BY <1>4, UIWindowStays, UIFocusStays DEF UI!SetPetReady, UI!launchVars, UI!windowVars, UI!noticeVars,
       UI!focusVars, UIInv, UIOtherVars, UIFocusVars
  <2>2. petReady' = ~petReady /\ uiCommands' = uiCommands
    BY <1>4 DEF UI!SetPetReady
  <2>3. CASE ~petReady /\ queued # <<>>
    <3>1. emitted' = queued[Len(queued)] /\ queued' = <<>>
      BY <1>4, <2>3 DEF UI!SetPetReady
    <3>2. Len(queued) \in 1..Len(queued)
      BY <1>t, <2>3
    <3>3. emitted' \in 0..MaxUICommands /\ emitted' <= uiCommands'
      BY <1>t, <2>2, <3>1, <3>2, UIElement
    <3>4. UICommands'
      BY <1>t, <2>2, <3>1, <3>3, UINoneWaits
    <3> QED BY <2>1, <3>4 DEF UIInv
  <2>4. CASE ~(~petReady /\ queued # <<>>)
    <3>1. UNCHANGED <<queued, emitted>> /\ (queued # <<>> => ~petReady)
      BY <1>4, <1>t, <2>4 DEF UI!SetPetReady
    <3> QED BY <1>t, <2>1, <2>2, <2>4, <3>1 DEF UICommands, UIInv
  <2> QED BY <2>3, <2>4
<1> QED BY <1>1, <1>2, <1>3, <1>4

\* The steps of the reports: sent one by one, and closed.
LEMMA UIFocusSteps ==
  ASSUME UIInv, UI!FocusEvent \/ UI!SendBegins \/ UI!SendEnds
  PROVE  UIInv'
<1>o. UIWindow' /\ UICommands'
  <2>1. UNCHANGED UI!launchVars /\ UNCHANGED UI!windowVars /\ UNCHANGED UI!noticeVars
        /\ UNCHANGED UI!commandVars
    BY DEF UI!FocusEvent, UI!SendBegins, UI!SendEnds
  <2>2. UNCHANGED <<UIOtherVars, exists>> /\ UNCHANGED UICommandVars /\ exists' = exists
    BY <2>1 DEF UI!launchVars, UI!windowVars, UI!noticeVars, UI!commandVars, UIOtherVars, UICommandVars
  <2> QED BY <2>2, UIWindowStays, UICommandsStay DEF UIInv
<1>1. CASE UI!FocusEvent
  <2>1. (~nativeFocus) \in BOOLEAN
    OBVIOUS
  <2>2. UIFocus'
    BY <1>1, <2>1, UIEnqueues DEF UI!FocusEvent, UIInv
  <2> QED BY <1>o, <2>2 DEF UIInv
<1>2. CASE UI!SendBegins
  <2>1. /\ focusQ # <<>> /\ sending' = IF Head(focusQ) THEN "focused" ELSE "lost"
        /\ focusQ' = Tail(focusQ) /\ UNCHANGED <<nativeFocus, reported, focusClosed, focusEvents>>
    BY <1>2 DEF UI!SendBegins
  <2>2. /\ focusQ \in Seq(BOOLEAN) /\ nativeFocus \in BOOLEAN
        /\ focusQ[Len(focusQ)] = nativeFocus
    BY <2>1 DEF UIInv, UIFocus
  <2>3. /\ focusQ' \in Seq(BOOLEAN) /\ Len(focusQ') = Len(focusQ) - 1
        /\ focusQ' # <<>> => focusQ'[Len(focusQ')] = focusQ[Len(focusQ)]
        /\ focusQ' = <<>> => Len(focusQ) = 1
        /\ Head(focusQ) = focusQ[1]
    <3>1. /\ Head(focusQ) = focusQ[1] /\ Tail(focusQ) \in Seq(BOOLEAN) /\ Len(focusQ) \in Nat /\ Len(focusQ) > 0
          /\ Len(Tail(focusQ)) = Len(focusQ) - 1
          /\ \A n \in 1..Len(Tail(focusQ)) : n + 1 \in 1..Len(focusQ) /\ Tail(focusQ)[n] = focusQ[n + 1]
      BY <2>1, <2>2, UITail
    <3>2. Tail(focusQ) # <<>> => Len(Tail(focusQ)) \in 1..Len(Tail(focusQ))
      BY <3>1
    <3>3. Tail(focusQ) # <<>> => Tail(focusQ)[Len(Tail(focusQ))] = focusQ[Len(focusQ)]
      <4> SUFFICES ASSUME Tail(focusQ) # <<>>
                   PROVE  Tail(focusQ)[Len(Tail(focusQ))] = focusQ[Len(focusQ)]
        OBVIOUS
      <4>1. Tail(focusQ)[Len(Tail(focusQ))] = focusQ[Len(Tail(focusQ)) + 1]
        BY <3>1, <3>2
      <4>2. Len(Tail(focusQ)) + 1 = Len(focusQ)
        BY <3>1
      <4> QED BY <4>1, <4>2
    <3>4. Tail(focusQ) = <<>> => Len(focusQ) = 1
      <4>1. Len(<<>>) = 0
        OBVIOUS
      <4>2. \A l \in Nat : l - 1 = 0 => l = 1
        OBVIOUS
      <4>3. Tail(focusQ) = <<>> => Len(Tail(focusQ)) = 0
        BY <4>1, Zenon
      <4> QED BY <3>1, <4>2, <4>3
    <3> QED BY <2>1, <3>1, <3>3, <3>4
  <2>4. focusQ' = <<>> => (sending' = "focused") = nativeFocus
    BY <2>1, <2>2, <2>3
  <2>5. sending' \in UI!Focus /\ sending' # "none"
    BY <2>1 DEF UI!Focus
  <2>6. UIFocus'
    BY <2>1, <2>2, <2>3, <2>4, <2>5 DEF UIInv, UIFocus
  <2> QED BY <1>o, <2>6 DEF UIInv
<1>3. CASE UI!SendEnds
  <2>1. /\ sending # "none" /\ sending' = "none" /\ reported' = (sending = "focused")
        /\ UNCHANGED <<nativeFocus, focusQ, focusClosed, focusEvents>>
    BY <1>3 DEF UI!SendEnds
  <2>2. UIFocus'
    BY <2>1 DEF UIInv, UIFocus, UI!Focus
  <2> QED BY <1>o, <2>2 DEF UIInv
<1> QED BY <1>1, <1>2, <1>3

\* It holds at first.
LEMMA UIStart == UI!Init => UIInv
<1> SUFFICES ASSUME UI!Init PROVE UIInv
  OBVIOUS
<1>1. 0 \in 0..MaxLaunches /\ 0 \in 0..MaxUICommands /\ 0 \in 0..MaxFocusEvents /\ 0 <= QueueLimit
  BY UIAssumption
<1>2. UIWindow
  BY <1>1 DEF UI!Init, UIWindow, UI!LaunchIsServed, UI!NoticeIsReleased
<1>3. UICommands
  <2>1. queued = <<>> /\ emitted = 0 /\ uiCommands = 0 /\ petReady = FALSE
    BY DEF UI!Init
  <2>2. <<>> \in Seq(1..MaxUICommands) /\ Len(<<>>) = 0 /\ 0 <= 0
    OBVIOUS
  <2>3. Len(queued) = 0 /\ \A n \in 1..0 : FALSE
    BY <2>1, <2>2
  <2> QED BY <1>1, <2>1, <2>2, <2>3 DEF UICommands
<1>4. UIFocus
  <2>1. <<>> \in Seq(BOOLEAN)
    OBVIOUS
  <2> QED BY <1>1, <2>1 DEF UI!Init, UIFocus, UI!Focus
<1> QED BY <1>2, <1>3, <1>4 DEF UIInv

\* Every step keeps it.
LEMMA UIStep == UIInv /\ [UI!Next]_uiVars => UIInv'
<1> SUFFICES ASSUME UIInv, [UI!Next]_uiVars PROVE UIInv'
  OBVIOUS
<1>1. CASE UI!Next
  BY <1>1, UIWindowSteps, UICommandSteps, UIFocusSteps DEF UI!Next
<1>2. CASE UNCHANGED uiVars
  BY <1>2, UIWindowStays, UICommandsStay, UIFocusStays DEF uiVars, UIInv, UIOtherVars, UICommandVars,
     UIFocusVars
<1> QED BY <1>1, <1>2

\* What it says of the user interface.
LEMMA UISafe ==
  ASSUME UIInv
  PROVE  /\ UI!LaunchIsServed /\ UI!NoticeIsReleased /\ UI!CommandsWaitInOrder /\ UI!FocusIsKnown
         /\ UI!TypeOK
<1>1. UI!LaunchIsServed /\ UI!NoticeIsReleased
  BY DEF UIInv, UIWindow
<1>2. /\ queued \in Seq(1..MaxUICommands) /\ DOMAIN queued = 1..Len(queued)
      /\ emitted \in 0..MaxUICommands
  BY DEF UIInv, UICommands
<1>3. UI!CommandsWaitInOrder
  BY <1>2 DEF UIInv, UICommands, UI!CommandsWaitInOrder
<1>4. UI!FocusIsKnown
  BY DEF UIInv, UIFocus, UI!FocusIsKnown
<1>5. UI!TypeOK
  <2>1. \A n \in DOMAIN queued : queued[n] \in 1..MaxUICommands
    BY <1>2, UIValue
  <2>2. /\ {appStarted, protocolPending, wanted, exists, visible, uiQuitting} \subseteq BOOLEAN
        /\ {noticeBusy, acknowledged, petReady, nativeFocus, reported, focusClosed} \subseteq BOOLEAN
    BY DEF UIInv, UIWindow, UICommands, UIFocus
  <2> QED BY <2>1, <2>2 DEF UIInv, UIWindow, UICommands, UIFocus, UI!TypeOK
<1> QED BY <1>1, <1>3, <1>4, <1>5

-----------------------------------------------------------------------------
(* Settings: what the UI shows of the preferences.                         *)

Announcing == {"notify", "reading", "publishing"}

\* One call at a time reads and publishes, the one that holds the publisher.  While what is
\* shown is not current, a call that has yet to read, or that has read the current values,
\* will show them; what was read is outdated only while another call has yet to announce.
SettingsShown ==
    /\ \A c \in Callers : calls[c].at \in {"reading", "publishing"} <=> pubBy = c
    /\ \/ shown = prefs
       \/ \E c \in Callers : \/ calls[c].at \in {"notify", "reading"}
                             \/ calls[c].at = "publishing" /\ calls[c].copy = prefs
    /\ \A c \in Callers :
          calls[c].at = "publishing" =>
              calls[c].copy = prefs \/ \E d \in Callers : calls[d].at = "notify"

\* A call that announces nothing, before or after, changes nothing of that.
LEMMA ShownApart ==
  ASSUME SettingsShown, NEW c \in Callers, calls \in [Callers -> SettingsCalls],
         calls[c].at \notin Announcing, calls'[c].at \notin Announcing,
         \A d \in Callers \ {c} : calls'[d] = calls[d], UNCHANGED <<prefs, shown, pubBy>>
  PROVE  SettingsShown'
<1>1. \A d \in Callers : calls'[d].at \in Announcing \/ calls[d].at \in Announcing => calls'[d] = calls[d]
  OBVIOUS
<1> QED BY <1>1 DEF SettingsShown, Announcing

\* Every step keeps it.
LEMMA ShownStep ==
  ASSUME SettingsInv, SettingsShown, [Prefs!Next]_settingsVars
  PROVE  SettingsShown'
<1>t. /\ calls \in [Callers -> SettingsCalls] /\ Prefs!NoCaller \notin Callers
      /\ Prefs!Resting.at = "idle"
  BY SettingsAssumption, RestingIs DEF SettingsInv, SettingsTyped, Prefs!NoCaller
<1>1. ASSUME NEW c \in Callers, NEW f, NEW v, Prefs!Ask(c, f, v) PROVE SettingsShown'
  <2>1. /\ calls[c].at = "idle" /\ calls'[c].at = "ready"
        /\ \A d \in Callers \ {c} : calls'[d] = calls[d]
        /\ UNCHANGED <<prefs, shown, pubBy>>
    BY <1>t, <1>1 DEF Prefs!Ask, Prefs!Resting
  <2> QED BY <1>t, <2>1, ShownApart DEF Announcing
<1>2. ASSUME NEW c \in Callers,
             \/ Prefs!AskChannel(c) \/ Prefs!SwitchUpdater(c) \/ Prefs!Save(c)
             \/ Prefs!SaveFails(c) \/ Prefs!ImportAppearanceMode(c) \/ Prefs!Hook(c)
      PROVE  SettingsShown'
  <2>1. /\ UNCHANGED <<prefs, shown, pubBy>>
        /\ \A d \in Callers \ {c} : calls'[d] = calls[d]
        /\ calls[c].at \in {"idle", "switching", "ready", "hook"}
        /\ calls'[c].at \in {"idle", "switching", "ready", "saved"}
    <3>1. CASE Prefs!AskChannel(c)
      BY <1>t, <3>1 DEF Prefs!AskChannel, Prefs!Resting
    <3>2. CASE Prefs!SwitchUpdater(c)
      BY <1>t, <3>2 DEF Prefs!SwitchUpdater, SettingsCalls
    <3>3. CASE Prefs!Save(c)
      BY <1>t, <3>3 DEF Prefs!Save, Prefs!SaveOf, SettingsCalls
    <3>4. CASE Prefs!SaveFails(c) \/ Prefs!Hook(c)
      BY <1>t, <3>4 DEF Prefs!SaveFails, Prefs!Hook
    <3>5. CASE Prefs!ImportAppearanceMode(c)
      BY <1>t, <3>5 DEF Prefs!ImportAppearanceMode, Prefs!Resting
    <3> QED BY <1>2, <3>1, <3>2, <3>3, <3>4, <3>5
  <2> QED BY <1>t, <2>1, ShownApart DEF Announcing
<1>3. ASSUME NEW c \in Callers, Prefs!Commit(c) PROVE SettingsShown'
  <2>1. /\ calls[c].at = "saved" /\ calls'[c].at = "notify" /\ pubBy' = pubBy
        /\ \A d \in Callers \ {c} : calls'[d] = calls[d]
    BY <1>t, <1>3 DEF Prefs!Commit
  <2> QED BY <2>1 DEF SettingsShown
<1>4. ASSUME NEW c \in Callers, Prefs!PublishLock(c) PROVE SettingsShown'
  <2>1. /\ calls[c].at = "notify" /\ calls'[c].at = "reading" /\ pubBy = Prefs!NoCaller /\ pubBy' = c
        /\ \A d \in Callers \ {c} : calls'[d] = calls[d] /\ UNCHANGED <<prefs, shown>>
    BY <1>t, <1>4 DEF Prefs!PublishLock
  <2>2. \A d \in Callers : calls'[d].at \in {"reading", "publishing"} <=> d = c
    BY <1>t, <2>1 DEF SettingsShown
  <2> QED BY <2>1, <2>2 DEF SettingsShown
<1>5. ASSUME NEW c \in Callers, Prefs!PublishRead(c) PROVE SettingsShown'
  <2>1. /\ calls[c].at = "reading" /\ calls'[c].at = "publishing" /\ calls'[c].copy = prefs
        /\ \A d \in Callers \ {c} : calls'[d] = calls[d]
        /\ UNCHANGED <<prefs, shown, pubBy>>
    BY <1>t, <1>5 DEF Prefs!PublishRead, SettingsCalls
  <2>2. \A d \in Callers \ {c} : calls'[d].at # "publishing"
    BY <2>1 DEF SettingsShown
  <2> QED BY <2>1, <2>2 DEF SettingsShown
<1>6. ASSUME NEW c \in Callers, Prefs!Publish(c) PROVE SettingsShown'
  <2>1. /\ calls[c].at = "publishing" /\ calls'[c].at = "hook" /\ shown' = calls[c].copy
        /\ \A d \in Callers \ {c} : calls'[d] = calls[d]
        /\ prefs' = prefs /\ pubBy = c /\ pubBy' = Prefs!NoCaller
    BY <1>t, <1>6 DEF Prefs!Publish, SettingsShown
  <2>2. \A d \in Callers : calls'[d].at \notin {"reading", "publishing"}
    BY <2>1 DEF SettingsShown
  <2>3. shown' = prefs' \/ \E d \in Callers : calls'[d].at = "notify"
    BY <2>1 DEF SettingsShown
  <2> QED BY <1>t, <2>1, <2>2, <2>3 DEF SettingsShown
<1>7. CASE Prefs!Crash
  <2>1. /\ shown' = prefs' /\ pubBy' = Prefs!NoCaller
        /\ \A c \in Callers : calls'[c] = Prefs!Resting
    BY <1>7 DEF Prefs!Crash
  <2> QED BY <1>t, <2>1 DEF SettingsShown
<1>8. CASE UNCHANGED settingsVars
  BY <1>8 DEF settingsVars, SettingsShown
<1> QED BY <1>1, <1>2, <1>3, <1>4, <1>5, <1>6, <1>7, <1>8 DEF Prefs!Next, Prefs!CallerStep,
       Prefs!SetLocale, Prefs!SetAppearance, Prefs!SetPetPreference

\* It holds at first.
LEMMA ShownStart == Prefs!Init => SettingsShown
<1> SUFFICES ASSUME Prefs!Init PROVE SettingsShown
  OBVIOUS
<1>1. /\ shown = prefs /\ pubBy = Prefs!NoCaller /\ Prefs!NoCaller \notin Callers
      /\ \A c \in Callers : calls[c].at = "idle"
  BY SettingsAssumption DEF Prefs!Init, Prefs!Resting, Prefs!NoCaller
<1> QED BY <1>1 DEF SettingsShown

\* What it says of the preferences shown.
LEMMA ShownSafe == SettingsShown => Prefs!ShownIsCurrent
  BY DEF SettingsShown, Prefs!ShownIsCurrent

-----------------------------------------------------------------------------
(* Acquisition: the calls, their statuses and the plugin's source.         *)

AcquireResults == {"none", "failed", "canceled", "succeeded"}
AcquireWork == {"stage", "attempt", "save", "command", "record"}
AcquireJobs == [at : {"new", "refused", "gate", "returned", "done"} \cup AcquireWork,
                kind : {"none", "dsh", "refresh", "add", "remove"}, source : Acquire!Sources,
                route : {"official", "mirror"}, node : BOOLEAN, ctx : BOOLEAN, accept : BOOLEAN,
                result : AcquireResults]
Silent == [late |-> FALSE, terminals |-> {}, count |-> 0]
Ended(result) == [late |-> FALSE, terminals |-> {result}, count |-> 1]

\* A call that no one has answered has published no terminal status, and one that reports has
\* published its own when it is done.  A runtime operation runs no plugin command, a plugin
\* operation installs no runtime, and the route through the registries is for public sources.
AcquireCall(o) ==
    /\ statuses[o] = Silent \/ (job[o].at = "done" /\ statuses[o] = Ended(job[o].result))
    /\ job[o].at = "done" /\ job[o].kind # "refresh" => statuses[o] = Ended(job[o].result)
    /\ job[o].result # "none" => job[o].at \in {"returned", "done"}
    /\ o \in RuntimeOps => /\ job[o].at \notin {"command", "record"} /\ job[o].source = "public"
                           /\ job[o].kind \in {"none", "dsh", "refresh"}
    /\ o \in PluginOps => /\ job[o].at \notin {"save", "refused"} /\ ~job[o].node
                          /\ job[o].kind \in {"none", "add", "remove"}
                          /\ job[o].at \in {"stage", "attempt"} => job[o].source = "public"
                          /\ job[o].at = "command" /\ job[o].kind # "remove" =>
                                 job[o].source # "public"
                          /\ job[o].at = "record" => plugin = Acquire!SourceOf(o)

\* The record names the plugin's source unless the plugin is gone, a call that changed it has
\* failed, or the record of it is still to be written.
AcquireSource ==
    \/ provenance = plugin /\ provenanceFile = plugin
    \/ plugin = Acquire!Absent
    \/ \E o \in PluginOps : job[o].result \in {"failed", "canceled"} \/ job[o].at = "record"

AcquireInv ==
    /\ job \in [Acquire!Ops -> AcquireJobs]
    /\ DOMAIN statuses = Acquire!Ops
    /\ statuses = [o \in Acquire!Ops |-> statuses[o]]
    /\ cancelCall \in RuntimeOps \cup {Acquire!Nobody}
    /\ runtimeCancel \in RuntimeOps \cup {Acquire!Nobody}
    /\ opGate \in Acquire!Ops \cup {Acquire!Nobody}
    /\ \A o \in RuntimeOps : runtimeCancel = o <=> job[o].at \notin {"new", "refused", "done"}
    /\ \A o \in Acquire!Ops : opGate = o <=> job[o].at \in AcquireWork
    /\ staging = {o \in Acquire!Ops : job[o].at = "attempt"}
    /\ \A o \in Acquire!Ops : AcquireCall(o)
    /\ AcquireSource

\* What a step of one call has to keep: its own part, the slot, the gate and the directory.
LEMMA AcquireMoves ==
  ASSUME AcquireInv, NEW o \in Acquire!Ops,
         job' \in [Acquire!Ops -> AcquireJobs],
         \A d \in Acquire!Ops \ {o} : job'[d] = job[d],
         statuses' = statuses \/ \E s : statuses' = [statuses EXCEPT ![o] = s],
         cancelCall' = cancelCall \/ cancelCall' = Acquire!Nobody,
         \/ runtimeCancel' = runtimeCancel /\ (job'[o].at \in {"new", "refused", "done"}
                                                <=> job[o].at \in {"new", "refused", "done"})
         \/ runtimeCancel' = runtimeCancel /\ o \in PluginOps
         \/ /\ runtimeCancel = Acquire!Nobody /\ runtimeCancel' = o /\ o \in RuntimeOps
            /\ job'[o].at \notin {"new", "refused", "done"}
         \/ /\ runtimeCancel = o /\ runtimeCancel' = Acquire!Nobody
            /\ job'[o].at \in {"new", "refused", "done"},
         \/ opGate' = opGate /\ (job'[o].at \in AcquireWork <=> job[o].at \in AcquireWork)
         \/ opGate = Acquire!Nobody /\ opGate' = o /\ job'[o].at \in AcquireWork
         \/ job[o].at \in AcquireWork /\ opGate' = Acquire!Nobody /\ job'[o].at \notin AcquireWork,
         staging' = IF job'[o].at = "attempt" THEN staging \cup {o} ELSE staging \ {o},
         plugin' = plugin \/ job[o].at \in AcquireWork,
         AcquireCall(o)', AcquireSource'
  PROVE  AcquireInv'
<1>n. Acquire!Nobody \notin Acquire!Ops /\ RuntimeOps \subseteq Acquire!Ops /\ RuntimeOps \cap PluginOps = {}
  BY AcquireAssumption DEF Acquire!Nobody, Acquire!Ops
<1>t. /\ job \in [Acquire!Ops -> AcquireJobs]
      /\ DOMAIN statuses = Acquire!Ops
      /\ statuses = [d \in Acquire!Ops |-> statuses[d]]
      /\ cancelCall \in RuntimeOps \cup {Acquire!Nobody}
      /\ runtimeCancel \in RuntimeOps \cup {Acquire!Nobody}
      /\ opGate \in Acquire!Ops \cup {Acquire!Nobody}
      /\ \A d \in RuntimeOps : runtimeCancel = d <=> job[d].at \notin {"new", "refused", "done"}
      /\ \A d \in Acquire!Ops : opGate = d <=> job[d].at \in AcquireWork
      /\ staging = {d \in Acquire!Ops : job[d].at = "attempt"}
      /\ \A d \in Acquire!Ops : AcquireCall(d)
  BY DEF AcquireInv
<1>1. /\ DOMAIN statuses' = Acquire!Ops
      /\ statuses' = [d \in Acquire!Ops |-> statuses'[d]]
      /\ \A d \in Acquire!Ops \ {o} : statuses'[d] = statuses[d]
  <2>1. CASE statuses' = statuses
    BY <1>t, <2>1
  <2>2. CASE \E s : statuses' = [statuses EXCEPT ![o] = s]
    BY <1>t, <2>2
  <2> QED BY <2>1, <2>2
<1>2. /\ runtimeCancel' \in RuntimeOps \cup {Acquire!Nobody}
      /\ \A d \in RuntimeOps : runtimeCancel' = d <=> job'[d].at \notin {"new", "refused", "done"}
  BY <1>n, <1>t
<1>3. /\ opGate' \in Acquire!Ops \cup {Acquire!Nobody}
      /\ \A d \in Acquire!Ops : opGate' = d <=> job'[d].at \in AcquireWork
  BY <1>n, <1>t
<1>4. staging' = {d \in Acquire!Ops : job'[d].at = "attempt"}
  BY <1>t
<1>5. ASSUME NEW d \in Acquire!Ops \ {o} PROVE AcquireCall(d)'
  <2>1. AcquireCall(d) /\ job'[d] = job[d] /\ statuses'[d] = statuses[d]
    BY <1>1, <1>t
  <2>2. job[d].at = "record" => plugin' = plugin
    BY <1>t DEF AcquireWork
  <2> QED BY <2>1, <2>2 DEF AcquireCall, Acquire!SourceOf
<1> QED BY <1>t, <1>1, <1>2, <1>3, <1>4, <1>5 DEF AcquireInv

\* What is known of a call, and of the calls apart from it.
LEMMA AcquireKnown ==
  ASSUME AcquireInv, NEW o \in Acquire!Ops
  PROVE  /\ job \in [Acquire!Ops -> AcquireJobs] /\ job[o] \in AcquireJobs /\ AcquireCall(o)
         /\ opGate = o <=> job[o].at \in AcquireWork
         /\ staging = IF job[o].at = "attempt" THEN staging \cup {o} ELSE staging \ {o}
         /\ o \in RuntimeOps => (runtimeCancel = o <=> job[o].at \notin {"new", "refused", "done"})
         /\ o \in RuntimeOps \cup PluginOps /\ ~(o \in RuntimeOps /\ o \in PluginOps)
         /\ o # Acquire!Nobody
         /\ job[o].at # "done" => statuses[o] = Silent
<1>1. AcquireCall(o)
  BY DEF AcquireInv
<1>2. job[o].at # "done" => statuses[o] = Silent
  BY <1>1 DEF AcquireCall
<1> QED BY <1>1, <1>2, AcquireAssumption DEF AcquireInv, Acquire!Ops, Acquire!Nobody

\* The source stays on record while neither it nor the record changes and no record is
\* written.
LEMMA AcquireSourceStays ==
  ASSUME AcquireInv, NEW o \in Acquire!Ops, job' \in [Acquire!Ops -> AcquireJobs],
         \A d \in Acquire!Ops \ {o} : job'[d] = job[d],
         job[o].at # "record", job[o].result = job'[o].result \/ job[o].result = "none",
         UNCHANGED <<plugin, provenance, provenanceFile>>
  PROVE  AcquireSource'
<1>1. \A d \in PluginOps : d \in Acquire!Ops
  BY DEF Acquire!Ops
<1> QED BY <1>1 DEF AcquireInv, AcquireSource

\* A field set to what it holds.
LEMMA AcquireUnchanged ==
  ASSUME NEW L, NEW T, NEW C, NEW v, NEW r \in [late : L, terminals : T, count : C], r.late = v
  PROVE  [r EXCEPT !.late = v] = r
  OBVIOUS

\* The first terminal status is one.
LEMMA AcquireCounted ==
  ASSUME NEW late, NEW x, NEW r, r = [late |-> late, terminals |-> {}, count |-> 0]
  PROVE  [r EXCEPT !.terminals = r.terminals \cup {x}, !.count = r.count + 1]
         = [late |-> late, terminals |-> {x}, count |-> 1]
<1>1. r.terminals = {} /\ r.count = 0
  OBVIOUS
<1>2. r.terminals \cup {x} = {x} /\ r.count + 1 = 1
  BY <1>1
<1>3. ASSUME NEW y, NEW z, NEW q, q = [r EXCEPT !.terminals = y, !.count = z]
      PROVE  q = [late |-> late, terminals |-> y, count |-> z]
  <2>1. DOMAIN r = {"late", "terminals", "count"}
    OBVIOUS
  <2>2. DOMAIN q = DOMAIN r /\ q.late = late /\ q.terminals = y /\ q.count = z
    BY <1>3, <2>1
  <2>3. q = [f \in DOMAIN r |-> q[f]]
    BY <1>3
  <2> QED BY <2>1, <2>2, <2>3
<1> QED BY <1>2, <1>3

\* A progress report of a call that has not ended is its last so far.
LEMMA AcquireProgress ==
  ASSUME AcquireInv, NEW o \in Acquire!Ops, job[o].at # "done"
  PROVE  /\ Acquire!Progress(o)[o] = Silent
         /\ \E s : Acquire!Progress(o) = [statuses EXCEPT ![o] = s]
<1>1. statuses[o] = Silent /\ o \in DOMAIN statuses
  BY AcquireKnown DEF AcquireInv
<1>2. Acquire!Progress(o) = [statuses EXCEPT ![o] = [statuses[o] EXCEPT !.late = @ \/ (statuses[o].count > 0)]]
  BY DEF Acquire!Progress
<1>3. [statuses[o] EXCEPT !.late = @ \/ (statuses[o].count > 0)] = Silent
  <2>1. (statuses[o].late \/ (statuses[o].count > 0)) = FALSE
    <3>1. statuses[o].late = FALSE /\ statuses[o].count = 0
      BY <1>1 DEF Silent
    <3>2. ~(statuses[o].count > 0)
      BY <3>1
    <3> QED BY <3>1, <3>2, Zenon
  <2>2. [Silent EXCEPT !.late = FALSE] = Silent
    <3>1. Silent \in [late : {FALSE}, terminals : {{}}, count : {0}] /\ Silent.late = FALSE
      BY DEF Silent
    <3> QED BY <3>1, AcquireUnchanged
  <2> QED BY <1>1, <2>1, <2>2
<1> QED BY <1>1, <1>2, <1>3

\* A call that fails returns, with its context's word for it.
LEMMA AcquireFails ==
  ASSUME AcquireInv, NEW o \in Acquire!Ops, Acquire!Fails(o), job[o].at # "done"
  PROVE  /\ job' \in [Acquire!Ops -> AcquireJobs]
         /\ \A d \in Acquire!Ops \ {o} : job'[d] = job[d]
         /\ job'[o].at = "returned" /\ job'[o].result \in {"failed", "canceled"}
         /\ job'[o].source = job[o].source /\ job'[o].kind = job[o].kind /\ job'[o].node = job[o].node
  BY AcquireKnown DEF Acquire!Fails, AcquireJobs, AcquireResults

\* A step to another place changes nothing else of the call.
LEMMA AcquireGoes ==
  ASSUME AcquireInv, NEW o \in Acquire!Ops, NEW place, Acquire!To(o, place),
         place \in {"new", "refused", "gate", "returned", "done"} \cup AcquireWork
  PROVE  /\ job' \in [Acquire!Ops -> AcquireJobs]
         /\ \A d \in Acquire!Ops \ {o} : job'[d] = job[d]
         /\ job'[o] = [job[o] EXCEPT !.at = place] /\ job'[o].at = place
         /\ job'[o].result = job[o].result /\ job'[o].route = job[o].route
         /\ job'[o].source = job[o].source /\ job'[o].kind = job[o].kind /\ job'[o].node = job[o].node
  BY AcquireKnown DEF Acquire!To, AcquireJobs

\* A failed call at work gives the gate back; what a plugin command has changed is told by
\* its failure.
LEMMA AcquireGivesUp ==
  ASSUME AcquireInv, NEW o \in Acquire!Ops, Acquire!Fails(o),
         \/ job[o].at \in AcquireWork /\ opGate' = Acquire!Nobody
         \/ job[o].at = "gate" /\ opGate' = opGate,
         staging' = staging \ {o}, statuses' = statuses,
         o \in PluginOps \/ plugin' = plugin, plugin' = plugin \/ job[o].at \in AcquireWork,
         UNCHANGED <<runtimeCancel, cancelCall, provenance, provenanceFile>>
  PROVE  AcquireInv'
<1>1. /\ job' \in [Acquire!Ops -> AcquireJobs]
      /\ \A d \in Acquire!Ops \ {o} : job'[d] = job[d]
      /\ job'[o].at = "returned" /\ job'[o].result \in {"failed", "canceled"}
      /\ job'[o].source = job[o].source /\ job'[o].kind = job[o].kind /\ job'[o].node = job[o].node
  BY AcquireFails DEF AcquireWork
<1>2. /\ AcquireCall(o) /\ statuses[o] = Silent /\ job[o].result = "none"
      /\ job[o].at \notin {"new", "refused", "done"}
  BY AcquireKnown DEF AcquireCall, AcquireWork
<1>3. AcquireCall(o)'
  <2>1. statuses'[o] = Silent
    BY <1>2
  <2>2. CASE o \in RuntimeOps
    BY <1>1, <1>2, <2>1, <2>2, AcquireKnown DEF AcquireCall
  <2>3. CASE o \in PluginOps
    <3>1. o \notin RuntimeOps
      BY <2>3, AcquireKnown
    <3>2. (~job[o].node) => ~job'[o].node
      BY <1>1
    <3> QED BY <1>1, <1>2, <2>1, <2>3, <3>1, <3>2 DEF AcquireCall
  <2> QED BY <2>2, <2>3, AcquireKnown
<1>4. AcquireSource'
  <2>1. CASE o \in PluginOps
    BY <1>1, <2>1 DEF AcquireSource
  <2>2. CASE o \notin PluginOps
    <3>1. job[o].at # "record"
      BY <2>2, AcquireKnown DEF AcquireCall
    <3> QED BY <1>1, <1>2, <2>2, <3>1, AcquireSourceStays
  <2> QED BY <2>1, <2>2
<1> QED BY <1>1, <1>2, <1>3, <1>4, AcquireMoves DEF AcquireWork

\* Beginning, and the gate.
LEMMA AcquireBegins ==
  ASSUME AcquireInv, NEW o \in Acquire!Ops,
         \/ o \in RuntimeOps /\ \E k \in Acquire!RuntimeKinds : Acquire!BeginRuntimeOperation(o, k)
         \/ /\ o \in PluginOps
            /\ \E k \in {"add", "remove"}, s \in Acquire!Sources, a \in BOOLEAN :
                   Acquire!BeginPlugin(o, k, s, a)
         \/ Acquire!TakesGate(o) \/ Acquire!GateRefuses(o)
  PROVE  AcquireInv'
<1>k. /\ job \in [Acquire!Ops -> AcquireJobs] /\ job[o] \in AcquireJobs /\ AcquireCall(o)
      /\ staging = IF job[o].at = "attempt" THEN staging \cup {o} ELSE staging \ {o}
      /\ o \in RuntimeOps => (runtimeCancel = o <=> job[o].at \notin {"new", "refused", "done"})
      /\ ~(o \in RuntimeOps /\ o \in PluginOps) /\ o # Acquire!Nobody
      /\ job[o].at # "done" => statuses[o] = Silent
  BY AcquireKnown
<1>1. ASSUME o \in RuntimeOps, NEW k \in Acquire!RuntimeKinds, Acquire!BeginRuntimeOperation(o, k)
      PROVE  AcquireInv'
  <2>1. /\ job[o].at = "new" /\ statuses[o] = Silent /\ job[o].result = "none"
        /\ UNCHANGED <<cancelCall, opGate, statuses, staging, plugin, provenance, provenanceFile>>
    BY <1>1, <1>k DEF Acquire!BeginRuntimeOperation, AcquireCall
  <2>2. CASE runtimeCancel = Acquire!Nobody
    <3>1. /\ job' \in [Acquire!Ops -> AcquireJobs]
          /\ \A d \in Acquire!Ops \ {o} : job'[d] = job[d]
          /\ job'[o].at = "gate" /\ job'[o].kind = k /\ job'[o].result = job[o].result
          /\ job'[o].source = job[o].source /\ job'[o].node = job[o].node /\ runtimeCancel' = o
      BY <1>1, <1>k, <2>2 DEF Acquire!BeginRuntimeOperation, AcquireJobs, Acquire!RuntimeKinds
    <3>2. AcquireCall(o)'
      BY <1>1, <1>k, <2>1, <3>1 DEF AcquireCall, Acquire!RuntimeKinds
    <3>3. AcquireSource'
      BY <2>1, <3>1, AcquireSourceStays
    <3> QED BY <1>1, <1>k, <2>1, <2>2, <3>1, <3>2, <3>3, AcquireMoves DEF AcquireWork
  <2>3. CASE runtimeCancel # Acquire!Nobody
    <3>1. Acquire!To(o, "refused") /\ runtimeCancel' = runtimeCancel
      BY <1>1, <2>3 DEF Acquire!BeginRuntimeOperation
    <3>2. /\ job' \in [Acquire!Ops -> AcquireJobs]
          /\ \A d \in Acquire!Ops \ {o} : job'[d] = job[d]
          /\ job'[o].at = "refused" /\ job'[o].kind = job[o].kind /\ job'[o].result = job[o].result
          /\ job'[o].source = job[o].source /\ job'[o].node = job[o].node
      BY <3>1, AcquireGoes
    <3>3. AcquireCall(o)'
      BY <1>1, <1>k, <2>1, <3>2 DEF AcquireCall
    <3>4. AcquireSource'
      BY <2>1, <3>2, AcquireSourceStays
    <3> QED BY <1>1, <1>k, <2>1, <3>1, <3>2, <3>3, <3>4, AcquireMoves DEF AcquireWork
  <2> QED BY <2>2, <2>3
<1>2. ASSUME o \in PluginOps, NEW k \in {"add", "remove"}, NEW s \in Acquire!Sources, NEW a \in BOOLEAN,
             Acquire!BeginPlugin(o, k, s, a)
      PROVE  AcquireInv'
  <2>1. /\ job[o].at = "new" /\ statuses[o] = Silent /\ job[o].result = "none"
        /\ statuses' = Acquire!Progress(o)
        /\ UNCHANGED <<runtimeCancel, cancelCall, opGate, staging, plugin, provenance, provenanceFile>>
    BY <1>2, <1>k DEF Acquire!BeginPlugin, AcquireCall
  <2>2. statuses'[o] = Silent /\ \E t : statuses' = [statuses EXCEPT ![o] = t]
    BY <2>1, AcquireProgress
  <2>3. /\ job' \in [Acquire!Ops -> AcquireJobs]
        /\ \A d \in Acquire!Ops \ {o} : job'[d] = job[d]
        /\ job'[o].at = "gate" /\ job'[o].kind = k /\ job'[o].result = job[o].result
        /\ job'[o].source = s /\ job'[o].node = job[o].node
    BY <1>2, <1>k DEF Acquire!BeginPlugin, AcquireJobs
  <2>4. AcquireCall(o)'
    BY <1>2, <1>k, <2>1, <2>2, <2>3 DEF AcquireCall
  <2>5. AcquireSource'
    BY <2>1, <2>3, AcquireSourceStays
  <2> QED BY <1>2, <1>k, <2>1, <2>2, <2>3, <2>4, <2>5, AcquireMoves DEF AcquireWork
<1>3. CASE Acquire!TakesGate(o)
  <2>1. PICK needsNode \in IF job[o].kind = "dsh" THEN BOOLEAN ELSE {FALSE} :
            job' = [job EXCEPT ![o].node = needsNode,
                               ![o].at = IF job[o].kind = "remove" \/ job[o].source # "public"
                                         THEN "command" ELSE "stage"]
    BY <1>3 DEF Acquire!TakesGate
  <2>2. /\ job[o].at = "gate" /\ statuses[o] = Silent /\ job[o].result = "none"
        /\ opGate = Acquire!Nobody /\ opGate' = o
        /\ UNCHANGED <<runtimeCancel, cancelCall, statuses, staging, plugin, provenance, provenanceFile>>
    BY <1>3, <1>k DEF Acquire!TakesGate, AcquireCall
  <2>3. /\ job' \in [Acquire!Ops -> AcquireJobs]
        /\ \A d \in Acquire!Ops \ {o} : job'[d] = job[d]
        /\ job'[o].at = IF job[o].kind = "remove" \/ job[o].source # "public" THEN "command" ELSE "stage"
        /\ job'[o].kind = job[o].kind /\ job'[o].result = job[o].result
        /\ job'[o].source = job[o].source /\ job'[o].node = needsNode
    <3>1. needsNode \in BOOLEAN
      BY <2>1
    <3> QED BY <1>k, <2>1, <3>1 DEF AcquireJobs, AcquireWork
  <2>4. AcquireCall(o)'
    <3>1. job[o].kind # "dsh" => ~needsNode
      BY <2>1
    <3> QED BY <1>k, <2>2, <2>3, <3>1 DEF AcquireCall
  <2>5. AcquireSource'
    BY <2>2, <2>3, AcquireSourceStays
  <2> QED BY <1>k, <2>2, <2>3, <2>4, <2>5, AcquireMoves DEF AcquireWork
<1>4. CASE Acquire!GateRefuses(o)
  BY <1>4, <1>k, AcquireGivesUp DEF Acquire!GateRefuses
<1> QED BY <1>1, <1>2, <1>3, <1>4

\* What the Manager does under the gate, up to a plugin command.
LEMMA AcquireAttempts ==
  ASSUME AcquireInv, NEW o \in Acquire!Ops, NEW b \in BOOLEAN,
         Acquire!Stage(o) \/ Acquire!AttemptFails(o, b) \/ Acquire!AttemptSucceeds(o)
  PROVE  AcquireInv'
<1>k. /\ job \in [Acquire!Ops -> AcquireJobs] /\ job[o] \in AcquireJobs /\ AcquireCall(o)
      /\ ~(o \in RuntimeOps /\ o \in PluginOps) /\ o \in RuntimeOps \cup PluginOps
      /\ job[o].at \in AcquireWork => statuses[o] = Silent /\ job[o].result = "none" /\ opGate = o
  BY AcquireKnown DEF AcquireWork, AcquireCall
\* A report of progress by a call at work leaves its statuses as they were.
<1>p. ASSUME job[o].at \in AcquireWork, statuses' = statuses \/ statuses' = Acquire!Progress(o)
      PROVE  statuses'[o] = Silent /\ (statuses' = statuses \/ \E s : statuses' = [statuses EXCEPT ![o] = s])
  <2>1. job[o].at # "done"
    BY <1>p DEF AcquireWork
  <2> QED BY <1>k, <1>p, <2>1, AcquireProgress
\* A failure reports what it reports and gives up.
<1>f. ASSUME Acquire!Fails(o), job[o].at \in AcquireWork, opGate' = Acquire!Nobody,
             staging' = staging \ {o}, statuses'[o] = Silent,
             statuses' = statuses \/ \E s : statuses' = [statuses EXCEPT ![o] = s],
             job[o].at # "record",
             UNCHANGED <<plugin, runtimeCancel, cancelCall, provenance, provenanceFile>>
      PROVE  AcquireInv'
  <2>1. /\ job' \in [Acquire!Ops -> AcquireJobs]
        /\ \A d \in Acquire!Ops \ {o} : job'[d] = job[d]
        /\ job'[o].at = "returned" /\ job'[o].result \in {"failed", "canceled"}
        /\ job'[o].source = job[o].source /\ job'[o].kind = job[o].kind /\ job'[o].node = job[o].node
    BY <1>f, AcquireFails DEF AcquireWork
  <2>2. AcquireCall(o)'
    <3>1. CASE o \in RuntimeOps
      BY <1>k, <1>f, <2>1, <3>1 DEF AcquireCall
    <3>2. CASE o \in PluginOps
      <4>1. (~job[o].node) => ~job'[o].node
        BY <2>1
      <4> QED BY <1>k, <1>f, <2>1, <3>2, <4>1 DEF AcquireCall
    <3> QED BY <1>k, <3>1, <3>2
  <2>3. AcquireSource'
    BY <1>k, <1>f, <2>1, AcquireSourceStays
  <2>4. job[o].at \notin {"new", "refused", "done"}
    BY <1>f DEF AcquireWork
  <2> QED BY <1>k, <1>f, <2>1, <2>2, <2>3, <2>4, AcquireMoves DEF AcquireWork
<1>1. CASE Acquire!Stage(o)
  <2>1. /\ job[o].at = "stage" /\ UNCHANGED <<runtimeCancel, cancelCall, plugin, provenance, provenanceFile>>
    BY <1>1 DEF Acquire!Stage
  <2>2. CASE Acquire!To(o, "attempt") /\ staging' = staging \cup {o} /\ opGate' = opGate
             /\ statuses' = IF o \in RuntimeOps /\ Acquire!Reports(o) THEN Acquire!Observed(o, "active") ELSE statuses
    <3>1. /\ job' \in [Acquire!Ops -> AcquireJobs]
          /\ \A d \in Acquire!Ops \ {o} : job'[d] = job[d]
          /\ job'[o].at = "attempt" /\ job'[o].result = job[o].result
          /\ job'[o].source = job[o].source /\ job'[o].kind = job[o].kind /\ job'[o].node = job[o].node
      BY <2>2, AcquireGoes DEF AcquireWork
    <3>2. statuses'[o] = Silent /\ (statuses' = statuses \/ \E s : statuses' = [statuses EXCEPT ![o] = s])
      <4>1. statuses' = statuses \/ statuses' = Acquire!Progress(o)
        BY <2>2 DEF Acquire!Observed
      <4>2. job[o].at \in AcquireWork
        BY <2>1 DEF AcquireWork
      <4> QED BY <1>p, <4>1, <4>2
    <3>3. AcquireCall(o)'
      <4>1. (~job[o].node) => ~job'[o].node
        BY <3>1
      <4> QED BY <1>k, <2>1, <3>1, <3>2, <4>1 DEF AcquireCall, AcquireWork
    <3>4. AcquireSource'
      BY <2>1, <3>1, AcquireSourceStays
    <3> QED BY <1>k, <2>1, <2>2, <3>1, <3>2, <3>3, <3>4, AcquireMoves DEF AcquireWork
  <2>3. CASE Acquire!Fails(o) /\ Acquire!Releases(o) /\ UNCHANGED <<staging, statuses>>
    <3>1. staging' = staging \ {o}
      BY <2>1, <2>3, AcquireKnown
    <3> QED BY <2>1, <2>3, <3>1, AcquireGivesUp DEF Acquire!Releases, AcquireWork
  <2> QED BY <1>1, <2>2, <2>3 DEF Acquire!Stage
<1>2. CASE Acquire!AttemptFails(o, b)
  <2>1. /\ job[o].at = "attempt" /\ staging' = staging \ {o}
        /\ UNCHANGED <<runtimeCancel, cancelCall, plugin, provenance, provenanceFile>>
    BY <1>2 DEF Acquire!AttemptFails
  <2>2. statuses'[o] = Silent /\ (statuses' = statuses \/ \E s : statuses' = [statuses EXCEPT ![o] = s])
    <3>1. statuses' = statuses \/ statuses' = Acquire!Progress(o)
      BY <1>2 DEF Acquire!AttemptFails, Acquire!Observed
    <3>2. job[o].at \in AcquireWork
      BY <2>1 DEF AcquireWork
    <3> QED BY <1>p, <3>1, <3>2
  <2>3. CASE job' = [job EXCEPT ![o].at = "stage", ![o].route = "mirror"] /\ opGate' = opGate
    <3>1. /\ job' \in [Acquire!Ops -> AcquireJobs]
          /\ \A d \in Acquire!Ops \ {o} : job'[d] = job[d]
          /\ job'[o].at = "stage" /\ job'[o].result = job[o].result
          /\ job'[o].source = job[o].source /\ job'[o].kind = job[o].kind /\ job'[o].node = job[o].node
      BY <1>k, <2>3 DEF AcquireJobs, AcquireWork
    <3>2. AcquireCall(o)'
      <4>1. (~job[o].node) => ~job'[o].node
        BY <3>1
      <4> QED BY <1>k, <2>1, <2>2, <3>1, <4>1 DEF AcquireCall, AcquireWork
    <3>3. AcquireSource'
      BY <2>1, <3>1, AcquireSourceStays
    <3> QED BY <1>k, <2>1, <2>2, <2>3, <3>1, <3>2, <3>3, AcquireMoves DEF AcquireWork
  <2>4. CASE Acquire!Fails(o) /\ Acquire!Releases(o)
    BY <1>f, <2>1, <2>2, <2>4 DEF Acquire!Releases, AcquireWork
  <2> QED BY <1>2, <2>3, <2>4 DEF Acquire!AttemptFails
<1>3. CASE Acquire!AttemptSucceeds(o)
  <2>1. /\ job[o].at = "attempt" /\ staging' = staging \ {o} /\ opGate' = opGate
        /\ UNCHANGED <<runtimeCancel, cancelCall, provenance, provenanceFile>>
        /\ plugin' = IF o \in PluginOps THEN <<"public", job[o].route>> ELSE plugin
    BY <1>3 DEF Acquire!AttemptSucceeds
  <2>2. statuses'[o] = Silent /\ (statuses' = statuses \/ \E s : statuses' = [statuses EXCEPT ![o] = s])
    <3>1. statuses' = statuses \/ statuses' = Acquire!Progress(o)
      BY <1>3 DEF Acquire!AttemptSucceeds, Acquire!Observed
    <3>2. job[o].at \in AcquireWork
      BY <2>1 DEF AcquireWork
    <3> QED BY <1>p, <3>1, <3>2
  <2>3. CASE job[o].node
    <3>1. o \in RuntimeOps /\ o \notin PluginOps
      BY <1>k, <2>3 DEF AcquireCall
    <3>2. job' = [job EXCEPT ![o].at = "stage", ![o].route = "official", ![o].node = FALSE]
      BY <1>3, <2>3 DEF Acquire!AttemptSucceeds
    <3>3. /\ job' \in [Acquire!Ops -> AcquireJobs]
          /\ \A d \in Acquire!Ops \ {o} : job'[d] = job[d]
          /\ job'[o].at = "stage" /\ job'[o].result = job[o].result
          /\ job'[o].source = job[o].source /\ job'[o].kind = job[o].kind
      BY <1>k, <3>2 DEF AcquireJobs, AcquireWork
    <3>4. AcquireCall(o)'
      BY <1>k, <2>1, <2>2, <3>1, <3>3 DEF AcquireCall, AcquireWork
    <3>5. AcquireSource'
      BY <2>1, <3>1, <3>3, AcquireSourceStays
    <3> QED BY <1>k, <2>1, <2>2, <3>1, <3>3, <3>4, <3>5, AcquireMoves DEF AcquireWork
  <2>4. CASE ~job[o].node
    <3>1. Acquire!To(o, IF o \in PluginOps THEN "record" ELSE "save")
      BY <1>3, <2>4 DEF Acquire!AttemptSucceeds, Acquire!To
    <3>2. (IF o \in PluginOps THEN "record" ELSE "save") \in AcquireWork
      BY DEF AcquireWork
    <3>3. /\ job' \in [Acquire!Ops -> AcquireJobs]
          /\ \A d \in Acquire!Ops \ {o} : job'[d] = job[d]
          /\ job'[o].at = IF o \in PluginOps THEN "record" ELSE "save"
          /\ job'[o].result = job[o].result /\ job'[o].route = job[o].route
          /\ job'[o].source = job[o].source /\ job'[o].kind = job[o].kind /\ job'[o].node = job[o].node
      BY <3>1, <3>2, AcquireGoes
    <3>4. AcquireCall(o)'
      <4>1. ~job'[o].node
        BY <2>4, <3>3
      <4>2. CASE o \in PluginOps
        <5>1. plugin' = Acquire!SourceOf(o)'
          BY <1>k, <2>1, <3>3, <4>2 DEF AcquireCall, Acquire!SourceOf
        <5> QED BY <1>k, <2>1, <2>2, <3>3, <4>1, <4>2, <5>1 DEF AcquireCall, AcquireWork
      <4>3. CASE o \in RuntimeOps
        BY <1>k, <2>1, <2>2, <3>3, <4>3 DEF AcquireCall, AcquireWork
      <4> QED BY <1>k, <4>2, <4>3
    <3>5. AcquireSource'
      <4>1. CASE o \in PluginOps
        BY <3>3, <4>1 DEF AcquireSource
      <4>2. CASE o \notin PluginOps
        BY <2>1, <3>3, <4>2, AcquireSourceStays
      <4> QED BY <4>1, <4>2
    <3> QED BY <1>k, <2>1, <2>2, <3>3, <3>4, <3>5, AcquireMoves DEF AcquireWork
  <2> QED BY <2>3, <2>4
<1> QED BY <1>1, <1>2, <1>3

\* What the Manager saves, runs and records.
LEMMA AcquireRuns ==
  ASSUME AcquireInv, NEW o \in Acquire!Ops, NEW b \in BOOLEAN,
         Acquire!RuntimeSaved(o, b) \/ Acquire!Command(o, b) \/ Acquire!Incompatible(o, b)
         \/ Acquire!RecordProvenance(o, b)
  PROVE  AcquireInv'
<1>k. /\ job \in [Acquire!Ops -> AcquireJobs] /\ job[o] \in AcquireJobs /\ AcquireCall(o)
      /\ ~(o \in RuntimeOps /\ o \in PluginOps) /\ o \in RuntimeOps \cup PluginOps
      /\ job[o].at \in AcquireWork => statuses[o] = Silent /\ job[o].result = "none" /\ opGate = o
      /\ job[o].at \in {"command", "record"} => o \in PluginOps
      /\ job[o].at # "attempt" => staging = staging \ {o}
  <2>1. job[o].at \in AcquireWork => job[o].at # "done" /\ job[o].at # "returned"
    BY DEF AcquireWork
  <2>2. AcquireCall(o) /\ (job[o].at # "done" => statuses[o] = Silent)
    BY AcquireKnown
  <2>3. job[o].at \in AcquireWork => statuses[o] = Silent /\ job[o].result = "none"
    BY <2>1, <2>2 DEF AcquireCall
  <2>4. job[o].at \in {"command", "record"} => o \in PluginOps
    BY <2>2, AcquireKnown DEF AcquireCall
  <2> QED BY <2>2, <2>3, <2>4, AcquireKnown
\* The call returns with success, or goes on with the command, nothing else of it changed.
<1>g. ASSUME job[o].at \in AcquireWork, NEW place \in AcquireWork \cup {"returned"}, place # "attempt",
             place # "stage" \/ (o \in PluginOps => job[o].source = "public"),
             place \notin {"save", "record"}, place = "command" => job[o].at = "command",
             job' \in [Acquire!Ops -> AcquireJobs],
             \A d \in Acquire!Ops \ {o} : job'[d] = job[d],
             job'[o].at = place, job'[o].kind = job[o].kind, job'[o].source = job[o].source,
             job'[o].node = job[o].node, job'[o].result \in {"none", "succeeded"},
             job'[o].result = "succeeded" => place = "returned",
             IF place = "returned" THEN opGate' = Acquire!Nobody ELSE opGate' = opGate,
             staging' = staging \ {o}, AcquireSource',
             UNCHANGED <<runtimeCancel, cancelCall, statuses>>
      PROVE  AcquireInv'
  <2>1. job[o].at \notin {"new", "refused", "done"} /\ place \notin {"new", "refused", "done"}
    BY <1>g DEF AcquireWork
  <2>2. AcquireCall(o)'
    <3>1. statuses'[o] = Silent /\ ((~job[o].node) => ~job'[o].node)
      BY <1>k, <1>g
    <3>2. CASE o \in RuntimeOps
      BY <1>k, <1>g, <2>1, <3>1, <3>2 DEF AcquireCall
    <3>3. CASE o \in PluginOps
      BY <1>k, <1>g, <2>1, <3>1, <3>3 DEF AcquireCall
    <3> QED BY <1>k, <3>2, <3>3
  <2> QED BY <1>k, <1>g, <2>1, <2>2, AcquireMoves DEF AcquireWork
<1>1. CASE Acquire!RuntimeSaved(o, b)
  <2>1. /\ job[o].at = "save" /\ opGate' = Acquire!Nobody /\ staging' = staging \ {o}
        /\ UNCHANGED <<runtimeCancel, cancelCall, statuses, plugin, provenance, provenanceFile>>
    BY <1>1, <1>k DEF Acquire!RuntimeSaved, Acquire!Releases
  <2>2. CASE Acquire!Fails(o)
    BY <2>1, <2>2, AcquireGivesUp DEF AcquireWork
  <2>3. CASE job' = [job EXCEPT ![o].at = "returned", ![o].result = "succeeded"]
    <3>1. /\ job' \in [Acquire!Ops -> AcquireJobs]
          /\ \A d \in Acquire!Ops \ {o} : job'[d] = job[d]
          /\ job'[o].at = "returned" /\ job'[o].result = "succeeded"
          /\ job'[o].source = job[o].source /\ job'[o].kind = job[o].kind /\ job'[o].node = job[o].node
      BY <1>k, <2>3 DEF AcquireJobs, AcquireResults
    <3>2. AcquireSource'
      BY <1>k, <2>1, <3>1, AcquireSourceStays DEF AcquireWork
    <3> QED BY <1>g, <2>1, <3>1, <3>2 DEF AcquireWork
  <2> QED BY <1>1, <2>2, <2>3 DEF Acquire!RuntimeSaved
<1>2. CASE Acquire!Command(o, b)
  <2>1. /\ job[o].at = "command" /\ o \in PluginOps /\ staging' = staging \ {o}
        /\ UNCHANGED <<runtimeCancel, cancelCall, statuses, provenance, provenanceFile>>
    BY <1>2, <1>k DEF Acquire!Command
  <2>2. CASE b /\ job[o].ctx /\ job[o].kind = "remove"
    <3>1. /\ plugin' = Acquire!Absent /\ opGate' = Acquire!Nobody
          /\ job' = [job EXCEPT ![o].at = "returned", ![o].result = "succeeded"]
      BY <1>2, <2>2 DEF Acquire!Command, Acquire!Releases
    <3>2. /\ job' \in [Acquire!Ops -> AcquireJobs]
          /\ \A d \in Acquire!Ops \ {o} : job'[d] = job[d]
          /\ job'[o].at = "returned" /\ job'[o].result = "succeeded"
          /\ job'[o].source = job[o].source /\ job'[o].kind = job[o].kind /\ job'[o].node = job[o].node
      BY <1>k, <3>1 DEF AcquireJobs, AcquireResults
    <3>3. AcquireSource'
      BY <3>1 DEF AcquireSource, Acquire!Absent
    <3> QED BY <1>g, <2>1, <3>1, <3>2, <3>3 DEF AcquireWork
  <2>3. CASE b /\ job[o].ctx /\ job[o].kind # "remove"
    <3>1. plugin' = <<job[o].source, "none">> /\ Acquire!To(o, "record") /\ opGate' = opGate
      BY <1>2, <2>3 DEF Acquire!Command
    <3>2. /\ job' \in [Acquire!Ops -> AcquireJobs]
          /\ \A d \in Acquire!Ops \ {o} : job'[d] = job[d]
          /\ job'[o].at = "record" /\ job'[o].result = job[o].result
          /\ job'[o].source = job[o].source /\ job'[o].kind = job[o].kind /\ job'[o].node = job[o].node
      BY <3>1, AcquireGoes DEF AcquireWork
    <3>3. plugin' = Acquire!SourceOf(o)'
      BY <1>k, <2>1, <2>3, <3>1, <3>2 DEF AcquireCall, Acquire!SourceOf
    <3>4. AcquireCall(o)'
      <4>1. statuses'[o] = Silent /\ ((~job[o].node) => ~job'[o].node) /\ job[o].result = "none"
        BY <1>k, <2>1, <3>2 DEF AcquireWork
      <4> QED BY <1>k, <2>1, <3>2, <3>3, <4>1 DEF AcquireCall
    <3>5. AcquireSource'
      BY <2>1, <3>2 DEF AcquireSource
    <3> QED BY <1>k, <2>1, <3>1, <3>2, <3>4, <3>5, AcquireMoves DEF AcquireWork
  <2>4. CASE ~(b /\ job[o].ctx)
    BY <1>2, <2>1, <2>4, AcquireGivesUp DEF Acquire!Command, Acquire!Releases, AcquireWork
  <2> QED BY <2>2, <2>3, <2>4
<1>3. CASE Acquire!Incompatible(o, b)
  <2>1. /\ o \in PluginOps /\ job[o].at \in {"attempt", "command"} /\ staging' = staging \ {o}
        /\ UNCHANGED <<runtimeCancel, cancelCall, statuses, plugin, provenance, provenanceFile>>
    BY <1>3 DEF Acquire!Incompatible
  <2>2. CASE /\ job' = [job EXCEPT ![o].accept = FALSE, ![o].route = "official",
                                   ![o].at = IF job[o].at = "command" THEN "command" ELSE "stage"]
             /\ opGate' = opGate
    <3>1. /\ job' \in [Acquire!Ops -> AcquireJobs]
          /\ \A d \in Acquire!Ops \ {o} : job'[d] = job[d]
          /\ job'[o].at = IF job[o].at = "command" THEN "command" ELSE "stage"
          /\ job'[o].result = job[o].result
          /\ job'[o].source = job[o].source /\ job'[o].kind = job[o].kind /\ job'[o].node = job[o].node
      BY <1>k, <2>2 DEF AcquireJobs, AcquireWork
    <3>2. AcquireSource'
      BY <2>1, <3>1, AcquireSourceStays
    <3>3. job[o].at = "attempt" => job[o].source = "public"
      BY <1>k, <2>1 DEF AcquireCall
    <3>4. job[o].at \in AcquireWork /\ job[o].result = "none"
      BY <1>k, <2>1 DEF AcquireWork
    <3>5. (IF job[o].at = "command" THEN "command" ELSE "stage") \in AcquireWork
      BY DEF AcquireWork
    <3> QED BY <1>g, <2>1, <2>2, <3>1, <3>2, <3>3, <3>4, <3>5
  <2>3. CASE Acquire!Fails(o) /\ Acquire!Releases(o)
    BY <2>1, <2>3, AcquireGivesUp DEF Acquire!Releases, AcquireWork
  <2> QED BY <1>3, <2>2, <2>3 DEF Acquire!Incompatible
<1>4. CASE Acquire!RecordProvenance(o, b)
  <2>1. /\ job[o].at = "record" /\ o \in PluginOps /\ opGate' = Acquire!Nobody /\ staging' = staging \ {o}
        /\ UNCHANGED <<runtimeCancel, cancelCall, statuses, plugin>>
    BY <1>4, <1>k DEF Acquire!RecordProvenance, Acquire!Releases
  <2>2. CASE b /\ job[o].ctx
    <3>1. /\ provenanceFile' = Acquire!SourceOf(o) /\ provenance' = Acquire!SourceOf(o)
          /\ job' = [job EXCEPT ![o].at = "returned", ![o].result = "succeeded"]
      BY <1>4, <2>2 DEF Acquire!RecordProvenance
    <3>2. /\ job' \in [Acquire!Ops -> AcquireJobs]
          /\ \A d \in Acquire!Ops \ {o} : job'[d] = job[d]
          /\ job'[o].at = "returned" /\ job'[o].result = "succeeded"
          /\ job'[o].source = job[o].source /\ job'[o].kind = job[o].kind /\ job'[o].node = job[o].node
      BY <1>k, <3>1 DEF AcquireJobs, AcquireResults
    <3>3. AcquireSource'
      BY <1>k, <2>1, <3>1 DEF AcquireSource, AcquireCall
    <3> QED BY <1>g, <2>1, <3>2, <3>3 DEF AcquireWork
  <2>3. CASE Acquire!Fails(o) /\ UNCHANGED <<provenance, provenanceFile>>
    BY <2>1, <2>3, AcquireGivesUp DEF AcquireWork
  <2> QED BY <1>4, <2>2, <2>3 DEF Acquire!RecordProvenance
<1> QED BY <1>1, <1>2, <1>3, <1>4

\* A call that ends, and the ends of its context.
LEMMA AcquireEnds ==
  ASSUME AcquireInv, NEW o \in Acquire!Ops, Acquire!Finish(o)
  PROVE  AcquireInv'
<1>k. /\ job \in [Acquire!Ops -> AcquireJobs] /\ job[o] \in AcquireJobs /\ AcquireCall(o)
      /\ ~(o \in RuntimeOps /\ o \in PluginOps) /\ o \in RuntimeOps \cup PluginOps
      /\ o \in RuntimeOps => (runtimeCancel = o <=> job[o].at \notin {"new", "refused", "done"})
      /\ job[o].at # "done" => statuses[o] = Silent
      /\ staging = IF job[o].at = "attempt" THEN staging \cup {o} ELSE staging \ {o}
      /\ DOMAIN statuses = Acquire!Ops
  BY AcquireKnown DEF AcquireInv
<1>1. /\ job[o].at = "returned" /\ statuses[o] = Silent
      /\ job' = [job EXCEPT ![o] = [Acquire!NewJob EXCEPT !.at = "done", !.kind = job[o].kind,
                                                          !.result = job[o].result]]
      /\ UNCHANGED <<cancelCall, opGate, staging, plugin, provenance, provenanceFile>>
  BY <1>k DEF Acquire!Finish
<1>2. /\ job' \in [Acquire!Ops -> AcquireJobs]
      /\ \A d \in Acquire!Ops \ {o} : job'[d] = job[d]
      /\ job'[o].at = "done" /\ job'[o].result = job[o].result /\ job'[o].kind = job[o].kind
      /\ job'[o].source = "public" /\ ~job'[o].node
  BY <1>k, <1>1 DEF AcquireJobs, Acquire!NewJob, Acquire!Sources
<1>3. /\ statuses' = statuses \/ \E s : statuses' = [statuses EXCEPT ![o] = s]
      /\ job[o].kind # "refresh" => statuses'[o] = Ended(job[o].result)
      /\ job[o].kind = "refresh" => statuses'[o] = Silent
  <2>1. CASE job[o].kind = "refresh"
    BY <1>1, <2>1 DEF Acquire!Finish, Acquire!Reports
  <2>2. CASE job[o].kind # "refresh"
    <3>1. statuses' = Acquire!Terminal(o, job[o].result)
      BY <2>2 DEF Acquire!Finish, Acquire!Reports
    <3>2. statuses' = [statuses EXCEPT ![o] = [Silent EXCEPT !.terminals = Silent.terminals \cup {job[o].result},
                                                             !.count = Silent.count + 1]]
      BY <1>1, <3>1 DEF Acquire!Terminal
    <3>3. [Silent EXCEPT !.terminals = Silent.terminals \cup {job[o].result}, !.count = Silent.count + 1]
          = Ended(job[o].result)
      BY AcquireCounted DEF Silent, Ended
    <3> QED BY <1>k, <2>2, <3>2, <3>3
  <2> QED BY <2>1, <2>2
<1>4. AcquireCall(o)'
  <2>1. CASE o \in RuntimeOps
    BY <1>k, <1>1, <1>2, <1>3, <2>1 DEF AcquireCall
  <2>2. CASE o \in PluginOps
    BY <1>k, <1>1, <1>2, <1>3, <2>2 DEF AcquireCall
  <2> QED BY <1>k, <2>1, <2>2
<1>5. AcquireSource'
  BY <1>1, <1>2, AcquireSourceStays
<1>6. \/ runtimeCancel' = runtimeCancel /\ o \in PluginOps
      \/ runtimeCancel = o /\ runtimeCancel' = Acquire!Nobody
  BY <1>k, <1>1 DEF Acquire!Finish
<1> QED BY <1>k, <1>1, <1>2, <1>3, <1>4, <1>5, <1>6, AcquireMoves DEF AcquireWork

\* A call that is canceled, by the user or with its runtime.
LEMMA AcquireCancels ==
  ASSUME AcquireInv,
         Acquire!CancelReads \/ Acquire!CancelRuntime \/ \E o \in Acquire!Ops : Acquire!ContextEnds(o)
  PROVE  AcquireInv'
\* A call's context ends, and nothing else of it.
<1>c. ASSUME NEW o \in Acquire!Ops, job' = [job EXCEPT ![o].ctx = FALSE],
             cancelCall' = cancelCall \/ cancelCall' = Acquire!Nobody,
             UNCHANGED <<runtimeCancel, opGate, statuses, staging, plugin, provenance, provenanceFile>>
      PROVE  AcquireInv'
  <2>1. job \in [Acquire!Ops -> AcquireJobs] /\ job[o] \in AcquireJobs /\ AcquireCall(o)
    BY AcquireKnown
  <2>2. /\ job' \in [Acquire!Ops -> AcquireJobs]
        /\ \A d \in Acquire!Ops \ {o} : job'[d] = job[d]
        /\ job'[o].at = job[o].at /\ job'[o].result = job[o].result /\ job'[o].kind = job[o].kind
        /\ job'[o].source = job[o].source /\ job'[o].node = job[o].node /\ job'[o].route = job[o].route
    BY <1>c, <2>1 DEF AcquireJobs
  <2>3. AcquireCall(o)'
    <3>1. (~job[o].node) => ~job'[o].node
      BY <2>2
    <3>2. statuses'[o] = statuses[o]
      BY <1>c
    <3>3. Acquire!SourceOf(o)' = Acquire!SourceOf(o) /\ plugin' = plugin
      BY <1>c, <2>2 DEF Acquire!SourceOf
    <3> QED BY <2>1, <2>2, <3>1, <3>2, <3>3 DEF AcquireCall
  <2>4. AcquireSource'
    <3>1. \A d \in Acquire!Ops : job'[d].at = job[d].at /\ job'[d].result = job[d].result
      BY <2>2
    <3>2. \A d \in PluginOps : d \in Acquire!Ops
      BY DEF Acquire!Ops
    <3> QED BY <1>c, <3>1, <3>2 DEF AcquireInv, AcquireSource
  <2>5. staging' = IF job'[o].at = "attempt" THEN staging \cup {o} ELSE staging \ {o}
    BY <1>c, <2>2, AcquireKnown
  <2> QED BY <1>c, <2>2, <2>3, <2>4, <2>5, AcquireMoves
\* A cancellation that finds nothing to cancel.
<1>n. ASSUME cancelCall' \in RuntimeOps \cup {Acquire!Nobody},
             UNCHANGED <<job, runtimeCancel, opGate, statuses, staging, plugin, provenance, provenanceFile>>
      PROVE  AcquireInv'
  BY <1>n DEF AcquireInv, AcquireCall, AcquireSource, Acquire!SourceOf
<1>1. CASE Acquire!CancelReads
  <2>1. cancelCall' \in RuntimeOps \cup {Acquire!Nobody}
    BY <1>1 DEF Acquire!CancelReads, AcquireInv
  <2> QED BY <1>1, <1>n, <2>1 DEF Acquire!CancelReads
<1>2. CASE Acquire!CancelRuntime
  <2>1. cancelCall \in Acquire!Ops /\ cancelCall' = Acquire!Nobody
    BY <1>2 DEF Acquire!CancelRuntime, AcquireInv, Acquire!Ops
  <2> QED BY <1>2, <1>c, <1>n, <2>1 DEF Acquire!CancelRuntime
<1>3. CASE \E o \in Acquire!Ops : Acquire!ContextEnds(o)
  BY <1>3, <1>c DEF Acquire!ContextEnds
<1> QED BY <1>1, <1>2, <1>3

\* It holds at first.
LEMMA AcquireStart == Acquire!Init => AcquireInv
<1> SUFFICES ASSUME Acquire!Init PROVE AcquireInv
  OBVIOUS
<1>1. /\ job = [o \in Acquire!Ops |-> Acquire!NewJob]
      /\ runtimeCancel = Acquire!Nobody /\ cancelCall = Acquire!Nobody /\ opGate = Acquire!Nobody
      /\ statuses = [o \in Acquire!Ops |-> Silent] /\ staging = {}
      /\ provenance = plugin /\ provenanceFile = plugin
  BY DEF Acquire!Init, Silent
<1>2. /\ Acquire!NewJob \in AcquireJobs /\ Acquire!NewJob.at = "new" /\ Acquire!NewJob.result = "none"
      /\ Acquire!NewJob.kind = "none" /\ Acquire!NewJob.source = "public" /\ ~Acquire!NewJob.node
  BY DEF Acquire!NewJob, AcquireJobs, AcquireResults, Acquire!Sources
<1>3. Acquire!Nobody \notin Acquire!Ops /\ RuntimeOps \subseteq Acquire!Ops
  BY AcquireAssumption DEF Acquire!Nobody, Acquire!Ops
<1>4. \A o \in Acquire!Ops : AcquireCall(o)
  BY <1>1, <1>2 DEF AcquireCall
<1>5. AcquireSource
  BY <1>1 DEF AcquireSource
<1> QED BY <1>1, <1>2, <1>3, <1>4, <1>5 DEF AcquireInv, AcquireWork

\* Every step keeps it.
LEMMA AcquireStep == AcquireInv /\ [Acquire!Next]_acquireVars => AcquireInv'
<1> SUFFICES ASSUME AcquireInv, [Acquire!Next]_acquireVars PROVE AcquireInv'
  OBVIOUS
<1>0. RuntimeOps \subseteq Acquire!Ops /\ PluginOps \subseteq Acquire!Ops
  BY DEF Acquire!Ops
<1>1. CASE Acquire!Next
  BY <1>0, <1>1, AcquireBegins, AcquireAttempts, AcquireRuns, AcquireEnds, AcquireCancels DEF Acquire!Next
<1>2. CASE UNCHANGED acquireVars
  BY <1>2 DEF acquireVars, AcquireInv, AcquireCall, AcquireSource, Acquire!SourceOf
<1> QED BY <1>1, <1>2

\* What it says of the calls, and of the plugin.
LEMMA AcquireSafe ==
  ASSUME AcquireInv
  PROVE  Acquire!OneTerminal /\ Acquire!SourceIsTrue /\ Acquire!AcquisitionTypeOK
<1>1. ASSUME NEW o \in Acquire!Ops
      PROVE  /\ ~statuses[o].late /\ statuses[o].count <= 1
             /\ statuses[o].count = 1 => job[o].at = "done" /\ statuses[o].terminals = {job[o].result}
             /\ job[o].at = "done" /\ Acquire!Reports(o) => statuses[o].count = 1
  <2>1. AcquireCall(o) /\ 0 <= 1 /\ 1 <= 1 /\ 0 # 1
    BY DEF AcquireInv
  <2>2. Silent.late = FALSE /\ Silent.count = 0
    BY DEF Silent
  <2>3. /\ Ended(job[o].result).late = FALSE /\ Ended(job[o].result).count = 1
        /\ Ended(job[o].result).terminals = {job[o].result}
    BY DEF Ended
  <2>4. job[o].at = "done" /\ Acquire!Reports(o) => statuses[o] = Ended(job[o].result)
    BY <2>1 DEF AcquireCall, Acquire!Reports
  <2>5. CASE statuses[o] = Silent
    <3>1. ~statuses[o].late /\ statuses[o].count = 0
      BY <2>2, <2>5, Zenon
    <3> QED BY <2>1, <2>3, <2>4, <3>1
  <2>6. CASE job[o].at = "done" /\ statuses[o] = Ended(job[o].result)
    <3>1. ~statuses[o].late /\ statuses[o].count = 1 /\ statuses[o].terminals = {job[o].result}
      BY <2>3, <2>6, Zenon
    <3> QED BY <2>1, <2>6, <3>1
  <2> QED BY <2>1, <2>5, <2>6 DEF AcquireCall
<1>2. Acquire!OneTerminal
  BY <1>1 DEF Acquire!OneTerminal
<1>3. Acquire!SourceIsTrue
  <2>1. ASSUME opGate = Acquire!Nobody, NEW o \in PluginOps PROVE job[o].at # "record"
    BY <2>1, AcquireAssumption DEF AcquireInv, Acquire!Ops, AcquireWork, Acquire!Nobody
  <2> QED BY <2>1 DEF AcquireInv, AcquireSource, Acquire!SourceIsTrue
<1>4. Acquire!AcquisitionTypeOK
  BY DEF AcquireInv, Acquire!AcquisitionTypeOK, AcquireWork, AcquireJobs
<1> QED BY <1>2, <1>3, <1>4

-----------------------------------------------------------------------------
(* Interactions: the pages and their owners, the queue of changes, the      *)
(* notifications on screen, and the ring of remembered ids.                 *)

AskPages == [instance : Instances \cup {Ask!Nobody}, front : Sessions \cup {Ask!NoKey},
             pending : [Sessions -> Keys \cup {Ask!NoKey}]]
AskChanges == [at : {"taken"}, added : BOOLEAN, surface : Surfaces \cup {Ask!Nobody},
               instance : Instances, session : Sessions, key : Keys]
AskHandings == [at : {"taken", "decided"}, added : BOOLEAN, surface : Surfaces \cup {Ask!Nobody},
                instance : Instances, session : Sessions, key : Keys]

\* The pages, and the queue of one goroutine at most.
AskTyped ==
    /\ pages \in [Surfaces -> AskPages]
    /\ \A u \in Surfaces : pages[u] # Ask!NoPage => pages[u].instance \in Instances
    /\ owners \in [Instances -> Surfaces \cup {Ask!Nobody}]
    /\ changes \in Seq(AskChanges) /\ handing \in AskHandings \cup {Ask!Idle}
    /\ handing.at = "decided" => handing.added
    /\ dispatching \in BOOLEAN /\ allowed \in BOOLEAN /\ focusedOn \subseteq Surfaces
    /\ screen \subseteq Ask!IDs /\ reports \in 0..MaxReports
    /\ ~dispatching => changes = <<>> /\ handing = Ask!Idle

\* The interaction of a change, and whether one is pending.
AskIdOf(c) == <<c.instance, c.key>>
AskPending(id) == \E u \in Surfaces, s \in Sessions :
                      pages[u].instance = id[1] /\ pages[u].pending[s] = id[2]

\* What is announced of an interaction is true or will be withdrawn: it is pending, or a
\* removal waits behind everything that announces it.
AskCovered(id) ==
    \/ AskPending(id)
    \/ \E n \in 1..Len(changes) :
          /\ ~changes[n].added /\ AskIdOf(changes[n]) = id
          /\ \A m \in 1..Len(changes) : changes[m].added /\ AskIdOf(changes[m]) = id => m < n

\* So it is with every announcement that waits or is under way, and with every notification
\* on screen that the dispatcher is not just withdrawing.
AskTruthful ==
    \A id \in Ask!IDs :
        /\ \A n \in 1..Len(changes) : changes[n].added /\ AskIdOf(changes[n]) = id => AskCovered(id)
        /\ handing.added /\ AskIdOf(handing) = id => AskCovered(id)
        /\ id \in screen =>
              AskCovered(id) \/ (handing.at = "taken" /\ ~handing.added /\ AskIdOf(handing) = id)

\* The ring begins at its start until it is full; its slots hold the ids in the set, each once.
AskRing ==
    /\ seenOrder \in [0..(MaxRemembered - 1) -> Ask!IDs \cup {<<Ask!Nobody, Ask!NoKey>>}]
    /\ seenNext \in 0..(MaxRemembered - 1) /\ seenCount \in 0..MaxRemembered
    /\ seen \subseteq Ask!IDs
    /\ seenCount < MaxRemembered => seenNext = 0
    /\ seen = {seenOrder[k] : k \in 0..(seenCount - 1)}
    /\ \A k, l \in 0..(seenCount - 1) : seenOrder[k] = seenOrder[l] => k = l

AskInv == AskTyped /\ Ask!OwnersMatchPages /\ AskTruthful /\ AskRing

\* The ring stays as it is.
LEMMA AskRingStays == AskRing /\ UNCHANGED Ask!routerVars => AskRing'
  BY DEF AskRing, Ask!routerVars

-----------------------------------------------------------------------------
\* The two definitions of cardinality agree.
LEMMA AskCardinality == \A S : Ask!Cardinality(S) = Cardinality(S)
  BY DEF Ask!Cardinality, Cardinality

\* A sequence of a set holds every element of it, and nothing else.
LEMMA AskSeqOfSet ==
  ASSUME NEW S, IsFiniteSet(S)
  PROVE  /\ Ask!SetToSeq(S) \in Seq(S)
         /\ \A x \in S : \E i \in 1..Len(Ask!SetToSeq(S)) : Ask!SetToSeq(S)[i] = x
<1> DEFINE c == Cardinality(S)
           s == Ask!SetToSeq(S)
<1>1. c \in Nat /\ ExistsBijection(1..c, S)
  BY FS_CardinalityType
<1>2. PICK b : b \in Bijection(1..c, S)
  BY <1>1 DEF ExistsBijection
<1>3. b \in [1..c -> S] /\ \A i, j \in 1..c : b[i] = b[j] => i = j
  BY <1>2 DEF Bijection, Injection, IsInjective
<1>4. s \in [1..c -> S] /\ \A i, j \in 1..c : s[i] = s[j] => i = j
  <2>1. s = CHOOSE f \in [1..c -> S] : Ask!IsInjective(f)
    BY AskCardinality DEF Ask!SetToSeq
  <2>2. Ask!IsInjective(b)
    BY <1>3 DEF Ask!IsInjective
  <2>3. s \in [1..c -> S] /\ Ask!IsInjective(s)
    <3> HIDE DEF s
    <3> QED BY <1>3, <2>1, <2>2
  <2> HIDE DEF s
  <2> QED BY <2>3 DEF Ask!IsInjective
<1> HIDE DEF s
<1>5. s \in Seq(S) /\ Len(s) = c
  BY <1>1, <1>4
<1>6. s \in Surjection(1..c, S)
  <2>1. s \in Injection(1..c, S)
    BY <1>4 DEF Injection, IsInjective
  <2>2. IsFiniteSet(1..c) /\ Cardinality(1..c) = c
    BY <1>1, FS_Interval
  <2> QED BY <2>1, <2>2, FS_Injection
<1> QED BY <1>4, <1>5, <1>6 DEF Surjection, s

-----------------------------------------------------------------------------
\* Changes are queued behind the others: what goes is withdrawn, what is announced is there.
LEMMA AskQueues ==
  ASSUME AskTyped, AskTruthful, NEW more \in Seq(AskChanges), Ask!Queue(more),
         \A id \in Ask!IDs :
             AskPending(id) =>
                 AskPending(id)' \/ \E n \in 1..Len(more) : ~more[n].added /\ AskIdOf(more[n]) = id,
         \A id \in Ask!IDs, n \in 1..Len(more) :
             more[n].added /\ AskIdOf(more[n]) = id => AskPending(id)',
         UNCHANGED <<handing, screen>>
  PROVE  /\ AskTruthful' /\ changes' \in Seq(AskChanges) /\ dispatching' \in BOOLEAN
         /\ ~dispatching' => changes' = <<>> /\ handing' = Ask!Idle
<1>1. /\ changes' = changes \o more /\ changes \in Seq(AskChanges)
      /\ changes' \in Seq(AskChanges) /\ Len(changes') = Len(changes) + Len(more)
      /\ Len(changes) \in Nat /\ Len(more) \in Nat
      /\ \A n \in 1..Len(changes) : changes'[n] = changes[n]
      /\ \A n \in 1..Len(more) : Len(changes) + n \in 1..Len(changes') /\ changes'[Len(changes) + n] = more[n]
  BY DEF AskTyped, Ask!Queue
<1>2. \A n \in 1..Len(changes') : n \in 1..Len(changes) \/ \E m \in 1..Len(more) : n = Len(changes) + m
  <2> TAKE n \in 1..Len(changes')
  <2>1. n \notin 1..Len(changes) => n - Len(changes) \in 1..Len(more) /\ n = Len(changes) + (n - Len(changes))
    BY <1>1
  <2> QED BY <2>1
<1>4. ASSUME NEW id \in Ask!IDs, AskCovered(id) PROVE AskCovered(id)'
  <2>1. CASE AskPending(id)'
    BY <2>1 DEF AskCovered
  <2>2. CASE ~AskPending(id)'
    <3>1. \A n \in 1..Len(changes') : changes'[n].added /\ AskIdOf(changes'[n]) = id => n \in 1..Len(changes)
      BY <1>1, <1>2, <2>2
    <3>2. CASE AskPending(id)
      <4>1. PICK k \in 1..Len(more) : ~more[k].added /\ AskIdOf(more[k]) = id
        BY <2>2, <3>2
      <4>2. /\ Len(changes) + k \in 1..Len(changes')
            /\ ~changes'[Len(changes) + k].added /\ AskIdOf(changes'[Len(changes) + k]) = id
        BY <1>1, <4>1
      <4>3. \A m \in 1..Len(changes) : m < Len(changes) + k
        BY <1>1
      <4> QED BY <3>1, <4>2, <4>3 DEF AskCovered
    <3>3. CASE ~AskPending(id)
      <4>1. PICK n \in 1..Len(changes) :
                /\ ~changes[n].added /\ AskIdOf(changes[n]) = id
                /\ \A m \in 1..Len(changes) : changes[m].added /\ AskIdOf(changes[m]) = id => m < n
        BY <1>4, <3>3 DEF AskCovered
      <4>2. n \in 1..Len(changes') /\ ~changes'[n].added /\ AskIdOf(changes'[n]) = id
        BY <1>1, <4>1
      <4>3. \A m \in 1..Len(changes') : changes'[m].added /\ AskIdOf(changes'[m]) = id => m < n
        BY <1>1, <3>1, <4>1
      <4> QED BY <4>2, <4>3 DEF AskCovered
    <3> QED BY <3>2, <3>3
  <2> QED BY <2>1, <2>2
<1>5. AskTruthful'
  <2> SUFFICES ASSUME NEW id \in Ask!IDs
               PROVE  /\ \A n \in 1..Len(changes') :
                            changes'[n].added /\ AskIdOf(changes'[n]) = id => AskCovered(id)'
                      /\ handing'.added /\ AskIdOf(handing') = id => AskCovered(id)'
                      /\ id \in screen' =>
                            \/ AskCovered(id)'
                            \/ handing'.at = "taken" /\ ~handing'.added /\ AskIdOf(handing') = id
    BY DEF AskTruthful, AskIdOf
  <2>1. ASSUME NEW n \in 1..Len(changes'), changes'[n].added, AskIdOf(changes'[n]) = id
        PROVE  AskCovered(id)'
    <3>1. CASE n \in 1..Len(changes)
      BY <1>1, <1>4, <2>1, <3>1 DEF AskTruthful
    <3>2. CASE \E m \in 1..Len(more) : n = Len(changes) + m
      BY <1>1, <2>1, <3>2 DEF AskCovered
    <3> QED BY <1>2, <3>1, <3>2
  <2> QED BY <1>4, <2>1 DEF AskTruthful
<1>8. /\ dispatching' \in BOOLEAN
      /\ ~dispatching' => changes' = <<>> /\ handing' = Ask!Idle
  BY DEF AskTyped, Ask!Queue
<1> QED BY <1>1, <1>5, <1>8

\* What removes a page's interactions: a change for each, and no other.
LEMMA AskRemoves ==
  ASSUME AskTyped, NEW u \in Surfaces, pages[u].instance \in Instances
  PROVE  /\ IsFiniteSet(Ask!Removals(pages[u])) /\ Ask!Removals(pages[u]) \subseteq AskChanges
         /\ \A c \in Ask!Removals(pages[u]) : ~c.added
         /\ \A s \in Sessions : pages[u].pending[s] # Ask!NoKey =>
               \E c \in Ask!Removals(pages[u]) : AskIdOf(c) = <<pages[u].instance, pages[u].pending[s]>>
<1> DEFINE f == [s \in Sessions |-> Ask!Change(FALSE, Ask!Nobody, pages[u].instance, s, pages[u].pending[s])]
           held == {s \in Sessions : pages[u].pending[s] # Ask!NoKey}
<1>1. Ask!Removals(pages[u]) = {f[s] : s \in held}
  BY DEF Ask!Removals
<1>2. IsFiniteSet(held)
  BY AskAssumption, FS_Subset
<1>3. IsFiniteSet(Ask!Removals(pages[u]))
  <2> DEFINE g == [s \in held |-> f[s]]
  <2>1. g \in Surjection(held, Ask!Removals(pages[u]))
    <3>1. g \in [held -> Ask!Removals(pages[u])]
      <4> HIDE DEF f, held
      <4> QED BY <1>1
    <3>2. \A c \in Ask!Removals(pages[u]) : \E s \in held : g[s] = c
      <4> HIDE DEF f, held
      <4> QED BY <1>1
    <3> HIDE DEF g, held
    <3> QED BY <3>1, <3>2 DEF Surjection
  <2> HIDE DEF g, held
  <2> QED BY <1>2, <2>1, FS_Surjection
<1>4. \A s \in Sessions : pages[u].pending[s] \in Keys \cup {Ask!NoKey}
  BY DEF AskTyped, AskPages
<1>5. \A s \in held : f[s] \in AskChanges /\ f[s].added = FALSE
                      /\ AskIdOf(f[s]) = <<pages[u].instance, pages[u].pending[s]>>
  <2> TAKE s \in held
  <2>1. s \in Sessions /\ pages[u].pending[s] \in Keys
    BY <1>4
  <2>2. f[s] = [at |-> "taken", added |-> FALSE, surface |-> Ask!Nobody, instance |-> pages[u].instance,
                session |-> s, key |-> pages[u].pending[s]]
    BY <2>1 DEF Ask!Change
  <2> HIDE DEF f, held
  <2> QED BY <2>1, <2>2 DEF AskChanges, AskIdOf
<1>6. \A s \in Sessions : pages[u].pending[s] # Ask!NoKey => s \in held
  OBVIOUS
<1> HIDE DEF f, held
<1> QED BY <1>1, <1>3, <1>5, <1>6

\* A report replaces the page of its window: what it drops of the page it says to remove, the
\* page of another instance is removed whole.
LEMMA AskReports ==
  ASSUME AskInv, NEW u \in Surfaces, NEW i \in Instances, NEW page \in AskPages, page.instance = i,
         NEW extra \in Seq(AskChanges),
         owners[i] \in {u, Ask!Nobody}, reports < MaxReports, reports' = reports + 1,
         pages' = [pages EXCEPT ![u] = page],
         owners' = [j \in Instances |->
             IF j = i THEN u
             ELSE IF pages[u].instance \notin {Ask!Nobody, i} /\ j = pages[u].instance THEN Ask!Nobody
             ELSE owners[j]],
         Ask!Queue((IF pages[u].instance \notin {Ask!Nobody, i}
                    THEN Ask!SetToSeq(Ask!Removals(pages[u])) ELSE <<>>) \o extra),
         pages[u].instance = i =>
             \A s \in Sessions : pages[u].pending[s] # Ask!NoKey =>
                 \/ \E t \in Sessions : page.pending[t] = pages[u].pending[s]
                 \/ \E n \in 1..Len(extra) :
                       ~extra[n].added /\ AskIdOf(extra[n]) = <<i, pages[u].pending[s]>>,
         \A n \in 1..Len(extra) : extra[n].added =>
             extra[n].instance = i /\ \E t \in Sessions : page.pending[t] = extra[n].key,
         UNCHANGED <<handing, focusedOn, allowed, screen>>, UNCHANGED Ask!routerVars
  PROVE  AskInv'
<1>n. /\ Ask!Nobody \notin Surfaces /\ Ask!Nobody \notin Instances /\ Ask!NoKey \notin Keys
      /\ MaxReports \in Nat
  BY AskAssumption DEF Ask!Nobody, Ask!NoKey
<1>t. /\ pages \in [Surfaces -> AskPages] /\ owners \in [Instances -> Surfaces \cup {Ask!Nobody}]
      /\ pages[u].instance \in Instances \cup {Ask!Nobody}
      /\ reports \in 0..MaxReports
  BY DEF AskInv, AskTyped, AskPages
<1>1. pages' \in [Surfaces -> AskPages] /\ pages'[u] = page
      /\ \A v \in Surfaces \ {u} : pages'[v] = pages[v]
  BY <1>t
<1>2. \A v \in Surfaces : pages'[v] # Ask!NoPage => pages'[v].instance \in Instances
  BY <1>1 DEF AskInv, AskTyped
<1>3. owners' \in [Instances -> Surfaces \cup {Ask!Nobody}]
  BY <1>t
<1>4. Ask!OwnersMatchPages'
  <2>1. \A v \in Surfaces, j \in Instances : owners[j] = v <=> pages[v].instance = j
    BY DEF AskInv, Ask!OwnersMatchPages
  <2>2. ASSUME NEW v \in Surfaces, NEW j \in Instances PROVE owners'[j] = v <=> pages'[v].instance = j
    <3>1. CASE j = i
      BY <1>n, <1>t, <1>1, <2>1, <3>1
    <3>2. CASE j # i /\ v = u
      BY <1>n, <1>t, <1>1, <2>1, <3>2
    <3>3. CASE j # i /\ v # u
      BY <1>n, <1>t, <1>1, <2>1, <3>3
    <3> QED BY <3>1, <3>2, <3>3
  <2> QED BY <2>2 DEF Ask!OwnersMatchPages
<1>5. PICK first : first = IF pages[u].instance \notin {Ask!Nobody, i}
                           THEN Ask!SetToSeq(Ask!Removals(pages[u])) ELSE <<>>
  OBVIOUS
<1>6. /\ first \in Seq(AskChanges)
      /\ \A n \in 1..Len(first) : ~first[n].added
      /\ pages[u].instance \notin {Ask!Nobody, i} =>
            \A s \in Sessions : pages[u].pending[s] # Ask!NoKey =>
                \E n \in 1..Len(first) : AskIdOf(first[n]) = <<pages[u].instance, pages[u].pending[s]>>
  <2>1. CASE pages[u].instance \notin {Ask!Nobody, i}
    <3>1. pages[u].instance \in Instances /\ first = Ask!SetToSeq(Ask!Removals(pages[u]))
      BY <1>5, <1>t, <2>1
    <3>2. /\ IsFiniteSet(Ask!Removals(pages[u])) /\ Ask!Removals(pages[u]) \subseteq AskChanges
          /\ \A c \in Ask!Removals(pages[u]) : ~c.added
          /\ \A s \in Sessions : pages[u].pending[s] # Ask!NoKey =>
                \E c \in Ask!Removals(pages[u]) : AskIdOf(c) = <<pages[u].instance, pages[u].pending[s]>>
      BY <3>1, AskRemoves DEF AskInv
    <3>3. /\ first \in Seq(Ask!Removals(pages[u]))
          /\ \A c \in Ask!Removals(pages[u]) : \E n \in 1..Len(first) : first[n] = c
      BY <3>1, <3>2, AskSeqOfSet
    <3>4. \A n \in 1..Len(first) : first[n] \in Ask!Removals(pages[u])
      BY <3>3
    <3>5. first \in Seq(AskChanges)
      BY <3>2, <3>3
    <3>6. \A s \in Sessions : pages[u].pending[s] # Ask!NoKey =>
              \E n \in 1..Len(first) : AskIdOf(first[n]) = <<pages[u].instance, pages[u].pending[s]>>
      <4> TAKE s \in Sessions
      <4> HAVE pages[u].pending[s] # Ask!NoKey
      <4>1. PICK c \in Ask!Removals(pages[u]) : AskIdOf(c) = <<pages[u].instance, pages[u].pending[s]>>
        BY <3>2
      <4>2. PICK n \in 1..Len(first) : first[n] = c
        BY <3>3
      <4> QED BY <4>1, <4>2
    <3> QED BY <3>2, <3>4, <3>5, <3>6
  <2>2. CASE pages[u].instance \in {Ask!Nobody, i}
    <3>1. first = <<>>
      BY <1>5, <2>2
    <3>2. <<>> \in Seq(AskChanges) /\ Len(<<>>) = 0
      OBVIOUS
    <3> QED BY <2>2, <3>1, <3>2
  <2> QED BY <2>1, <2>2
<1>7. PICK more : more = first \o extra
  OBVIOUS
<1>8. /\ more \in Seq(AskChanges) /\ Len(more) = Len(first) + Len(extra)
      /\ Len(first) \in Nat /\ Len(extra) \in Nat
      /\ \A n \in 1..Len(first) : n \in 1..Len(more) /\ more[n] = first[n]
      /\ \A n \in 1..Len(extra) : Len(first) + n \in 1..Len(more) /\ more[Len(first) + n] = extra[n]
  BY <1>6, <1>7
<1>9. \A n \in 1..Len(more) : n \in 1..Len(first) \/ \E m \in 1..Len(extra) : n = Len(first) + m
  <2> TAKE n \in 1..Len(more)
  <2>1. n \notin 1..Len(first) => n - Len(first) \in 1..Len(extra) /\ n = Len(first) + (n - Len(first))
    BY <1>8
  <2> QED BY <2>1
<1>10. \A id \in Ask!IDs :
          AskPending(id) => AskPending(id)' \/ \E n \in 1..Len(more) : ~more[n].added /\ AskIdOf(more[n]) = id
  <2> SUFFICES ASSUME NEW id \in Ask!IDs, AskPending(id), ~AskPending(id)'
               PROVE  \E n \in 1..Len(more) : ~more[n].added /\ AskIdOf(more[n]) = id
    OBVIOUS
  <2>1. PICK v \in Surfaces, s \in Sessions : pages[v].instance = id[1] /\ pages[v].pending[s] = id[2]
    BY DEF AskPending
  <2>2. v = u
    BY <1>1, <2>1 DEF AskPending
  <2>3. id[1] \in Instances /\ id[2] \in Keys /\ id = <<id[1], id[2]>>
    BY DEF Ask!IDs
  <2>4. CASE pages[u].instance = i
    <3>1. ~ \E t \in Sessions : page.pending[t] = id[2]
      BY <1>1, <2>1, <2>2, <2>4 DEF AskPending
    <3>2. PICK n \in 1..Len(extra) : ~extra[n].added /\ AskIdOf(extra[n]) = <<i, pages[u].pending[s]>>
      BY <1>n, <2>1, <2>2, <2>3, <2>4, <3>1
    <3> QED BY <1>8, <2>1, <2>2, <2>3, <2>4, <3>2
  <2>5. CASE pages[u].instance # i
    <3>1. PICK n \in 1..Len(first) : AskIdOf(first[n]) = <<pages[u].instance, pages[u].pending[s]>>
      BY <1>n, <1>6, <2>1, <2>2, <2>3, <2>5
    <3> QED BY <1>6, <1>8, <2>1, <2>2, <2>3, <3>1
  <2> QED BY <2>4, <2>5
<1>11. \A id \in Ask!IDs, n \in 1..Len(more) : more[n].added /\ AskIdOf(more[n]) = id => AskPending(id)'
  <2> SUFFICES ASSUME NEW id \in Ask!IDs, NEW n \in 1..Len(more), more[n].added, AskIdOf(more[n]) = id
               PROVE  AskPending(id)'
    OBVIOUS
  <2>1. PICK m \in 1..Len(extra) : n = Len(first) + m
    BY <1>6, <1>8, <1>9
  <2>2. extra[m].added /\ AskIdOf(extra[m]) = id
    BY <1>8, <2>1
  <2>3. id[1] = i /\ \E t \in Sessions : page.pending[t] = id[2]
    BY <2>2 DEF AskIdOf
  <2> QED BY <1>1, <2>3 DEF AskPending
<1>12. Ask!Queue(more)
  BY <1>5, <1>7
<1>13. /\ AskTruthful' /\ changes' \in Seq(AskChanges) /\ dispatching' \in BOOLEAN
       /\ ~dispatching' => changes' = <<>> /\ handing' = Ask!Idle
  BY <1>8, <1>10, <1>11, <1>12, AskQueues DEF AskInv
<1>14. reports' \in 0..MaxReports
  BY <1>n, <1>t
<1>15. AskTyped'
  BY <1>1, <1>2, <1>3, <1>13, <1>14 DEF AskInv, AskTyped
<1> QED BY <1>4, <1>13, <1>15, AskRingStays DEF AskInv

\* One change, and one after another.
LEMMA AskConcat ==
  ASSUME NEW S, NEW a \in Seq(S), NEW b \in Seq(S)
  PROVE  /\ a \o b \in Seq(S) /\ Len(a \o b) = Len(a) + Len(b) /\ Len(a) \in Nat /\ Len(b) \in Nat
         /\ \A n \in 1..Len(a) : (a \o b)[n] = a[n]
         /\ \A n \in 1..Len(b) : (a \o b)[Len(a) + n] = b[n]
  OBVIOUS

\* One change, or none, is a list of changes.
LEMMA AskSingle ==
  ASSUME NEW S, NEW c \in S
  PROVE  <<c>> \in Seq(S) /\ Len(<<c>>) = 1 /\ <<c>>[1] = c /\ <<>> \in Seq(S) /\ Len(<<>>) = 0
  OBVIOUS

\* So are two, queued one behind the other.
LEMMA AskPair ==
  ASSUME NEW S, NEW c \in S, NEW d \in S
  PROVE  /\ <<>> \o <<c>> \in Seq(S) /\ Len(<<>> \o <<c>>) = 1 /\ (<<>> \o <<c>>)[1] = c
         /\ <<d>> \o <<c>> \in Seq(S) /\ Len(<<d>> \o <<c>>) = 2
         /\ (<<d>> \o <<c>>)[1] = d /\ (<<d>> \o <<c>>)[2] = c
<1>1. PICK a : a = <<c>>
  OBVIOUS
<1>2. PICK b : b = <<d>>
  OBVIOUS
<1>3. PICK e : e = <<>>
  OBVIOUS
<1>4. /\ a \in Seq(S) /\ Len(a) = 1 /\ a[1] = c /\ b \in Seq(S) /\ Len(b) = 1 /\ b[1] = d
      /\ e \in Seq(S) /\ Len(e) = 0
  BY <1>1, <1>2, <1>3, AskSingle
<1>5. 0 + 1 = 1 /\ 1 + 1 = 2 /\ 1 \in 1..1
  OBVIOUS
<1>6. e \o a \in Seq(S) /\ Len(e \o a) = 1 /\ (e \o a)[1] = c
  BY <1>4, <1>5, AskConcat
<1>7. b \o a \in Seq(S) /\ Len(b \o a) = 2 /\ (b \o a)[1] = d /\ (b \o a)[2] = c
  BY <1>4, <1>5, AskConcat
<1> QED BY <1>1, <1>2, <1>3, <1>6, <1>7

\* The page an instance reports on, before the report.
LEMMA AskPageOf ==
  ASSUME AskTyped, NEW u \in Surfaces, NEW i \in Instances, NEW page,
         page = IF pages[u].instance = i THEN pages[u] ELSE [Ask!NoPage EXCEPT !.instance = i]
  PROVE  /\ page \in AskPages /\ page.instance = i
         /\ pages[u].instance = i => page = pages[u]
<1>1. pages[u] \in AskPages
  BY DEF AskTyped
<1>2. [Ask!NoPage EXCEPT !.instance = i] \in AskPages /\ [Ask!NoPage EXCEPT !.instance = i].instance = i
  BY DEF Ask!NoPage, AskPages
<1> QED BY <1>1, <1>2

\* A page says which conversation is in view.
LEMMA AskPageReports ==
  ASSUME AskInv, NEW u \in Surfaces, NEW i \in Instances, Ask!ReportPage(u, i)
  PROVE  AskInv'
<1>1. PICK s \in Sessions \cup {Ask!NoKey} :
          Ask!Report(u, i, LAMBDA p : [p EXCEPT !.front = s], LAMBDA p : <<>>)
  BY DEF Ask!ReportPage
<1>2. PICK base : base = IF pages[u].instance = i THEN pages[u] ELSE [Ask!NoPage EXCEPT !.instance = i]
  OBVIOUS
<1>3. base \in AskPages /\ base.instance = i /\ (pages[u].instance = i => base = pages[u])
  BY <1>2, AskPageOf DEF AskInv
<1>4. PICK page : page = [base EXCEPT !.front = s]
  OBVIOUS
<1>5. page \in AskPages /\ page.instance = i /\ page.pending = base.pending
  BY <1>3, <1>4 DEF AskPages
<1>6. /\ owners[i] \in {u, Ask!Nobody} /\ reports < MaxReports /\ reports' = reports + 1
      /\ pages' = [pages EXCEPT ![u] = page]
      /\ owners' = [j \in Instances |->
             IF j = i THEN u
             ELSE IF pages[u].instance \notin {Ask!Nobody, i} /\ j = pages[u].instance THEN Ask!Nobody
             ELSE owners[j]]
      /\ Ask!Queue((IF pages[u].instance \notin {Ask!Nobody, i}
                    THEN Ask!SetToSeq(Ask!Removals(pages[u])) ELSE <<>>) \o <<>>)
      /\ UNCHANGED <<handing, focusedOn, allowed, screen>> /\ UNCHANGED Ask!routerVars
  BY <1>1, <1>2, <1>4 DEF Ask!Report
<1>7. <<>> \in Seq(AskChanges) /\ Len(<<>>) = 0
  OBVIOUS
<1>8. \A n \in 1..0 : FALSE
  OBVIOUS
<1> QED BY <1>3, <1>5, <1>6, <1>7, <1>8, AskReports

\* A page takes back an interaction.
LEMMA AskRemovedReports ==
  ASSUME AskInv, NEW u \in Surfaces, NEW i \in Instances, NEW s \in Sessions, Ask!ReportRemoved(u, i, s)
  PROVE  AskInv'
<1>2. PICK base : base = IF pages[u].instance = i THEN pages[u] ELSE [Ask!NoPage EXCEPT !.instance = i]
  OBVIOUS
<1>3. base \in AskPages /\ base.instance = i /\ (pages[u].instance = i => base = pages[u])
  BY <1>2, AskPageOf DEF AskInv
<1>4. PICK page : page = [base EXCEPT !.pending[s] = Ask!NoKey]
  OBVIOUS
<1>5. /\ page \in AskPages /\ page.instance = i
      /\ \A t \in Sessions \ {s} : page.pending[t] = base.pending[t]
  BY <1>3, <1>4 DEF AskPages
<1>x. PICK extra : extra = IF base.pending[s] = Ask!NoKey THEN <<>>
                           ELSE <<Ask!Change(FALSE, Ask!Nobody, i, s, base.pending[s])>>
  OBVIOUS
<1>6. /\ owners[i] \in {u, Ask!Nobody} /\ reports < MaxReports /\ reports' = reports + 1
      /\ pages' = [pages EXCEPT ![u] = page]
      /\ owners' = [j \in Instances |->
             IF j = i THEN u
             ELSE IF pages[u].instance \notin {Ask!Nobody, i} /\ j = pages[u].instance THEN Ask!Nobody
             ELSE owners[j]]
      /\ Ask!Queue((IF pages[u].instance \notin {Ask!Nobody, i}
                    THEN Ask!SetToSeq(Ask!Removals(pages[u])) ELSE <<>>) \o extra)
      /\ UNCHANGED <<handing, focusedOn, allowed, screen>> /\ UNCHANGED Ask!routerVars
  BY <1>2, <1>4, <1>x DEF Ask!ReportRemoved, Ask!Report
<1>7. /\ extra \in Seq(AskChanges)
      /\ \A n \in 1..Len(extra) : ~extra[n].added
      /\ base.pending[s] # Ask!NoKey => \E n \in 1..Len(extra) : AskIdOf(extra[n]) = <<i, base.pending[s]>>
  <2>1. CASE base.pending[s] = Ask!NoKey
    <3>1. extra = <<>> /\ <<>> \in Seq(AskChanges) /\ Len(<<>>) = 0
      BY <1>x, <2>1
    <3> QED BY <2>1, <3>1
  <2>2. CASE base.pending[s] # Ask!NoKey
    <3>1. base.pending[s] \in Keys
      BY <1>3, <2>2 DEF AskPages
    <3>2. PICK c : c = [at |-> "taken", added |-> FALSE, surface |-> Ask!Nobody, instance |-> i,
                        session |-> s, key |-> base.pending[s]]
      OBVIOUS
    <3>3. c \in AskChanges /\ ~c.added /\ AskIdOf(c) = <<i, base.pending[s]>>
      BY <3>1, <3>2 DEF AskChanges, AskIdOf
    <3>4. extra = <<c>>
      BY <1>x, <2>2, <3>2 DEF Ask!Change
    <3>5. extra \in Seq(AskChanges) /\ Len(extra) = 1 /\ extra[1] = c
      BY <3>3, <3>4
    <3> QED BY <3>3, <3>5
  <2> QED BY <2>1, <2>2
<1>8. pages[u].instance = i =>
          \A r \in Sessions : pages[u].pending[r] # Ask!NoKey =>
              \/ \E t \in Sessions : page.pending[t] = pages[u].pending[r]
              \/ \E n \in 1..Len(extra) :
                    ~extra[n].added /\ AskIdOf(extra[n]) = <<i, pages[u].pending[r]>>
  BY <1>3, <1>5, <1>7
<1> QED BY <1>5, <1>6, <1>7, <1>8, AskReports

\* A page announces an interaction, over another one or not.
LEMMA AskAddedReports ==
  ASSUME AskInv, NEW u \in Surfaces, NEW i \in Instances, NEW s \in Sessions, NEW k \in Keys,
         Ask!ReportAdded(u, i, s, k)
  PROVE  AskInv'
<1>2. PICK base : base = IF pages[u].instance = i THEN pages[u] ELSE [Ask!NoPage EXCEPT !.instance = i]
  OBVIOUS
<1>3. base \in AskPages /\ base.instance = i /\ (pages[u].instance = i => base = pages[u])
  BY <1>2, AskPageOf DEF AskInv
<1>4. PICK page : page = [base EXCEPT !.pending[s] = k]
  OBVIOUS
<1>5. /\ page \in AskPages /\ page.instance = i /\ page.pending[s] = k
      /\ \A t \in Sessions \ {s} : page.pending[t] = base.pending[t]
  BY <1>3, <1>4 DEF AskPages
<1>x. PICK extra : extra = IF base.pending[s] = k THEN <<>>
                           ELSE (IF base.pending[s] = Ask!NoKey THEN <<>>
                                 ELSE <<Ask!Change(FALSE, Ask!Nobody, i, s, base.pending[s])>>)
                                \o <<Ask!Change(TRUE, u, i, s, k)>>
  OBVIOUS
<1>6. /\ owners[i] \in {u, Ask!Nobody} /\ reports < MaxReports /\ reports' = reports + 1
      /\ pages' = [pages EXCEPT ![u] = page]
      /\ owners' = [j \in Instances |->
             IF j = i THEN u
             ELSE IF pages[u].instance \notin {Ask!Nobody, i} /\ j = pages[u].instance THEN Ask!Nobody
             ELSE owners[j]]
      /\ Ask!Queue((IF pages[u].instance \notin {Ask!Nobody, i}
                    THEN Ask!SetToSeq(Ask!Removals(pages[u])) ELSE <<>>) \o extra)
      /\ UNCHANGED <<handing, focusedOn, allowed, screen>> /\ UNCHANGED Ask!routerVars
  BY <1>2, <1>4, <1>x DEF Ask!ReportAdded, Ask!Report
<1>a. PICK c : c = [at |-> "taken", added |-> TRUE, surface |-> u, instance |-> i, session |-> s, key |-> k]
  OBVIOUS
<1>b. c \in AskChanges /\ c.instance = i /\ c.key = k /\ c = Ask!Change(TRUE, u, i, s, k)
  BY <1>a DEF AskChanges, Ask!Change
<1>7. /\ extra \in Seq(AskChanges)
      /\ \A n \in 1..Len(extra) : extra[n].added => extra[n].instance = i /\ extra[n].key = k
      /\ base.pending[s] \notin {Ask!NoKey, k} =>
            \E n \in 1..Len(extra) : ~extra[n].added /\ AskIdOf(extra[n]) = <<i, base.pending[s]>>
  <2>1. CASE base.pending[s] = k
    <3>1. extra = <<>> /\ <<>> \in Seq(AskChanges) /\ Len(<<>>) = 0
      BY <1>x, <2>1
    <3> QED BY <2>1, <3>1
  <2>2. CASE base.pending[s] # k /\ base.pending[s] = Ask!NoKey
    <3>1. extra = <<>> \o <<c>>
      BY <1>x, <1>b, <2>2
    <3>2. extra \in Seq(AskChanges) /\ Len(extra) = 1 /\ extra[1] = c
      BY <1>b, <3>1, AskPair
    <3>3. \A n \in 1..Len(extra) : n = 1
      BY <3>2
    <3> QED BY <1>b, <2>2, <3>2, <3>3
  <2>3. CASE base.pending[s] # k /\ base.pending[s] # Ask!NoKey
    <3>1. base.pending[s] \in Keys
      BY <1>3, <2>3 DEF AskPages
    <3>2. PICK d : d = [at |-> "taken", added |-> FALSE, surface |-> Ask!Nobody, instance |-> i,
                        session |-> s, key |-> base.pending[s]]
      OBVIOUS
    <3>3. d \in AskChanges /\ ~d.added /\ AskIdOf(d) = <<i, base.pending[s]>>
      BY <3>1, <3>2 DEF AskChanges, AskIdOf
    <3>4. extra = <<d>> \o <<c>>
      BY <1>x, <1>b, <2>3, <3>2 DEF Ask!Change
    <3>5. extra \in Seq(AskChanges) /\ Len(extra) = 2 /\ extra[1] = d /\ extra[2] = c
      <4>1. c \in AskChanges /\ d \in AskChanges
        BY <1>b, <3>3
      <4>2. /\ <<d>> \o <<c>> \in Seq(AskChanges) /\ Len(<<d>> \o <<c>>) = 2
            /\ (<<d>> \o <<c>>)[1] = d /\ (<<d>> \o <<c>>)[2] = c
        BY <4>1, AskPair
      <4> QED BY <3>4, <4>2
    <3>6. \A n \in 1..Len(extra) : n = 1 \/ n = 2
      BY <3>5
    <3>7. 1 \in 1..Len(extra)
      BY <3>5
    <3> QED BY <1>b, <3>3, <3>5, <3>6, <3>7
  <2> QED BY <2>1, <2>2, <2>3
<1>8. pages[u].instance = i =>
          \A r \in Sessions : pages[u].pending[r] # Ask!NoKey =>
              \/ \E t \in Sessions : page.pending[t] = pages[u].pending[r]
              \/ \E n \in 1..Len(extra) :
                    ~extra[n].added /\ AskIdOf(extra[n]) = <<i, pages[u].pending[r]>>
  BY <1>3, <1>5, <1>7
<1>9. \A n \in 1..Len(extra) : extra[n].added =>
          extra[n].instance = i /\ \E t \in Sessions : page.pending[t] = extra[n].key
  BY <1>5, <1>7
<1> QED BY <1>5, <1>6, <1>7, <1>8, <1>9, AskReports

\* Pages go with all they held.
LEMMA AskPagesGo ==
  ASSUME AskInv, NEW us \in SUBSET Surfaces, Ask!RemovePages(us), focusedOn' \subseteq Surfaces,
         UNCHANGED <<handing, allowed, screen, reports>>, UNCHANGED Ask!routerVars
  PROVE  AskInv'
<1>n. Ask!Nobody \notin Surfaces /\ Ask!Nobody \notin Instances /\ Ask!NoKey \notin Keys
  BY AskAssumption DEF Ask!Nobody, Ask!NoKey
<1>t. /\ pages \in [Surfaces -> AskPages] /\ owners \in [Instances -> Surfaces \cup {Ask!Nobody}]
      /\ \A u \in Surfaces : pages[u] # Ask!NoPage => pages[u].instance \in Instances
      /\ Ask!NoPage.instance = Ask!Nobody /\ Ask!NoPage \in AskPages
  BY DEF AskInv, AskTyped, AskPages, Ask!NoPage
<1>g. PICK gone : gone = {u \in us : pages[u] # Ask!NoPage}
  OBVIOUS
<1>1. /\ pages' = [u \in Surfaces |-> IF u \in gone THEN Ask!NoPage ELSE pages[u]]
      /\ owners' = [i \in Instances |-> IF owners[i] \in gone THEN Ask!Nobody ELSE owners[i]]
      /\ Ask!Queue(Ask!SetToSeq(UNION {Ask!Removals(pages[u]) : u \in gone}))
      /\ gone \subseteq Surfaces /\ \A u \in gone : pages[u] # Ask!NoPage
  BY <1>g DEF Ask!RemovePages
<1>2. /\ pages' \in [Surfaces -> AskPages]
      /\ \A u \in Surfaces : pages'[u] # Ask!NoPage => pages'[u].instance \in Instances
  BY <1>t, <1>1
<1>3. owners' \in [Instances -> Surfaces \cup {Ask!Nobody}]
  BY <1>t, <1>1
<1>4. Ask!OwnersMatchPages'
  BY <1>n, <1>t, <1>1 DEF AskInv, Ask!OwnersMatchPages
<1>5. PICK all : all = UNION {Ask!Removals(pages[u]) : u \in gone}
  OBVIOUS
<1>6. \A u \in gone :
          /\ IsFiniteSet(Ask!Removals(pages[u])) /\ Ask!Removals(pages[u]) \subseteq AskChanges
          /\ \A c \in Ask!Removals(pages[u]) : ~c.added
          /\ \A s \in Sessions : pages[u].pending[s] # Ask!NoKey =>
                \E c \in Ask!Removals(pages[u]) : AskIdOf(c) = <<pages[u].instance, pages[u].pending[s]>>
  BY <1>t, <1>1, AskRemoves DEF AskInv
<1>7. IsFiniteSet(all)
  <2> DEFINE Sets == {Ask!Removals(pages[u]) : u \in gone}
             f == [u \in gone |-> Ask!Removals(pages[u])]
  <2>1. IsFiniteSet(gone)
    BY <1>1, AskAssumption, FS_Subset
  <2>2. f \in Surjection(gone, Sets)
    BY DEF Surjection
  <2>3. \A S \in Sets : IsFiniteSet(S)
    BY <1>6
  <2>4. all = UNION Sets
    BY <1>5
  <2> HIDE DEF Sets, f
  <2>5. IsFiniteSet(Sets)
    BY <2>1, <2>2, FS_Surjection
  <2> QED BY <2>3, <2>4, <2>5, FS_UNION
<1>8. /\ all \subseteq AskChanges /\ \A c \in all : ~c.added
      /\ \A u \in gone, s \in Sessions : pages[u].pending[s] # Ask!NoKey =>
            \E c \in all : AskIdOf(c) = <<pages[u].instance, pages[u].pending[s]>>
  BY <1>5, <1>6
<1>9. PICK more : more = Ask!SetToSeq(all)
  OBVIOUS
<1>10. more \in Seq(all) /\ \A c \in all : \E n \in 1..Len(more) : more[n] = c
  BY <1>7, <1>9, AskSeqOfSet
<1>11. /\ more \in Seq(AskChanges) /\ \A n \in 1..Len(more) : ~more[n].added
       /\ \A u \in gone, s \in Sessions : pages[u].pending[s] # Ask!NoKey =>
             \E n \in 1..Len(more) : AskIdOf(more[n]) = <<pages[u].instance, pages[u].pending[s]>>
  <2>1. \A n \in 1..Len(more) : more[n] \in all
    BY <1>10
  <2>2. more \in Seq(AskChanges)
    BY <1>8, <1>10
  <2>3. \A n \in 1..Len(more) : ~more[n].added
    BY <1>8, <2>1
  <2>4. ASSUME NEW u \in gone, NEW s \in Sessions, pages[u].pending[s] # Ask!NoKey
        PROVE  \E n \in 1..Len(more) : AskIdOf(more[n]) = <<pages[u].instance, pages[u].pending[s]>>
    <3>1. PICK c \in all : AskIdOf(c) = <<pages[u].instance, pages[u].pending[s]>>
      BY <1>8, <2>4
    <3>2. PICK n \in 1..Len(more) : more[n] = c
      BY <1>10
    <3> QED BY <3>1, <3>2
  <2> QED BY <2>2, <2>3, <2>4
<1>12. \A id \in Ask!IDs :
          AskPending(id) => AskPending(id)' \/ \E n \in 1..Len(more) : ~more[n].added /\ AskIdOf(more[n]) = id
  <2> SUFFICES ASSUME NEW id \in Ask!IDs, AskPending(id), ~AskPending(id)'
               PROVE  \E n \in 1..Len(more) : ~more[n].added /\ AskIdOf(more[n]) = id
    OBVIOUS
  <2>1. PICK v \in Surfaces, s \in Sessions : pages[v].instance = id[1] /\ pages[v].pending[s] = id[2]
    BY DEF AskPending
  <2>2. v \in gone
    BY <1>1, <2>1 DEF AskPending
  <2>3. id[1] \in Instances /\ id[2] \in Keys /\ id = <<id[1], id[2]>>
    BY DEF Ask!IDs
  <2> QED BY <1>n, <1>11, <2>1, <2>2, <2>3
<1>13. Ask!Queue(more)
  BY <1>1, <1>5, <1>9
<1>14. /\ AskTruthful' /\ changes' \in Seq(AskChanges) /\ dispatching' \in BOOLEAN
       /\ ~dispatching' => changes' = <<>> /\ handing' = Ask!Idle
  BY <1>11, <1>12, <1>13, AskQueues DEF AskInv
<1>15. AskTyped'
  BY <1>2, <1>3, <1>14 DEF AskInv, AskTyped
<1> QED BY <1>4, <1>14, <1>15, AskRingStays DEF AskInv

-----------------------------------------------------------------------------
\* What the dispatcher takes, withdraws and announces.
LEMMA AskTakes ==
  ASSUME AskInv, Ask!Take
  PROVE  AskInv'
<1>t. /\ changes \in Seq(AskChanges) /\ dispatching = TRUE
      /\ UNCHANGED <<pages, owners, focusedOn, allowed, screen, reports>> /\ UNCHANGED Ask!routerVars
      /\ handing.at = "idle" /\ handing \in AskHandings \cup {Ask!Idle}
  BY DEF AskInv, AskTyped, Ask!Take
<1>h. handing = Ask!Idle
  BY <1>t DEF AskHandings
<1>o. Ask!OwnersMatchPages' /\ AskRing'
  BY <1>t, AskRingStays DEF AskInv, Ask!OwnersMatchPages
<1>p. \A id : AskPending(id)' = AskPending(id)
  BY <1>t DEF AskPending
<1>1. CASE changes = <<>>
  <2>1. dispatching' = FALSE /\ UNCHANGED <<changes, handing>>
    BY <1>1 DEF Ask!Take
  <2>2. AskTyped'
    BY <1>t, <1>h, <1>1, <2>1 DEF AskInv, AskTyped
  <2>3. AskTruthful'
    BY <1>t, <1>p, <2>1 DEF AskInv, AskTruthful, AskCovered, AskIdOf
  <2> QED BY <1>o, <2>2, <2>3 DEF AskInv
<1>2. CASE changes # <<>>
  <2>1. handing' = Head(changes) /\ changes' = Tail(changes) /\ dispatching' = dispatching
    BY <1>2 DEF Ask!Take
  <2>2. /\ Head(changes) = changes[1] /\ changes' \in Seq(AskChanges)
        /\ Len(changes) \in Nat /\ Len(changes) > 0 /\ Len(changes') = Len(changes) - 1
        /\ \A n \in 1..Len(changes') : n + 1 \in 1..Len(changes) /\ changes'[n] = changes[n + 1]
    BY <1>t, <1>2, <2>1, UITail
  <2>3. /\ 1 \in 1..Len(changes) /\ handing' = changes[1] /\ changes[1] \in AskChanges
        /\ \A n \in 1..Len(changes) : n # 1 => n - 1 \in 1..Len(changes') /\ changes'[n - 1] = changes[n]
        /\ \A m, n \in 1..Len(changes) : m < n => m - 1 < n - 1
        /\ \A m, n \in 1..Len(changes') : m + 1 < n + 1 => m < n
        /\ \A n \in 1..Len(changes') : ~(n + 1 < 1)
    <3>1. 1 \in 1..Len(changes)
      BY <2>2
    <3>2. \A n \in 1..Len(changes) : n # 1 => n - 1 \in 1..Len(changes') /\ (n - 1) + 1 = n
      BY <2>2
    <3>3. \A n \in 1..Len(changes) : n # 1 => changes'[n - 1] = changes[n]
      BY <2>2, <3>2
    <3>4. handing' = changes[1]
      BY <2>1, <2>2
    <3>5. changes[1] \in AskChanges
      BY <1>t, <3>1
    <3>6. /\ \A m, n \in 1..Len(changes) : m < n => m - 1 < n - 1
          /\ \A m, n \in 1..Len(changes') : m + 1 < n + 1 => m < n
          /\ \A n \in 1..Len(changes') : ~(n + 1 < 1)
      BY <2>2
    <3> QED BY <3>1, <3>2, <3>3, <3>4, <3>5, <3>6
  <2>4. handing' \in AskHandings /\ handing'.at = "taken"
    BY <2>3 DEF AskChanges, AskHandings
  <2>5. AskTyped'
    BY <1>t, <2>1, <2>2, <2>4 DEF AskInv, AskTyped
  <2>6. ASSUME NEW id \in Ask!IDs, AskCovered(id)
        PROVE  \/ AskCovered(id)'
               \/ /\ ~handing'.added /\ AskIdOf(handing') = id
                  /\ \A m \in 1..Len(changes') : ~(changes'[m].added /\ AskIdOf(changes'[m]) = id)
    <3>1. CASE AskPending(id)
      BY <1>p, <3>1 DEF AskCovered
    <3>2. CASE ~AskPending(id)
      <4>1. PICK n \in 1..Len(changes) :
                /\ ~changes[n].added /\ AskIdOf(changes[n]) = id
                /\ \A m \in 1..Len(changes) : changes[m].added /\ AskIdOf(changes[m]) = id => m < n
        BY <2>6, <3>2 DEF AskCovered
      <4>2. CASE n = 1
        <5>1. \A m \in 1..Len(changes') : ~(changes'[m].added /\ AskIdOf(changes'[m]) = id)
          BY <2>2, <2>3, <4>1, <4>2
        <5> QED BY <2>3, <4>1, <4>2, <5>1
      <4>3. CASE n # 1
        <5>1. n - 1 \in 1..Len(changes') /\ ~changes'[n - 1].added /\ AskIdOf(changes'[n - 1]) = id
          BY <2>3, <4>1, <4>3
        <5>2. \A m \in 1..Len(changes') : changes'[m].added /\ AskIdOf(changes'[m]) = id => m < n - 1
          <6> TAKE m \in 1..Len(changes')
          <6> HAVE changes'[m].added /\ AskIdOf(changes'[m]) = id
          <6>1. m + 1 \in 1..Len(changes) /\ m + 1 < n
            BY <2>2, <4>1
          <6> QED BY <2>2, <6>1
        <5> QED BY <5>1, <5>2 DEF AskCovered
      <4> QED BY <4>2, <4>3
    <3> QED BY <3>1, <3>2
  <2>7. AskTruthful'
    <3> SUFFICES ASSUME NEW id \in Ask!IDs
                 PROVE  /\ \A n \in 1..Len(changes') :
                              changes'[n].added /\ AskIdOf(changes'[n]) = id => AskCovered(id)'
                        /\ handing'.added /\ AskIdOf(handing') = id => AskCovered(id)'
                        /\ id \in screen' =>
                              \/ AskCovered(id)'
                              \/ handing'.at = "taken" /\ ~handing'.added /\ AskIdOf(handing') = id
      BY DEF AskTruthful, AskIdOf
    <3>1. ASSUME NEW n \in 1..Len(changes'), changes'[n].added, AskIdOf(changes'[n]) = id
          PROVE  AskCovered(id)'
      <4>1. n + 1 \in 1..Len(changes) /\ changes[n + 1].added /\ AskIdOf(changes[n + 1]) = id
        BY <2>2, <3>1
      <4>2. AskCovered(id)
        BY <4>1 DEF AskInv, AskTruthful
      <4> QED BY <2>6, <3>1, <4>2
    <3>2. ASSUME handing'.added, AskIdOf(handing') = id PROVE AskCovered(id)'
      <4>1. AskCovered(id)
        BY <2>3, <3>2 DEF AskInv, AskTruthful
      <4> QED BY <2>6, <3>2, <4>1
    <3>3. ASSUME id \in screen'
          PROVE  AskCovered(id)' \/ (handing'.at = "taken" /\ ~handing'.added /\ AskIdOf(handing') = id)
      <4>1. AskCovered(id)
        BY <1>t, <3>3 DEF AskInv, AskTruthful
      <4> QED BY <2>4, <2>6, <4>1
    <3> QED BY <3>1, <3>2, <3>3
  <2> QED BY <1>o, <2>5, <2>7 DEF AskInv
<1> QED BY <1>1, <1>2

\* The goroutine withdraws a notification, or decides on one.
LEMMA AskHandled ==
  ASSUME AskInv, Ask!Removed \/ Ask!Added
  PROVE  AskInv'
<1>t. /\ handing.at = "taken" /\ handing \in AskHandings
      /\ UNCHANGED <<pages, owners, changes, dispatching, focusedOn, allowed, reports>>
      /\ UNCHANGED Ask!routerVars /\ dispatching = TRUE
  BY DEF AskInv, AskTyped, Ask!Idle, Ask!Removed, Ask!Added, Ask!storeVars
<1>o. Ask!OwnersMatchPages' /\ AskRing'
  BY <1>t, AskRingStays DEF AskInv, Ask!OwnersMatchPages
<1>p. \A id : AskCovered(id)' = AskCovered(id)
  BY <1>t DEF AskPending, AskCovered
<1>1. CASE Ask!Removed
  <2>1. /\ ~handing.added /\ screen' = screen \ {AskIdOf(handing)} /\ handing' = Ask!Idle
    BY <1>1 DEF Ask!Removed, AskIdOf
  <2>2. AskTyped'
    BY <1>t, <2>1 DEF AskInv, AskTyped, Ask!Idle
  <2>3. AskTruthful'
    <3> SUFFICES ASSUME NEW id \in Ask!IDs
                 PROVE  /\ \A n \in 1..Len(changes') :
                              changes'[n].added /\ AskIdOf(changes'[n]) = id => AskCovered(id)'
                        /\ handing'.added /\ AskIdOf(handing') = id => AskCovered(id)'
                        /\ id \in screen' =>
                              \/ AskCovered(id)'
                              \/ handing'.at = "taken" /\ ~handing'.added /\ AskIdOf(handing') = id
      BY DEF AskTruthful, AskIdOf
    <3>1. ~handing'.added
      BY <2>1 DEF Ask!Idle
    <3> QED BY <1>t, <1>p, <2>1, <3>1 DEF AskInv, AskTruthful
  <2> QED BY <1>o, <2>2, <2>3 DEF AskInv
<1>2. CASE Ask!Added
  <2>1. /\ handing.added /\ screen' = screen
        /\ (handing' = Ask!Idle \/ handing' = [handing EXCEPT !.at = "decided"])
    BY <1>2 DEF Ask!Added
  <2>2. \/ handing' = Ask!Idle /\ ~handing'.added
        \/ /\ handing' \in AskHandings /\ handing'.at = "decided" /\ handing'.added
           /\ AskIdOf(handing') = AskIdOf(handing)
    <3>1. CASE handing' = Ask!Idle
      BY <3>1 DEF Ask!Idle
    <3>2. CASE handing' = [handing EXCEPT !.at = "decided"]
      <4>1. /\ handing' \in AskHandings /\ handing'.at = "decided" /\ handing'.added = handing.added
            /\ handing'.instance = handing.instance /\ handing'.key = handing.key
        BY <1>t, <3>2 DEF AskHandings
      <4>2. handing'.added
        BY <2>1, <4>1
      <4> QED BY <4>1, <4>2 DEF AskIdOf
    <3> QED BY <2>1, <3>1, <3>2
  <2>3. AskTyped'
    BY <1>t, <2>1, <2>2 DEF AskInv, AskTyped, Ask!Idle
  <2>4. AskTruthful'
    <3> SUFFICES ASSUME NEW id \in Ask!IDs
                 PROVE  /\ \A n \in 1..Len(changes') :
                              changes'[n].added /\ AskIdOf(changes'[n]) = id => AskCovered(id)'
                        /\ handing'.added /\ AskIdOf(handing') = id => AskCovered(id)'
                        /\ id \in screen' =>
                              \/ AskCovered(id)'
                              \/ handing'.at = "taken" /\ ~handing'.added /\ AskIdOf(handing') = id
      BY DEF AskTruthful, AskIdOf
    <3>1. id \in screen => AskCovered(id)
      BY <2>1 DEF AskInv, AskTruthful
    <3>2. handing'.added /\ AskIdOf(handing') = id => AskCovered(id)
      BY <2>1, <2>2 DEF AskInv, AskTruthful
    <3>3. \A n \in 1..Len(changes) : changes[n].added /\ AskIdOf(changes[n]) = id => AskCovered(id)
      BY DEF AskInv, AskTruthful
    <3> QED BY <1>t, <1>p, <2>1, <3>1, <3>2, <3>3
  <2> QED BY <1>o, <2>3, <2>4 DEF AskInv
<1> QED BY <1>1, <1>2

\* Positions on a ring.
LEMMA AskModulo ==
  ASSUME NEW M \in Nat, M > 0, NEW a \in 0..(M - 1)
  PROVE  a % M = a /\ (a + M) % M = a
<1>1. a % M = a
  OBVIOUS
<1>2. (a + M) % M = a
  OBVIOUS
<1> QED BY <1>1, <1>2

\* And a position is always on it.
LEMMA AskModuloType ==
  ASSUME NEW M \in Nat, M > 0, NEW a \in Nat
  PROVE  a % M \in 0..(M - 1)
  OBVIOUS

\* An id the set lacks is remembered: in the next free slot, or in the oldest one's.
LEMMA AskRemembers ==
  ASSUME AskRing, NEW id \in Ask!IDs, id \notin seen, Ask!Remember(id)
  PROVE  AskRing'
<1>t. /\ seenOrder \in [0..(MaxRemembered - 1) -> Ask!IDs \cup {<<Ask!Nobody, Ask!NoKey>>}]
      /\ seenNext \in 0..(MaxRemembered - 1) /\ seenCount \in 0..MaxRemembered
      /\ seen \subseteq Ask!IDs
      /\ seenCount < MaxRemembered => seenNext = 0
      /\ seen = {seenOrder[k] : k \in 0..(seenCount - 1)}
      /\ \A k, l \in 0..(seenCount - 1) : seenOrder[k] = seenOrder[l] => k = l
  BY DEF AskRing
<1>m. MaxRemembered \in Nat /\ MaxRemembered > 0
  BY AskAssumption
<1>1. CASE seenCount < MaxRemembered
  <2>1. /\ seenCount \in 0..(MaxRemembered - 1) /\ seenNext = 0 /\ seenNext + seenCount = seenCount
        /\ seenCount + 1 \in 0..MaxRemembered
        /\ \A k \in 0..seenCount : k \in 0..(seenCount - 1) \/ k = seenCount
        /\ \A k \in 0..(seenCount - 1) : k \in 0..(MaxRemembered - 1) /\ k # seenCount
        /\ (seenCount + 1) - 1 = seenCount /\ seenCount \in 0..seenCount
        /\ \A k \in 0..(seenCount - 1) : k \in 0..seenCount
    BY <1>t, <1>m, <1>1
  <2>2. (seenNext + seenCount) % MaxRemembered = seenCount
    BY <1>m, <2>1, AskModulo
  <2>3. /\ seenOrder' = [seenOrder EXCEPT ![seenCount] = id] /\ seen' = seen \cup {id}
        /\ seenCount' = seenCount + 1 /\ seenNext' = seenNext
    BY <1>1, <2>2 DEF Ask!Remember
  <2>4. /\ seenOrder' \in [0..(MaxRemembered - 1) -> Ask!IDs \cup {<<Ask!Nobody, Ask!NoKey>>}]
        /\ seenOrder'[seenCount] = id
        /\ \A k \in 0..(seenCount - 1) : seenOrder'[k] = seenOrder[k]
    BY <1>t, <2>1, <2>3
  <2>5. seen' = {seenOrder'[k] : k \in 0..seenCount}
    BY <1>t, <2>1, <2>3, <2>4
  <2>6. \A k, l \in 0..seenCount : seenOrder'[k] = seenOrder'[l] => k = l
    <3>1. \A k \in 0..(seenCount - 1) : seenOrder[k] \in seen
      BY <1>t
    <3> QED BY <1>t, <2>1, <2>4, <3>1
  <2> QED BY <1>t, <2>1, <2>3, <2>4, <2>5, <2>6 DEF AskRing
<1>2. CASE ~(seenCount < MaxRemembered)
  <2>1. seenCount = MaxRemembered /\ seenNext \in 0..(seenCount - 1) /\ seenNext + 1 \in Nat
    BY <1>t, <1>m, <1>2
  <2>2. /\ seenOrder' = [seenOrder EXCEPT ![seenNext] = id]
        /\ seen' = (seen \ {seenOrder[seenNext]}) \cup {id}
        /\ seenNext' = (seenNext + 1) % MaxRemembered /\ seenCount' = seenCount
    BY <1>2 DEF Ask!Remember
  <2>3. seenNext' \in 0..(MaxRemembered - 1)
    BY <1>m, <2>1, <2>2, AskModuloType
  <2>4. /\ seenOrder' \in [0..(MaxRemembered - 1) -> Ask!IDs \cup {<<Ask!Nobody, Ask!NoKey>>}]
        /\ seenOrder'[seenNext] = id
        /\ \A k \in 0..(seenCount - 1) : k # seenNext => seenOrder'[k] = seenOrder[k]
    BY <1>t, <2>1, <2>2
  <2>5. \A k \in 0..(seenCount - 1) : seenOrder[k] \in seen /\ (k # seenNext => seenOrder[k] # seenOrder[seenNext])
    BY <1>t, <2>1
  <2>6. seen' = {seenOrder'[k] : k \in 0..(seenCount - 1)}
    BY <1>t, <2>1, <2>2, <2>4, <2>5
  <2>7. \A k, l \in 0..(seenCount - 1) : seenOrder'[k] = seenOrder'[l] => k = l
    BY <1>t, <2>1, <2>4, <2>5
  <2> QED BY <1>t, <1>2, <2>2, <2>3, <2>4, <2>6, <2>7 DEF AskRing
<1> QED BY <1>1, <1>2

\* The set is what the ring holds from its oldest slot on, and as large as the count.
LEMMA AskRingExact ==
  ASSUME AskRing
  PROVE  Ask!RingIsExact
<1>t. /\ seenOrder \in [0..(MaxRemembered - 1) -> Ask!IDs \cup {<<Ask!Nobody, Ask!NoKey>>}]
      /\ seenNext \in 0..(MaxRemembered - 1) /\ seenCount \in 0..MaxRemembered
      /\ seenCount < MaxRemembered => seenNext = 0
      /\ seen = {seenOrder[k] : k \in 0..(seenCount - 1)}
      /\ \A k, l \in 0..(seenCount - 1) : seenOrder[k] = seenOrder[l] => k = l
  BY DEF AskRing
<1>m. MaxRemembered \in Nat /\ MaxRemembered > 0
  BY AskAssumption
<1>1. \A n \in 0..(seenCount - 1) : (seenNext + n) % MaxRemembered \in 0..(seenCount - 1)
  <2> TAKE n \in 0..(seenCount - 1)
  <2>1. CASE seenCount < MaxRemembered
    <3>1. seenNext + n = n /\ n \in 0..(MaxRemembered - 1)
      BY <1>t, <1>m, <2>1
    <3> QED BY <1>m, <3>1, AskModulo
  <2>2. CASE seenCount = MaxRemembered
    <3>1. seenNext + n \in Nat
      BY <1>t, <1>m
    <3> QED BY <1>m, <2>2, <3>1, AskModuloType
  <2> QED BY <1>t, <1>m, <2>1, <2>2
<1>2. \A k \in 0..(seenCount - 1) : \E n \in 0..(seenCount - 1) : (seenNext + n) % MaxRemembered = k
  <2> TAKE k \in 0..(seenCount - 1)
  <2>k. k \in 0..(MaxRemembered - 1)
    BY <1>t, <1>m
  <2>1. CASE seenCount < MaxRemembered
    <3>1. seenNext + k = k
      BY <1>t, <1>m, <2>1
    <3> QED BY <1>m, <2>k, <3>1, AskModulo
  <2>2. CASE seenCount = MaxRemembered /\ k >= seenNext
    <3>1. k - seenNext \in 0..(seenCount - 1) /\ seenNext + (k - seenNext) = k
      BY <1>t, <1>m, <2>2
    <3> QED BY <1>m, <2>k, <3>1, AskModulo
  <2>3. CASE seenCount = MaxRemembered /\ k < seenNext
    <3>1. /\ (k - seenNext) + MaxRemembered \in 0..(seenCount - 1)
          /\ seenNext + ((k - seenNext) + MaxRemembered) = k + MaxRemembered
      BY <1>t, <1>m, <2>3
    <3> QED BY <1>m, <2>k, <3>1, AskModulo
  <2> QED BY <1>t, <1>m, <2>1, <2>2, <2>3
<1>3. seen = {seenOrder[(seenNext + n) % MaxRemembered] : n \in 0..(seenCount - 1)}
  <2> DEFINE slots == 0..(seenCount - 1)
             slot == [n \in slots |-> (seenNext + n) % MaxRemembered]
  <2>1. \A n \in slots : slot[n] \in slots /\ slot[n] = (seenNext + n) % MaxRemembered
    BY <1>1
  <2>2. \A k \in slots : \E n \in slots : slot[n] = k
    BY <1>2
  <2>3. seen = {seenOrder[k] : k \in slots}
    BY <1>t
  <2>4. {seenOrder[(seenNext + n) % MaxRemembered] : n \in slots} = {seenOrder[slot[n]] : n \in slots}
    OBVIOUS
  <2>5. seen = {seenOrder[slot[n]] : n \in slots}
    <3> HIDE DEF slot, slots
    <3>1. \A n \in slots : slot[n] \in slots
      BY <2>1
    <3> QED BY <2>2, <2>3, <3>1
  <2> QED BY <2>4, <2>5
<1>4. Cardinality(seen) = seenCount
  <2> DEFINE f == [n \in 1..seenCount |-> seenOrder[n - 1]]
  <2>1. seenCount \in Nat
    BY <1>t, <1>m
  <2>2. /\ \A n \in 1..seenCount : n - 1 \in 0..(seenCount - 1)
        /\ \A k \in 0..(seenCount - 1) : k + 1 \in 1..seenCount /\ (k + 1) - 1 = k
        /\ \A m, n \in 1..seenCount : m - 1 = n - 1 => m = n
    BY <2>1
  <2>3. f \in [1..seenCount -> seen]
    BY <1>t, <2>2
  <2>4. \A m, n \in 1..seenCount : f[m] = f[n] => m = n
    BY <1>t, <2>2
  <2>5. \A x \in seen : \E n \in 1..seenCount : f[n] = x
    <3> TAKE x \in seen
    <3>1. PICK k \in 0..(seenCount - 1) : seenOrder[k] = x
      BY <1>t
    <3>2. k + 1 \in 1..seenCount /\ f[k + 1] = x
      BY <2>2, <3>1
    <3> QED BY <3>2
  <2> HIDE DEF f
  <2>6. f \in Injection(1..seenCount, seen) /\ f \in Surjection(1..seenCount, seen)
    BY <2>3, <2>4, <2>5 DEF Injection, IsInjective, Surjection
  <2>7. ExistsBijection(1..seenCount, seen)
    BY <2>6 DEF ExistsBijection, Bijection
  <2> QED BY <2>1, <2>7, FS_CountingElements
<1> QED BY <1>3, <1>4, AskCardinality DEF Ask!RingIsExact

\* Publishing consumes the id first; what is shown is what was covered when it was decided.
LEMMA AskPublishes ==
  ASSUME AskInv, Ask!Publish
  PROVE  AskInv'
<1>t. /\ handing.at = "decided" /\ handing \in AskHandings /\ handing.added
      /\ handing' = Ask!Idle
      /\ UNCHANGED <<pages, owners, changes, dispatching, focusedOn, allowed, reports>>
      /\ dispatching = TRUE /\ AskIdOf(handing) \in Ask!IDs
  <2>1. handing.at = "decided" /\ handing' = Ask!Idle
        /\ UNCHANGED <<pages, owners, changes, dispatching, focusedOn, allowed, reports>>
    BY DEF Ask!Publish, Ask!storeVars
  <2>2. handing # Ask!Idle
    BY <2>1 DEF Ask!Idle
  <2>3. handing \in AskHandings /\ dispatching = TRUE
    BY <2>2 DEF AskInv, AskTyped
  <2>4. handing.added
    BY <2>1 DEF AskInv, AskTyped
  <2>5. AskIdOf(handing) \in Ask!IDs
    BY <2>3 DEF AskHandings, AskIdOf, Ask!IDs
  <2> QED BY <2>1, <2>3, <2>4, <2>5
<1>o. Ask!OwnersMatchPages'
  BY <1>t DEF AskInv, Ask!OwnersMatchPages
<1>p. \A id : AskCovered(id)' = AskCovered(id)
  BY <1>t DEF AskPending, AskCovered
<1>1. (UNCHANGED screen /\ UNCHANGED Ask!routerVars)
      \/ (AskIdOf(handing) \notin seen /\ Ask!Remember(AskIdOf(handing)))
  BY DEF Ask!Publish, AskIdOf
<1>2. screen' \subseteq screen \cup {AskIdOf(handing)}
  BY DEF Ask!Publish, AskIdOf
<1>3. AskRing'
  BY <1>t, <1>1, AskRemembers, AskRingStays DEF AskInv
<1>4. AskTyped'
  BY <1>t, <1>2 DEF AskInv, AskTyped, Ask!Idle
<1>5. AskTruthful'
  <2> SUFFICES ASSUME NEW id \in Ask!IDs
               PROVE  /\ \A n \in 1..Len(changes') :
                            changes'[n].added /\ AskIdOf(changes'[n]) = id => AskCovered(id)'
                      /\ handing'.added /\ AskIdOf(handing') = id => AskCovered(id)'
                      /\ id \in screen' =>
                            \/ AskCovered(id)'
                            \/ handing'.at = "taken" /\ ~handing'.added /\ AskIdOf(handing') = id
    BY DEF AskTruthful, AskIdOf
  <2>1. ~handing'.added
    BY <1>t DEF Ask!Idle
  <2>2. \A n \in 1..Len(changes) : changes[n].added /\ AskIdOf(changes[n]) = id => AskCovered(id)
    BY DEF AskInv, AskTruthful
  <2>3. id = AskIdOf(handing) => AskCovered(id)
    BY <1>t DEF AskInv, AskTruthful
  <2>4. id \in screen => AskCovered(id)
    BY <1>t DEF AskInv, AskTruthful
  <2> QED BY <1>t, <1>p, <1>2, <2>1, <2>2, <2>3, <2>4
<1> QED BY <1>o, <1>3, <1>4, <1>5 DEF AskInv

\* The user, the focus and the preference leave the store and the ring alone; a notification
\* may go.
LEMMA AskLessOnScreen ==
  ASSUME AskInv, screen' \subseteq screen, focusedOn' \subseteq Surfaces, allowed' \in BOOLEAN,
         UNCHANGED <<pages, owners, changes, dispatching, handing, reports>>, UNCHANGED Ask!routerVars
  PROVE  AskInv'
<1>1. AskTyped' /\ Ask!OwnersMatchPages' /\ AskRing'
  <2>1. AskTyped'
    BY DEF AskInv, AskTyped
  <2> QED BY <2>1, AskRingStays DEF AskInv, Ask!OwnersMatchPages
<1>2. \A id : AskCovered(id)' = AskCovered(id)
  BY DEF AskPending, AskCovered
<1>3. AskTruthful'
  <2> SUFFICES ASSUME NEW id \in Ask!IDs
               PROVE  /\ \A n \in 1..Len(changes') :
                            changes'[n].added /\ AskIdOf(changes'[n]) = id => AskCovered(id)'
                      /\ handing'.added /\ AskIdOf(handing') = id => AskCovered(id)'
                      /\ id \in screen' =>
                            \/ AskCovered(id)'
                            \/ handing'.at = "taken" /\ ~handing'.added /\ AskIdOf(handing') = id
    BY DEF AskTruthful, AskIdOf
  <2>1. /\ \A n \in 1..Len(changes) : changes[n].added /\ AskIdOf(changes[n]) = id => AskCovered(id)
        /\ handing.added /\ AskIdOf(handing) = id => AskCovered(id)
        /\ id \in screen =>
              \/ AskCovered(id)
              \/ handing.at = "taken" /\ ~handing.added /\ AskIdOf(handing) = id
    BY DEF AskInv, AskTruthful
  <2> QED BY <1>2, <2>1
<1> QED BY <1>1, <1>3 DEF AskInv

\* It holds at first.
LEMMA AskStart == Ask!Init => AskInv
<1> SUFFICES ASSUME Ask!Init PROVE AskInv
  OBVIOUS
<1>n. /\ Ask!Nobody \notin Surfaces /\ Ask!Nobody \notin Instances
      /\ MaxReports \in Nat /\ MaxRemembered \in Nat /\ MaxRemembered > 0
  BY AskAssumption DEF Ask!Nobody, Ask!NoKey
<1>1. /\ Ask!NoPage \in AskPages /\ Ask!NoPage.instance = Ask!Nobody
      /\ pages = [u \in Surfaces |-> Ask!NoPage] /\ owners = [i \in Instances |-> Ask!Nobody]
  BY DEF AskPages, Ask!NoPage, Ask!Init
<1>2. Ask!Idle.at = "idle" /\ ~Ask!Idle.added
  BY DEF Ask!Idle
<1>3. AskTyped
  <2>1. /\ changes = <<>> /\ dispatching = FALSE /\ handing = Ask!Idle /\ focusedOn = {}
        /\ allowed = TRUE /\ screen = {} /\ reports = 0
    BY DEF Ask!Init
  <2>2. /\ pages \in [Surfaces -> AskPages]
        /\ \A u \in Surfaces : pages[u] # Ask!NoPage => pages[u].instance \in Instances
        /\ owners \in [Instances -> Surfaces \cup {Ask!Nobody}]
    BY <1>1
  <2>3. changes \in Seq(AskChanges) /\ reports \in 0..MaxReports
    BY <1>n, <2>1
  <2>4. handing.at = "decided" => handing.added
    BY <1>2, <2>1
  <2> QED BY <2>1, <2>2, <2>3, <2>4 DEF AskTyped
<1>4. Ask!OwnersMatchPages
  BY <1>n, <1>1 DEF Ask!OwnersMatchPages
<1>5. AskTruthful
  <2>1. changes = <<>> /\ Len(<<>>) = 0 /\ ~handing.added /\ screen = {}
    BY <1>2 DEF Ask!Init
  <2> QED BY <2>1 DEF AskTruthful
<1>6. AskRing
  <2>1. seenCount = 0 /\ seen = {} /\ seenNext = 0
        /\ seenOrder = [n \in 0..(MaxRemembered - 1) |-> <<Ask!Nobody, Ask!NoKey>>]
    BY DEF Ask!Init
  <2>2. \A k \in 0..(0 - 1) : FALSE
    OBVIOUS
  <2> QED BY <1>n, <2>1, <2>2 DEF AskRing
<1> QED BY <1>3, <1>4, <1>5, <1>6 DEF AskInv

\* Every step keeps it.
LEMMA AskStep == AskInv /\ [Ask!Next]_askVars => AskInv'
<1> SUFFICES ASSUME AskInv, [Ask!Next]_askVars PROVE AskInv'
  OBVIOUS
<1>t. focusedOn \subseteq Surfaces /\ allowed \in BOOLEAN
  BY DEF AskInv, AskTyped
<1>1. ASSUME NEW u \in Surfaces, NEW i \in Instances, Ask!ReportPage(u, i) PROVE AskInv'
  BY <1>1, AskPageReports
<1>2. ASSUME NEW u \in Surfaces, NEW i \in Instances, NEW s \in Sessions, Ask!ReportRemoved(u, i, s)
      PROVE  AskInv'
  BY <1>2, AskRemovedReports
<1>3. ASSUME NEW u \in Surfaces, NEW i \in Instances, NEW s \in Sessions, NEW k \in Keys,
             Ask!ReportAdded(u, i, s, k)
      PROVE  AskInv'
  BY <1>3, AskAddedReports
<1>4. ASSUME NEW u \in Surfaces, NEW i \in Instances, Ask!Reset(u, i) PROVE AskInv'
  <2>1. {u} \in SUBSET Surfaces /\ Ask!RemovePages({u}) /\ focusedOn' \subseteq Surfaces
        /\ UNCHANGED <<handing, allowed, screen, reports>> /\ UNCHANGED Ask!routerVars
    BY <1>t, <1>4 DEF Ask!Reset
  <2> QED BY <2>1, AskPagesGo
<1>5. ASSUME NEW us \in SUBSET Surfaces, Ask!Closed(us) PROVE AskInv'
  <2>1. Ask!RemovePages(us) /\ focusedOn' \subseteq Surfaces
        /\ UNCHANGED <<handing, allowed, screen, reports>> /\ UNCHANGED Ask!routerVars
    BY <1>t, <1>5 DEF Ask!Closed
  <2> QED BY <2>1, AskPagesGo
<1>6. ASSUME NEW u \in Surfaces, NEW f \in BOOLEAN, Ask!SetFocused(u, f) PROVE AskInv'
  <2>1. focusedOn' \subseteq Surfaces
    BY <1>t, <1>6 DEF Ask!SetFocused
  <2>2. /\ UNCHANGED <<pages, owners, changes, dispatching, handing, allowed, screen, reports>>
        /\ UNCHANGED Ask!routerVars
    BY <1>6 DEF Ask!SetFocused, Ask!storeVars
  <2> QED BY <1>t, <2>1, <2>2, AskLessOnScreen
<1>7. ASSUME NEW id \in screen, Ask!Respond(id) PROVE AskInv'
  <2>1. screen' \subseteq screen
    BY <1>7 DEF Ask!Respond
  <2>2. /\ UNCHANGED <<pages, owners, changes, dispatching, handing, focusedOn, allowed, reports>>
        /\ UNCHANGED Ask!routerVars
    BY <1>7 DEF Ask!Respond, Ask!storeVars
  <2> QED BY <1>t, <2>1, <2>2, AskLessOnScreen
<1>8. CASE Ask!SetPreferences
  <2>1. allowed' \in BOOLEAN
    BY <1>8 DEF Ask!SetPreferences
  <2>2. /\ UNCHANGED <<pages, owners, changes, dispatching, handing, focusedOn, screen, reports>>
        /\ UNCHANGED Ask!routerVars
    BY <1>8 DEF Ask!SetPreferences, Ask!storeVars
  <2> QED BY <1>t, <2>1, <2>2, AskLessOnScreen
<1>9. CASE UNCHANGED askVars
  <2>1. /\ UNCHANGED <<pages, owners, changes, dispatching, handing, focusedOn, allowed, screen, reports>>
        /\ UNCHANGED Ask!routerVars
    BY <1>9 DEF askVars, Ask!routerVars
  <2> QED BY <1>t, <2>1, AskLessOnScreen
<1>10. \A u \in Surfaces : {u} \in SUBSET Surfaces
  OBVIOUS
<1> QED BY <1>1, <1>2, <1>3, <1>4, <1>5, <1>6, <1>7, <1>8, <1>9, <1>10,
           AskTakes, AskHandled, AskPublishes DEF Ask!Next

\* What the invariant says of the screen once the queue is handed over.
LEMMA AskSafe == AskInv => Ask!NoStaleNotification /\ Ask!OwnersMatchPages /\ Ask!RingIsExact
<1> SUFFICES ASSUME AskInv PROVE Ask!NoStaleNotification /\ Ask!OwnersMatchPages /\ Ask!RingIsExact
  OBVIOUS
<1>1. ASSUME ~dispatching, NEW id \in screen
      PROVE  \E u \in Surfaces, s \in Sessions : pages[u].instance = id[1] /\ pages[u].pending[s] = id[2]
  <2>1. changes = <<>> /\ handing = Ask!Idle /\ id \in Ask!IDs
    BY <1>1 DEF AskInv, AskTyped
  <2>2. Len(changes) = 0 /\ handing.at # "taken"
    BY <2>1 DEF Ask!Idle
  <2>3. AskCovered(id)
    BY <1>1, <2>1, <2>2 DEF AskInv, AskTruthful
  <2>4. \A n \in 1..Len(changes) : FALSE
    BY <2>2
  <2>5. AskPending(id)
    BY <2>3, <2>4 DEF AskCovered
  <2> QED BY <2>5 DEF AskPending
<1>2. Ask!NoStaleNotification
  BY <1>1 DEF Ask!NoStaleNotification
<1> QED BY <1>2, AskRingExact DEF AskInv

-----------------------------------------------------------------------------
(* The composition.                                                        *)

\* One component runs, and its steps are the steps of its own specification.
LEMMA ScreenSteps ==
  ASSUME [DesktopNext]_DesktopVars
  PROVE  /\ part' = part
         /\ part = "publish" => [Publish!Next]_publishVars
         /\ part = "settings" => [Prefs!Next]_settingsVars
         /\ part = "activity" => [Activity!ActivityNext]_activityVars
         /\ part = "ui" => [UI!Next]_uiVars
         /\ part = "acquire" => [Acquire!Next]_acquireVars
         /\ part = "ask" => [Ask!Next]_askVars
<1>1. CASE DesktopNext
  BY <1>1 DEF DesktopNext, QuitNext, UpdateNext, PublishNext, AskNext, UINext, PrefsNext,
              StorageNext, ActivityNext, JobNext, ImportNext, StoreNext, AcquireNext
<1>2. CASE UNCHANGED DesktopVars
  BY <1>2 DEF DesktopVars
<1>3. QED
  BY <1>1, <1>2

ScreenInv ==
    /\ part = "publish" => PublishInv
    /\ part = "settings" => SettingsInv /\ SettingsShown
    /\ part = "activity" => ActivityInv
    /\ part = "ui" => UIInv
    /\ part = "acquire" => AcquireInv
    /\ part = "ask" => AskInv

\* The component that runs keeps its invariant.
LEMMA ScreenInvariant == DesktopSpec => []ScreenInv
<1>1. DesktopInit => ScreenInv
  BY PublishStart, SettingsStart, ShownStart, ActivityStart, UIStart, AcquireStart, AskStart
     DEF DesktopInit, ScreenInv
<1>2. ScreenInv /\ [DesktopNext]_DesktopVars => ScreenInv'
  BY ScreenSteps, PublishStep, SettingsStep, ShownStep, ActivityStep, UIStep, AcquireStep, AskStep
     DEF ScreenInv
<1>3. QED
  BY <1>1, <1>2, PTL DEF DesktopSpec

\* The Worker's activity, for any conversations a Worker lists and any number of streams,
\* navigations and retries: connected exactly while the stream of the current generation
\* delivers, the error shown is the newest navigation's, one that waits has a timer
\* (bridge.go:400-545), and whoever waits for the user is listed before those that failed or
\* run (bridge.go:620-667).
THEOREM ActivityTrue == DesktopSpec => []ActivityIsTrue
<1>1. ScreenInv => ActivityIsTrue
  BY ActivitySafe DEF ScreenInv, ActivityIsTrue
<1>2. QED
  BY <1>1, ScreenInvariant, PTL

\* What the user is shown, for any number of publishers, setters, windows, pages, commands,
\* reports and calls: no accepted value is stranded (trailing_publisher.go:24-26), the
\* preferences shown are those kept once no call is left to show them
\* (serialized_publisher.go:23-33), no notification stays for an interaction that is gone,
\* owners and pages are inverse and the router remembers exactly its ring
\* (store.go:187-233, router.go:206-222), no launch, notice, command or focus report is lost
\* or overtaken (client.go:266-291, 385-438, command_dispatch.go:59-122,
\* focus_reports.go:23-66), and an acquisition has one terminal status and a plugin its true
\* source (manager_service.go:250-263, manager.go:1213-1275).
THEOREM ScreenTrue == DesktopSpec => []ScreenIsTrue
<1>1. ScreenInv => ScreenIsTrue
  BY PublishSafe, ShownSafe, AskSafe, UISafe, AcquireSafe DEF ScreenInv, ScreenIsTrue
<1>2. QED
  BY <1>1, ScreenInvariant, PTL
=============================================================================
