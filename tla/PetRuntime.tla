------------------------------ MODULE PetRuntime ------------------------------
(***************************************************************************)
(* pet/runtime.go: what the desktop Pet shows.  Task truth is the base     *)
(* state, set by Host and DSH events; an action plays over it once; a      *)
(* playful action (a click, an idle variation) is decoration that must     *)
(* leave the base alone.  The overlay page polls Snapshot, and Snapshot is *)
(* what ends actions and lets a completed or failed task settle to idle:   *)
(* a Tick is one unit of time followed by a poll.  Pixels, directions and  *)
(* diagnostics are left out.  A package is any member of Packages:         *)
(*   tracks, idle   its tracks and the fallback track every package has    *)
(*   loops          the tracks that repeat                                 *)
(*   length         a track's length (all its repeats), in units           *)
(*   timeout        a track's declared time-out, 0 for none                *)
(*   after          a track's own fallback, "" for none                    *)
(*   states         base -> [track, loop, after], for the declared bases   *)
(*   actions        name -> [track, rank, yields, after]                   *)
(*   webm           whether the package is a video package                 *)
(*   clicks, idles  its declared click actions and idle tracks (community) *)
(***************************************************************************)
EXTENDS Naturals, FiniteSets

CONSTANTS Packages, HoldCompleted, HoldFailed, IdleWait, MaxAge, MaxPetEvents

VARIABLES package,      \* the accepted definition
          base,         \* the base state: task truth
          override,     \* a track shown instead of the base's own, or ""
          action,       \* the action being played, or ""
          playful,      \* whether that action is decoration
          hidden,       \* the overlay is hidden
          reduced,      \* reduced motion
          baseAge, actionAge,   \* time since baseSince and actionSince
          idleAge,      \* time since nextIdle was set, or Unset
          lastIdle,     \* the last idle variation
          settling,     \* time since the last event that a finished task is shown
          petEvents     \* events dispatched so far (bound)

petVars == <<package, base, override, action, playful, hidden, reduced, baseAge,
             actionAge, idleAge, lastIdle, settling, petEvents>>

Bases == {"idle", "working", "waiting", "completed", "failed", "offline"}
Finished == {"completed", "failed"}
Unset == IdleWait + 1

(* Ages are only compared with lengths: they stop growing well past the longest. *)
Older(age) == IF age < MaxAge THEN age + 1 ELSE MaxAge

Init == /\ package \in Packages
        /\ base = "idle" /\ override = "" /\ action = "" /\ lastIdle = ""
        /\ playful = FALSE /\ hidden = TRUE /\ reduced = FALSE
        /\ baseAge = 0 /\ actionAge = 0 /\ idleAge = Unset
        /\ settling = 0 /\ petEvents = 0

-----------------------------------------------------------------------------
(* The track of a base state, as baseTrackLocked resolves it. *)
BaseTrack(b, o) ==
  IF o \in package.tracks THEN o
  ELSE IF b \in DOMAIN package.states THEN package.states[b].track
  ELSE package.idle

(* trackSpecLocked: while no action plays, the state's own loop and
   fallback replace the track's; a playful action never loops. *)
OfState(p, b, t) == b \in DOMAIN p.states /\ p.states[b].track = t
LoopsIn(p, b, t) == IF OfState(p, b, t) THEN p.states[b].loop ELSE t \in p.loops
Loops(b, t) == LoopsIn(package, b, t)
NextIn(p, b, t) == LET after == IF OfState(p, b, t) /\ p.states[b].after # ""
                                THEN p.states[b].after ELSE p.after[t]
                   IN  IF after # "" THEN after ELSE p.idle

(* The time after which an action is over: 0 for one that never ends. *)
ActionLength(a, play) ==
  LET t == package.actions[a].track
  IN  IF package.timeout[t] > 0 THEN package.timeout[t]
      ELSE IF t \notin package.loops \/ play THEN package.length[t] ELSE 0
BaseLength(t) == IF package.timeout[t] > 0 THEN package.timeout[t] ELSE package.length[t]

AdmitsAny(current, a) ==
  \/ current = ""
  \/ package.actions[current].yields
  \/ package.actions[current].rank < package.actions[a].rank

(* triggerActionLocked: an action that does not yield keeps a weaker or an
   equal one out. *)
Admits(current, a) ==
  /\ a \in DOMAIN package.actions
  /\ \/ current = ""
     \/ package.actions[current].yields
     \/ package.actions[current].rank < package.actions[a].rank

-----------------------------------------------------------------------------
(* setBaseLocked(b), then the action the event asks for: the first of
   "wanted" the package declares and the playing action admits. *)
SetBaseLocked(b, wanted) ==
  LET kept == IF b \in Finished THEN action ELSE ""
      chosen == {i \in DOMAIN wanted : Admits(kept, wanted[i])}
      first == CHOOSE i \in chosen : \A j \in chosen : i <= j
  IN  /\ base' = b /\ playful' = FALSE /\ override' = "" /\ baseAge' = 0
      /\ idleAge' = Unset /\ settling' = 0
      /\ action' = IF chosen # {} THEN wanted[first]
                   ELSE IF b = "failed" THEN "" ELSE kept
      /\ actionAge' = IF chosen # {} THEN 0 ELSE actionAge

Wanted(b) == CASE b \in {"waiting", "failed"} -> <<"attention">>
               [] b = "completed" -> <<"celebrate", "wave">>
               [] OTHER -> <<>>

(* The task and Host events that name a base state; one that names the
   present state changes nothing, but "offline" and a cancelled task (here
   the event for idle) still take the action away. *)
DispatchBase(b, clears) ==
  /\ petEvents < MaxPetEvents /\ petEvents' = petEvents + 1
  /\ clears => b \in {"offline", "idle"}
  /\ b = "offline" => clears
  /\ IF base # b THEN SetBaseLocked(b, Wanted(b))
     ELSE /\ action' = IF clears THEN "" ELSE action
          /\ settling' = 0
          /\ UNCHANGED <<base, override, playful, baseAge, actionAge, idleAge>>
  /\ UNCHANGED <<package, hidden, reduced, lastIdle>>

(* playActionLocked: a click plays one of the package's click actions, or
   the first usable of three; a playful action in progress gives way. *)
DispatchClick ==
  LET current == IF playful THEN "" ELSE action
      tried == IF package.clicks # {} THEN package.clicks ELSE {"wave", "bounce"}
      chosen == {a \in tried : Admits(current, a)}
  IN  /\ ~hidden /\ ~reduced
      /\ petEvents < MaxPetEvents /\ petEvents' = petEvents + 1
      /\ IF chosen # {}
         THEN /\ action' \in chosen /\ actionAge' = 0 /\ playful' = TRUE
         ELSE /\ action' = current /\ UNCHANGED <<actionAge, playful>>
      /\ settling' = 0
      /\ UNCHANGED <<package, base, override, hidden, reduced, baseAge, idleAge, lastIdle>>

(* setHiddenLocked: time spent hidden is not replayed. *)
SetHidden(h) ==
  /\ hidden # h /\ hidden' = h
  /\ petEvents < MaxPetEvents /\ petEvents' = petEvents + 1
  /\ IF h THEN UNCHANGED <<action, idleAge, actionAge, baseAge, settling>>
     ELSE action' = "" /\ idleAge' = Unset /\ actionAge' = 0 /\ baseAge' = 0 /\ settling' = 0
  /\ UNCHANGED <<package, base, override, playful, reduced, lastIdle>>

SetReducedMotion ==
  /\ petEvents < MaxPetEvents /\ petEvents' = petEvents + 1
  /\ reduced' = ~reduced
  /\ UNCHANGED <<package, base, override, action, playful, hidden, baseAge, actionAge,
                 idleAge, lastIdle, settling>>

-----------------------------------------------------------------------------
(* finishTransientLocked, in its three parts; s carries what they change. *)
Playing == [base |-> base, override |-> override, action |-> action, playful |-> playful,
            baseAge |-> Older(baseAge)]

FinishAction(s) ==
  LET long == ActionLength(s.action, s.playful)
      own == package.actions[s.action].after
      next == IF s.playful THEN "" ELSE
              IF own # "" THEN own ELSE package.after[package.actions[s.action].track]
  IN  IF s.action = "" \/ long = 0 \/ Older(actionAge) < long THEN s
      ELSE [s EXCEPT !.action = "", !.playful = FALSE, !.baseAge = 0,
                     !.override = IF next # "" THEN next
                                  ELSE IF s.playful THEN "" ELSE @]

FinishBaseLooped(s) ==
  LET t == BaseTrack(s.base, s.override)
      next == NextIn(package, s.base, t)
  IN  IF s.action # "" \/ s.baseAge < BaseLength(t) THEN s
      ELSE IF package.webm /\ s.base \in Finished
           THEN [s EXCEPT !.base = "idle", !.override = "", !.baseAge = 0]
           ELSE [s EXCEPT !.override = next, !.baseAge = 0]

FinishBase(s) ==
  LET t == BaseTrack(s.base, s.override)
      next == NextIn(package, s.base, t)
  IN  IF s.action # "" \/ Loops(s.base, t) \/ s.baseAge < BaseLength(t) THEN s
      ELSE IF package.webm /\ s.base \in Finished
           THEN [s EXCEPT !.base = "idle", !.override = "", !.baseAge = 0]
           ELSE [s EXCEPT !.override = next, !.baseAge = 0]

FinishHold(s) ==
  LET hold == IF s.base = "failed" THEN HoldFailed ELSE HoldCompleted
  IN  IF package.webm \/ s.base \notin Finished \/ s.action # "" \/ s.baseAge < hold THEN s
      ELSE [s EXCEPT !.base = "idle", !.override = "", !.baseAge = 0]

FinishTransient == FinishHold(FinishBase(FinishAction(Playing)))

(* idleVariationLocked: idle at rest now and then plays a declared action, or
   in a community package shows another idle track once the present one is
   over. *)
IdleVariation(s) ==
  IF package.idles # {}
  THEN LET t == BaseTrack(s.base, s.override)
           others == package.idles \ {lastIdle}
       IN  /\ IF s.baseAge < package.length[t]
              THEN override' = s.override /\ baseAge' = s.baseAge /\ lastIdle' = lastIdle
              ELSE /\ baseAge' = 0
                   /\ IF others = {} THEN override' = s.override /\ lastIdle' = lastIdle
                      ELSE override' \in others /\ lastIdle' = override'
           /\ action' = s.action /\ playful' = s.playful
           /\ actionAge' = Older(actionAge) /\ idleAge' = idleAge
  ELSE /\ override' = s.override /\ baseAge' = s.baseAge
       /\ IF idleAge = Unset THEN idleAge' = 0 ELSE idleAge' = (idleAge + 1) % IdleWait
       /\ \E a \in {""} \cup {n \in {"wave", "bounce"} \cap DOMAIN package.actions :
                                n # lastIdle /\ package.actions[n].track \notin package.loops} :
            IF a # "" /\ idleAge # Unset /\ idleAge' = 0 /\ Admits(s.action, a)
            THEN action' = a /\ actionAge' = 0 /\ playful' = TRUE /\ lastIdle' = a
            ELSE /\ action' = s.action /\ playful' = s.playful
                 /\ actionAge' = Older(actionAge) /\ lastIdle' = lastIdle

(* A unit of time, then Snapshot. *)
Tick ==
  LET s == FinishTransient
  IN  /\ base' = IF hidden THEN base ELSE s.base
      /\ IF hidden
         THEN /\ baseAge' = Older(baseAge) /\ actionAge' = Older(actionAge)
              /\ UNCHANGED <<override, action, playful, idleAge, lastIdle>>
         ELSE IF ~reduced /\ s.base = "idle" /\ s.action = "" THEN IdleVariation(s)
         ELSE /\ override' = s.override /\ action' = s.action /\ playful' = s.playful
              /\ baseAge' = s.baseAge /\ actionAge' = Older(actionAge)
              /\ UNCHANGED <<idleAge, lastIdle>>
      /\ settling' = IF ~hidden /\ base' \in Finished THEN Older(settling) ELSE 0
      /\ UNCHANGED <<package, hidden, reduced, petEvents>>

Next == \/ \E b \in Bases, clears \in BOOLEAN : DispatchBase(b, clears)
        \/ DispatchClick
        \/ \E h \in BOOLEAN : SetHidden(h)
        \/ SetReducedMotion
        \/ Tick

Spec == Init /\ [][Next]_petVars
-----------------------------------------------------------------------------
(* The packages: the longest of a package's tracks and time-outs. *)
Durations(p) == {p.length[t] : t \in p.tracks} \cup {p.timeout[t] : t \in p.tracks}
Longest(p) == CHOOSE n \in Durations(p) : \A d \in Durations(p) : d <= n

(* A package is accepted when every name in it is declared (codex.go
   validateTrackFallbacks, native.go loadDshNativeStates and
   loadDshNativeActions), and its tracks have a longest one. *)
Playable(p) == DOMAIN p.actions \cap (p.clicks \cup {"wave", "bounce", "attention", "celebrate"})
IsAccepted(p) ==
  /\ p.idle \in p.tracks /\ "" \notin p.tracks /\ "" \notin DOMAIN p.actions
  /\ p.length \in [p.tracks -> Nat \ {0}] /\ p.timeout \in [p.tracks -> Nat]
  /\ p.after \in [p.tracks -> p.tracks \cup {""}]
  /\ \A b \in DOMAIN p.states : /\ p.states[b].track \in p.tracks
                                /\ p.states[b].after \in p.tracks \cup {""}
  /\ \A a \in DOMAIN p.actions : /\ p.actions[a].track \in p.tracks
                                 /\ p.actions[a].after \in p.tracks \cup {""}
  /\ p.clicks \subseteq DOMAIN p.actions /\ p.idles \subseteq p.tracks
  /\ \E n \in Durations(p) : \A d \in Durations(p) : d <= n

(* Its finished tasks can end: what is played once does not repeat, and a
   track of a finished task repeats, or leads to one that does.  A video
   package ends them by their own track, and has no other. *)
CanSettle(p) ==
  /\ \A a \in Playable(p) : p.actions[a].track \notin p.loops
  /\ \A b \in Finished :
       IF p.webm
       THEN ~LoopsIn(p, b, IF b \in DOMAIN p.states THEN p.states[b].track ELSE p.idle)
       ELSE \A t \in p.tracks : LoopsIn(p, b, t) \/ LoopsIn(p, b, NextIn(p, b, t))
  /\ p.webm => \A a \in Playable(p) : p.actions[a].after = "" /\ p.after[p.actions[a].track] = ""
-----------------------------------------------------------------------------
(* Every value has its type: what is played and shown is always something
   the accepted package declares (pet/runtime.go:Snapshot looks it up). *)
PetRuntimeTypeOK ==
  /\ package \in Packages /\ base \in Bases
  /\ override \in package.tracks \cup {""}
  /\ action \in DOMAIN package.actions \cup {""}
  /\ lastIdle \in package.tracks \cup DOMAIN package.actions \cup {""}
  /\ {playful, hidden, reduced} \subseteq BOOLEAN
  /\ baseAge \in 0..MaxAge /\ actionAge \in 0..MaxAge /\ settling \in 0..MaxAge
  /\ idleAge \in 0..Unset /\ petEvents \in 0..MaxPetEvents

(* A finished task does not stay on the screen for ever: while the Pet is
   visible and nothing else happens, "completed" and "failed" settle to idle
   within the action and the track they play and their hold
   (runtime.go finishTransientLocked, which restarts the hold's clock whenever
   an action or a track ends). *)
FinishedSettles == settling <= 2 * Longest(package) + HoldFailed
=============================================================================
