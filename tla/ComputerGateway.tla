--------------------------- MODULE ComputerGateway ---------------------------
(***************************************************************************)
(* The computer-use gateway, automation/computer_gateway.go with the       *)
(* computer part of executeOwned and closeEntry in service.go: which       *)
(* conversation owns the desktop, the engine its calls share, the          *)
(* operating system's desktop lease, consents, observations and permits.   *)
(* A call is observing (computer_observe), acting on an observation        *)
(* (click, scroll) or typing, which refreshes the observation and probes   *)
(* the element before its permit is issued.  Observations are numbered;    *)
(* targets and elements that changed are a failure the call may meet.      *)
(***************************************************************************)
EXTENDS Naturals, FiniteSets

CONSTANTS
    Sessions,          \* conversations
    Uses,              \* computer tool calls
    UseSession,        \* call -> its conversation
    MaxLives, MaxSnapshots, MaxStops, MaxGiveUps  \* bounds

VARIABLES
    cowner,      \* the owning conversation's [session, life], NoOwner when nobody's
    clease,      \* the session whose engine entry g.lease points to, "none" when nil
    engine,      \* session -> its entry: [st, life, rel, revoked]
    deskHeld,    \* the operating system's lease is held by this process
    deskRel,     \* g.releaseDesktop is set
    runLive,     \* g.runCtx, under which probes run, has not been cancelled
    deskFailed,  \* g.desktopFailure or the lease's closeErr
    chat,        \* session -> its computerConversation: [life, stopped]
    uses,        \* call -> where it is
    asking,      \* call -> its pending consent: "none", "waiting", "allow", "deny"
    granted,     \* conversation lifetimes with the application granted
    observation, \* the snapshot a next action may use, 0 when there is none
    snaps,       \* snapshots taken so far
    actedOn,     \* snapshots an action was performed on
    usePermits,  \* call -> the snapshot its permit names; 0 for an observation, NoSnap for none
    acted,       \* the latest action repeated a snapshot (what ActsOnce forbids)
    stops, giveUps

computerVars == <<cowner, clease, engine, deskHeld, deskRel, runLive, deskFailed, chat, uses, asking,
                  granted, observation, snaps, actedOn, usePermits, acted, stops, giveUps>>

NoOwner == [session |-> "none", life |-> 0]
NoSnap == MaxSnapshots + 1
NoEngine == [st |-> "none", life |-> 0, rel |-> FALSE, revoked |-> FALSE]
Resting == [at |-> "idle", life |-> 0, kind |-> "none", snap |-> 0, ok |-> FALSE]
Kinds == {"observe", "act", "type"}

Me(c) == [session |-> UseSession[c], life |-> uses[c].life]
\* computerValidLocked: the call's conversation is not stopped and has not moved on.
UseValid(c) == LET s == UseSession[c] IN chat[s].life = uses[c].life /\ ~chat[s].stopped
Alive(e) == e.st \in {"creating", "ready", "closing"}

ComputerInit ==
    /\ cowner = NoOwner /\ clease = "none"
    /\ engine = [s \in Sessions |-> NoEngine]
    /\ deskHeld = FALSE /\ deskRel = FALSE /\ runLive = FALSE /\ deskFailed = FALSE
    /\ chat = [s \in Sessions |-> [life |-> 1, stopped |-> FALSE]]
    /\ uses = [c \in Uses |-> Resting]
    /\ asking = [c \in Uses |-> "none"]
    /\ granted = {}
    /\ observation = 0 /\ snaps = 0 /\ actedOn = {}
    /\ usePermits = [c \in Uses |-> NoSnap]
    /\ acted = FALSE
    /\ stops = 0 /\ giveUps = 0

Step(c, at) == uses' = [uses EXCEPT ![c].at = at]
SerialHolders == {"consent", "asked", "observed", "refreshEnter", "refreshRun", "element", "probe", "issue",
                  "check", "final", "enter", "run"}
SerialIdle == \A c \in Uses : uses[c].at \notin SerialHolders
Same == UNCHANGED <<deskFailed, chat, stops, giveUps>>

\* claimComputerLocked: a finished engine hands the desktop back; a free desktop is taken.
Claim(c, k) ==
    LET me == [session |-> UseSession[c], life |-> chat[UseSession[c]].life]
        over == clease # "none" /\ engine[clease].st = "closed"
        free == over \/ cowner = NoOwner
        held == IF over THEN "none" ELSE clease
    IN /\ uses[c].at = "idle" /\ usePermits[c] = NoSnap
       /\ ~deskFailed /\ ~chat[me.session].stopped
       /\ held # "none" => ~engine[held].revoked
       /\ free \/ cowner = me
       /\ free => ~deskHeld   \* Acquire refuses a desktop that is held
       /\ uses' = [uses EXCEPT ![c] = [Resting EXCEPT !.at = "queued", !.life = me.life, !.kind = k]]
       /\ clease' = held
       /\ IF free THEN cowner' = me /\ deskHeld' = TRUE /\ deskRel' = TRUE /\ runLive' = TRUE
                  ELSE UNCHANGED <<cowner, deskHeld, deskRel, runLive>>
       /\ Same /\ UNCHANGED <<engine, asking, granted, observation, snaps, actedOn, usePermits, acted>>

\* The deferred clean-up of an AuthorizeComputer that issued no permit.
Unadmitted(c) ==
    IF cowner = Me(c) /\ clease = "none"
    THEN /\ cowner' = NoOwner /\ deskRel' = FALSE /\ runLive' = FALSE
         /\ deskHeld' = (deskHeld /\ ~deskRel)
    ELSE UNCHANGED <<cowner, deskRel, deskHeld, runLive>>

Refused(c) == /\ uses' = [uses EXCEPT ![c] = Resting]
              /\ Unadmitted(c)

\* The caller goes away while it waits for the serial section.
GiveUpQueued(c) ==
    /\ uses[c].at = "queued" /\ giveUps < MaxGiveUps
    /\ giveUps' = giveUps + 1
    /\ Refused(c)
    /\ UNCHANGED <<clease, engine, deskFailed, chat, asking, granted, observation, snaps, actedOn,
                   usePermits, acted, stops>>

EnterAtOnce(c) ==
    /\ uses[c].at = "queued"
    /\ \/ Step(c, "consent") /\ UNCHANGED <<cowner, deskRel, deskHeld, runLive>>
       \/ Refused(c)
    /\ Same /\ UNCHANGED <<clease, engine, asking, granted, observation, snaps, actedOn, usePermits, acted>>

\* The serial section begins; the target may be blocked or gone.
Enter(c) ==
    /\ uses[c].at = "queued" /\ SerialIdle
    /\ \/ Step(c, "consent") /\ UNCHANGED <<cowner, deskRel, deskHeld, runLive>>
       \/ Refused(c)
    /\ Same /\ UNCHANGED <<clease, engine, asking, granted, observation, snaps, actedOn, usePermits, acted>>

\* computerConsent: an application the conversation was granted, or a question to the user.
ComputerConsent(c) ==
    /\ uses[c].at = "consent"
    /\ IF Me(c) \in granted
       THEN Step(c, "observed") /\ UNCHANGED asking
       ELSE Step(c, "asked") /\ asking' = [asking EXCEPT ![c] = "waiting"]
    /\ Same /\ UNCHANGED <<cowner, clease, engine, deskHeld, deskRel, runLive, granted, observation, snaps, actedOn, usePermits, acted>>

AnswerComputerConsent(c, choice) ==
    /\ asking[c] = "waiting"
    /\ asking' = [asking EXCEPT ![c] = choice]
    /\ Same /\ UNCHANGED <<cowner, clease, engine, deskHeld, deskRel, runLive, uses, granted, observation, snaps, actedOn, usePermits, acted>>

\* The wait ends with the answer, a revocation's refusal or the timeout; a call revoked
\* meanwhile grants nothing.
Consented(c) ==
    /\ uses[c].at = "asked"
    /\ asking' = [asking EXCEPT ![c] = "none"]
    /\ IF UseValid(c) /\ cowner = Me(c) /\ asking[c] = "allow"
       THEN /\ granted' = granted \cup {Me(c)}
            /\ Step(c, "observed")
            /\ UNCHANGED <<cowner, deskRel, deskHeld, runLive>>
       ELSE Refused(c) /\ UNCHANGED granted
    /\ Same /\ UNCHANGED <<clease, engine, observation, snaps, actedOn, usePermits, acted>>

\* An action names the observation it was chosen from.
Observed(c) ==
    /\ uses[c].at = "observed"
    /\ IF uses[c].kind = "observe" THEN Step(c, "issue") /\ UNCHANGED <<cowner, deskRel, deskHeld, runLive>>
       ELSE IF observation = 0 THEN Refused(c)
       ELSE /\ uses' = [uses EXCEPT ![c].snap = observation,
                                    ![c].at = IF uses[c].kind = "type" THEN "refreshEnter" ELSE "issue"]
            /\ UNCHANGED <<cowner, deskRel, deskHeld, runLive>>
    /\ Same /\ UNCHANGED <<clease, engine, asking, granted, observation, snaps, actedOn, usePermits, acted>>

\* executeOwned's admission: a valid call joins the conversation's engine or creates it,
\* which takes over the desktop's release.
EngineEnter(c) ==
    LET s == UseSession[c]
    IN /\ uses[c].at \in {"refreshEnter", "enter"}
       /\ IF ~UseValid(c)
          THEN /\ IF uses[c].at = "enter"
                  THEN uses' = [uses EXCEPT ![c] = Resting] /\ UNCHANGED <<cowner, deskRel, deskHeld, runLive>>
                  ELSE Refused(c)
               /\ UNCHANGED <<clease, engine>>
          ELSE /\ Step(c, IF uses[c].at = "enter" THEN "run" ELSE "refreshRun")
               /\ IF Alive(engine[s]) /\ ~engine[s].revoked THEN UNCHANGED <<engine, clease>>
                  ELSE /\ ~Alive(engine[s])
                       /\ engine' = [engine EXCEPT ![s] = [st |-> "creating", life |-> uses[c].life,
                                                           rel |-> deskRel, revoked |-> FALSE]]
                       /\ clease' = s
               /\ UNCHANGED <<cowner, deskRel, deskHeld, runLive>>
       /\ Same /\ UNCHANGED <<asking, granted, observation, snaps, actedOn, usePermits, acted>>

EngineReady(s) ==
    /\ engine[s].st = "creating"
    /\ engine' = [engine EXCEPT ![s].st = "ready"]
    /\ Same /\ UNCHANGED <<cowner, clease, deskHeld, deskRel, runLive, uses, asking, granted, observation, snaps, actedOn, usePermits, acted>>

CanRun(c) == LET e == engine[UseSession[c]]
             IN UseValid(c) /\ e.st = "ready" /\ ~e.revoked /\ e.life = uses[c].life
\* What a waiting call finds once its engine is no longer being created.
EngineGone(c) == LET e == engine[UseSession[c]] IN e.st # "creating" /\ ~CanRun(c)

\* refreshComputerElement: a fresh observation replaces the one the call was chosen from.
Refresh(c) ==
    /\ uses[c].at = "refreshRun"
    /\ \/ /\ CanRun(c) /\ snaps < MaxSnapshots
          /\ snaps' = snaps + 1
          /\ observation' = snaps + 1
          /\ uses' = [uses EXCEPT ![c].at = "element", ![c].snap = snaps + 1]
          /\ UNCHANGED <<cowner, deskRel, deskHeld, runLive>>
       \/ /\ CanRun(c) \/ EngineGone(c)
          /\ Refused(c) /\ UNCHANGED <<snaps, observation>>
    /\ Same /\ UNCHANGED <<clease, engine, asking, granted, actedOn, usePermits, acted>>

\* probeComputerElement: refused once the run context is cancelled.
Probe(c) ==
    /\ uses[c].at = "element"
    /\ IF runLive THEN Step(c, "probe") /\ UNCHANGED <<cowner, deskRel, deskHeld, runLive>>
       ELSE Refused(c)
    /\ Same /\ UNCHANGED <<clease, engine, asking, granted, observation, snaps, actedOn, usePermits, acted>>

\* The probe returns: the element is the expected one or not.
Probed(c) ==
    /\ uses[c].at = "probe"
    /\ \/ Step(c, "issue") /\ UNCHANGED <<cowner, deskRel, deskHeld, runLive>>
       \/ Refused(c)
    /\ Same /\ UNCHANGED <<clease, engine, asking, granted, observation, snaps, actedOn, usePermits, acted>>

IssuePermit(c) ==
    /\ uses[c].at = "issue"
    /\ IF UseValid(c) /\ cowner = Me(c)
       THEN /\ usePermits' = [usePermits EXCEPT ![c] = uses[c].snap]
            /\ uses' = [uses EXCEPT ![c] = [Resting EXCEPT !.life = uses[c].life, !.kind = uses[c].kind]]
            /\ UNCHANGED <<cowner, deskRel, deskHeld, runLive>>
       ELSE Refused(c) /\ UNCHANGED usePermits
    /\ Same /\ UNCHANGED <<clease, engine, asking, granted, observation, snaps, actedOn, acted>>

-----------------------------------------------------------------------------
Kept == UNCHANGED <<cowner, deskHeld, deskRel, runLive, asking, granted>>

\* executeComputerPermit takes the permit; it may also expire or be discarded.
RedeemPermit(c) ==
    /\ uses[c].at = "idle" /\ usePermits[c] # NoSnap
    /\ usePermits' = [usePermits EXCEPT ![c] = NoSnap]
    /\ \/ UseValid(c) /\ uses' = [uses EXCEPT ![c].at = "redeemed", ![c].snap = usePermits[c]]
       \/ uses' = [uses EXCEPT ![c] = Resting]
    /\ Same /\ Kept /\ UNCHANGED <<clease, engine, observation, snaps, actedOn, acted>>

\* In the serial section: the observation is still the permit's.
CheckObservation(c) ==
    /\ uses[c].at = "redeemed" /\ SerialIdle
    /\ IF uses[c].kind = "observe" \/ observation = uses[c].snap THEN Step(c, "final")
       ELSE uses' = [uses EXCEPT ![c] = Resting]
    /\ Same /\ Kept /\ UNCHANGED <<clease, engine, observation, snaps, actedOn, usePermits, acted>>

FinalCheckKeeps(c) ==
    /\ uses[c].at = "final"
    /\ IF UseValid(c) /\ cowner = Me(c) THEN Step(c, "enter")
       ELSE uses' = [uses EXCEPT ![c] = Resting]
    /\ Same /\ Kept /\ UNCHANGED <<clease, engine, observation, snaps, actedOn, usePermits, acted>>

\* The last check before dispatch spends the observation.
FinalCheck(c) ==
    /\ uses[c].at = "final"
    /\ IF UseValid(c) /\ cowner = Me(c) THEN Step(c, "enter") /\ observation' = 0
       ELSE uses' = [uses EXCEPT ![c] = Resting] /\ UNCHANGED observation
    /\ Same /\ Kept /\ UNCHANGED <<clease, engine, snaps, actedOn, usePermits, acted>>

\* The engine runs the tool; an observation becomes the current one, an action is performed
\* on the snapshot it was approved for.  An engine error after the action began returns early.
Run(c) ==
    /\ uses[c].at = "run"
    /\ \/ /\ CanRun(c) /\ uses[c].kind = "observe" /\ snaps < MaxSnapshots
          /\ snaps' = snaps + 1 /\ observation' = snaps + 1
          /\ UNCHANGED <<actedOn, acted>>
       \/ /\ CanRun(c) /\ uses[c].kind # "observe"
          /\ actedOn' = actedOn \cup {uses[c].snap}
          /\ acted' = (uses[c].snap \in actedOn)
          /\ \E ok \in BOOLEAN : observation' = IF ok THEN 0 ELSE observation
          /\ UNCHANGED snaps
       \/ /\ EngineGone(c)
          /\ UNCHANGED <<snaps, observation, actedOn, acted>>
    /\ uses' = [uses EXCEPT ![c] = Resting]
    /\ Same /\ Kept /\ UNCHANGED <<clease, engine, usePermits>>

-----------------------------------------------------------------------------
\* revokeComputerLocked and revokeLocked for the conversation's lifetime.
RevokeComputer(s) ==
    LET mine == cowner = [session |-> s, life |-> chat[s].life]
    IN /\ usePermits' = [c \in Uses |-> IF UseSession[c] = s THEN NoSnap ELSE usePermits[c]]
       /\ asking' = [c \in Uses |-> IF UseSession[c] = s /\ asking[c] = "waiting" THEN "deny" ELSE asking[c]]
       /\ engine' = [engine EXCEPT ![s].revoked = Alive(engine[s]) \/ @]
       /\ granted' = IF mine THEN {} ELSE granted
       /\ observation' = IF mine THEN 0 ELSE observation
       /\ runLive' = (runLive /\ ~mine)
       /\ IF mine /\ clease = "none"
          THEN /\ cowner' = NoOwner /\ deskRel' = FALSE
               /\ deskHeld' = (deskHeld /\ ~deskRel)
          ELSE UNCHANGED <<cowner, deskHeld, deskRel>>

StopComputerUseForgets(s) ==
    /\ stops < MaxStops /\ ~chat[s].stopped
    /\ stops' = stops + 1
    /\ chat' = [chat EXCEPT ![s].stopped = TRUE]
    /\ engine' = [engine EXCEPT ![s].revoked = Alive(engine[s]) \/ @]
    /\ UNCHANGED <<cowner, clease, deskHeld, deskRel, runLive, deskFailed, uses, asking, granted, observation,
                   snaps, actedOn, usePermits, acted, giveUps>>

\* StopComputerUse (or StopSession, for this capability)
StopComputerUse(s) ==
    /\ stops < MaxStops /\ ~chat[s].stopped
    /\ stops' = stops + 1
    /\ chat' = [chat EXCEPT ![s].stopped = TRUE]
    /\ RevokeComputer(s)
    /\ UNCHANGED <<clease, deskFailed, uses, snaps, actedOn, acted, giveUps>>

\* ReleaseComputer: the owner lets go without being stopped; also a failed engine
\* (failOwnedAutomationEntry).
ReleaseComputer(s) ==
    /\ stops < MaxStops
    /\ stops' = stops + 1
    /\ cowner = [session |-> s, life |-> chat[s].life]
    /\ RevokeComputer(s)
    /\ UNCHANGED <<clease, deskFailed, chat, uses, snaps, actedOn, acted, giveUps>>

\* ComputerTurn: the user's next message ends a stop with a new lifetime.
ComputerTurn(s) ==
    /\ chat[s].stopped /\ chat[s].life < MaxLives
    /\ chat' = [chat EXCEPT ![s] = [life |-> @.life + 1, stopped |-> FALSE]]
    /\ usePermits' = [c \in Uses |-> IF UseSession[c] = s THEN NoSnap ELSE usePermits[c]]
    /\ asking' = [c \in Uses |-> IF UseSession[c] = s /\ asking[c] = "waiting" THEN "deny" ELSE asking[c]]
    /\ UNCHANGED <<cowner, clease, engine, deskHeld, deskRel, runLive, deskFailed, uses, granted, observation,
                   snaps, actedOn, acted, stops, giveUps>>

\* closeEntry: the resource is closed, the running probes end, then the desktop is released;
\* a failure keeps the desktop and is reported until restart.
EngineClosed(s) ==
    /\ engine[s].st = "ready" /\ engine[s].revoked
    /\ \A c \in Uses : uses[c].at # "probe"
    /\ \E ok \in BOOLEAN :
         /\ engine' = [engine EXCEPT ![s].st = IF ok THEN "closed" ELSE "failed"]
         /\ deskFailed' = (deskFailed \/ ~ok)
         /\ deskHeld' = (deskHeld /\ ~(ok /\ engine[s].rel))
    /\ UNCHANGED <<cowner, clease, deskRel, runLive, chat, uses, asking, granted, observation, snaps, actedOn,
                   usePermits, acted, stops, giveUps>>

ComputerNext ==
    \/ \E c \in Uses, k \in Kinds : Claim(c, k)
    \/ \E c \in Uses :
         \/ GiveUpQueued(c) \/ Enter(c) \/ ComputerConsent(c) \/ Consented(c) \/ Observed(c)
         \/ EngineEnter(c) \/ Refresh(c) \/ Probe(c) \/ Probed(c) \/ IssuePermit(c)
         \/ RedeemPermit(c) \/ CheckObservation(c) \/ FinalCheck(c) \/ Run(c)
         \/ \E choice \in {"allow", "deny"} : AnswerComputerConsent(c, choice)
    \/ \E s \in Sessions : \/ EngineReady(s) \/ EngineClosed(s) \/ StopComputerUse(s)
                           \/ ReleaseComputer(s) \/ ComputerTurn(s)

ComputerSpec == ComputerInit /\ [][ComputerNext]_computerVars

-----------------------------------------------------------------------------
\* Types: the serial section holds one call and only an asked call has a pending consent.
ComputerTypeOK ==
    /\ Cardinality({c \in Uses : uses[c].at \in SerialHolders}) <= 1
    /\ \A c \in Uses : asking[c] # "none" <=> uses[c].at = "asked"
    /\ observation \in 0..snaps /\ snaps \in 0..MaxSnapshots

\* An observation supports one action: after it no other call, whenever it was approved,
\* acts on the same snapshot.
ActsOnce == ~acted

\* After StopComputerUse no permit of the stopped conversation is left, whatever its calls
\* were doing: what the user goes on to answer permits it nothing.
StoppedComputerIsQuiet ==
    \A c \in Uses : chat[UseSession[c]].stopped =>
        usePermits[c] = NoSnap

\* A running engine belongs to the conversation that owns the desktop, which is held.
EngineOwnsDesktop ==
    \A s \in Sessions : engine[s].st = "ready" =>
        deskHeld /\ cowner = [session |-> s, life |-> engine[s].life]
=============================================================================
