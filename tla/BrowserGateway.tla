--------------------------- MODULE BrowserGateway ----------------------------
(***************************************************************************)
(* The product gateway for browser tools, automation/browser_gateway.go,   *)
(* for one conversation: AuthorizeBrowser turns a tool call into a permit  *)
(* through up to three user consents, executeBrowserPermit redeems it,     *)
(* and the user's turn, stop, policy and connection changes race with      *)
(* both.  A policy is reduced to the three answers the tool call's site    *)
(* and category get from it; the page is a version number, which is what   *)
(* comparing evidence tells apart.                                         *)
(***************************************************************************)
EXTENDS Naturals, Sequences, FiniteSets, SequencesExt

CONSTANTS
    Tools,       \* the tool calls of the conversation
    Policies,    \* policies the user may set: [ask, rule, confirm, lasts]
    MaxTurns, MaxEvents  \* bounds: user messages; stops, policy changes, reconnections, page changes

VARIABLES
    gatePolicy, policyRevision,
    conv,        \* the conversation: [life, turn, browser, site, denied, stopped]
    gateEpoch,   \* the browser slot's epoch
    page,        \* the page the conversation's tab shows
    tools,       \* tool -> its AuthorizeBrowser / executeBrowserPermit call
    consents,    \* tool -> its pending consent: "none", "waiting", "allow", "always",
                 \*   "deny" (answered), "cancelled", "denied late" (both) or "expired"
    consentQueue,
    permits,     \* tool -> the permit issued for it, live = FALSE when none
    gateEvents   \* what the bound MaxEvents counts

gateVars == <<gatePolicy, policyRevision, conv, gateEpoch, page, tools, consents, consentQueue,
              permits, gateEvents>>

NoPermit == [live |-> FALSE, rev |-> 0, life |-> 0, turn |-> 0, epoch |-> 0, page |-> 0, late |-> FALSE]
Idle == [at |-> "idle", life |-> 0, turn |-> 0, epoch |-> 0, rev |-> 0, page |-> 0, kind |-> "none",
         confirm |-> "ask"]
Answered == {"allow", "always", "deny"}

\* validLocked for a call of this conversation
Valid(t) == /\ tools[t].life = conv.life /\ tools[t].turn = conv.turn
            /\ ~conv.stopped
            /\ tools[t].epoch = gateEpoch

\* A call's place in the conversation's serial section; a new lifetime has a new one.
Serial == {"need", "ask", "wait", "connect", "inspect", "site", "grant", "category", "issue",
           "recheck", "reinspect", "act"}
SerialFree(t) == \A u \in Tools \ {t} : ~(tools[u].at \in Serial /\ tools[u].life = tools[t].life)

Go(t, at) == tools' = [tools EXCEPT ![t].at = at]
Fail(t) == tools' = [tools EXCEPT ![t] = Idle]

GateInit ==
    /\ gatePolicy \in Policies
    /\ policyRevision = 1
    /\ conv = [life |-> 1, turn |-> 1, browser |-> FALSE, site |-> FALSE, denied |-> {}, stopped |-> FALSE]
    /\ gateEpoch = 1
    /\ page = 1
    /\ tools = [t \in Tools |-> Idle]
    /\ consents = [t \in Tools |-> "none"]
    /\ consentQueue = <<>>
    /\ permits = [t \in Tools |-> NoPermit]
    /\ gateEvents = 0

Event == gateEvents < MaxEvents /\ gateEvents' = gateEvents + 1

\* cancelBrowserConsentsLocked: the contexts of pending consents end.
Cancelled == [t \in Tools |-> CASE consents[t] \in {"waiting", "allow", "always"} -> "cancelled"
                               [] consents[t] = "deny" -> "denied late"
                               [] OTHER -> consents[t]]

\* revokeBrowserGrantsLocked: grants and permits go, and every pending consent except
\* the wait for the connection the user just allowed.
Connecting(t) == consents[t] \in {"allow", "always"} /\ tools[t].kind = "browser"
Ungranted(c) == [c EXCEPT !.browser = FALSE, !.site = FALSE]
Revoked == [t \in Tools |-> IF Connecting(t) /\ ~conv'.stopped THEN consents[t] ELSE Cancelled[t]]
NoPermits == [t \in Tools |-> NoPermit]

\* BrowserTurn: a user message starts a turn; after a stop it starts a new lifetime.
BrowserTurn ==
    LET fresh == conv.stopped
        next == [conv EXCEPT !.turn = @ + 1, !.denied = {}]
    IN /\ conv.turn < MaxTurns
       /\ conv' = IF fresh THEN [Ungranted(next) EXCEPT !.life = @ + 1, !.stopped = FALSE]
                  ELSE IF gatePolicy.lasts = "turn" THEN Ungranted(next) ELSE next
       /\ permits' = NoPermits
       /\ consents' = Cancelled
       /\ UNCHANGED <<gatePolicy, policyRevision, gateEpoch, page, tools, consentQueue, gateEvents>>

StopBrowserUseOnly ==
    /\ Event /\ ~conv.stopped
    /\ conv' = [Ungranted(conv) EXCEPT !.stopped = TRUE]
    /\ UNCHANGED <<gatePolicy, policyRevision, gateEpoch, page, tools, consents, consentQueue, permits>>

\* StopBrowserUse (and StopSession): the user ends browser use in this lifetime.
StopBrowserUse ==
    /\ Event /\ ~conv.stopped
    /\ conv' = [Ungranted(conv) EXCEPT !.stopped = TRUE]
    /\ permits' = NoPermits
    /\ consents' = Revoked
    /\ UNCHANGED <<gatePolicy, policyRevision, gateEpoch, page, tools, consentQueue>>

\* The selected profile's route changes: profileChangeLocked moves the epoch and revokes.
RouteChanges ==
    /\ Event
    /\ gateEpoch' = gateEpoch + 1
    /\ conv' = Ungranted(conv)
    /\ permits' = NoPermits
    /\ consents' = Revoked
    /\ UNCHANGED <<gatePolicy, policyRevision, page, tools, consentQueue>>

\* browserIdleLoop: fifteen idle minutes end a grant that lasts for the conversation.
IdleExpires ==
    /\ conv.browser /\ gatePolicy.lasts = "conversation"
    /\ conv' = Ungranted(conv)
    /\ permits' = NoPermits
    /\ consents' = Revoked
    /\ UNCHANGED <<gatePolicy, policyRevision, gateEpoch, page, tools, consentQueue, gateEvents>>

\* SetBrowserPolicy: a new revision, no permits, no pending consents.
SetBrowserPolicy(p) ==
    /\ Event /\ p # gatePolicy
    /\ gatePolicy' = p
    /\ policyRevision' = policyRevision + 1
    /\ permits' = NoPermits
    /\ consents' = Cancelled
    /\ UNCHANGED <<conv, gateEpoch, page, tools, consentQueue>>

PageChanges ==
    /\ Event
    /\ page' = page + 1
    /\ UNCHANGED <<gatePolicy, policyRevision, conv, gateEpoch, tools, consents, consentQueue, permits>>

-----------------------------------------------------------------------------
Quiet == UNCHANGED <<gatePolicy, policyRevision, gateEpoch, page, gateEvents>>

\* AuthorizeBrowser's admission: the call carries the lifetime, turn and epoch of its sender.
AuthorizeBrowser(t) ==
    /\ tools[t].at = "idle" /\ ~permits[t].live
    /\ ~conv.stopped
    /\ tools' = [tools EXCEPT ![t] = [Idle EXCEPT !.at = "queued", !.life = conv.life,
                                      !.turn = conv.turn, !.epoch = gateEpoch]]
    /\ Quiet /\ UNCHANGED <<conv, consents, consentQueue, permits>>

TakeSerialAtOnce(t) ==
    /\ tools[t].at = "queued"
    /\ IF ~Valid(t) THEN Fail(t)
       ELSE IF gatePolicy.ask /\ ~conv.browser
            THEN tools' = [tools EXCEPT ![t].at = "ask", ![t].kind = "browser"]
            ELSE Go(t, "connect")
    /\ Quiet /\ UNCHANGED <<conv, consents, consentQueue, permits>>

\* The serial section begins: revalidate and read whether the conversation needs consent.
TakeSerial(t) ==
    /\ tools[t].at = "queued" /\ SerialFree(t)
    /\ IF ~Valid(t) THEN Fail(t)
       ELSE IF gatePolicy.ask /\ ~conv.browser
            THEN tools' = [tools EXCEPT ![t].at = "ask", ![t].kind = "browser"]
            ELSE Go(t, "connect")
    /\ Quiet /\ UNCHANGED <<conv, consents, consentQueue, permits>>

\* The caller gives up while it waits for the serial section.
GiveUp(t) ==
    /\ tools[t].at \in {"queued", "redeemed"}
    /\ Fail(t)
    /\ Quiet /\ UNCHANGED <<conv, consents, consentQueue, permits>>

\* browserConsent: refused when revoked or denied this turn, otherwise queued for the user.
BrowserConsent(t) ==
    /\ tools[t].at = "ask"
    /\ IF ~Valid(t) \/ tools[t].kind \in conv.denied
       THEN Fail(t) /\ UNCHANGED <<consents, consentQueue>>
       ELSE /\ Go(t, "wait")
            /\ consents' = [consents EXCEPT ![t] = "waiting"]
            /\ consentQueue' = Append(consentQueue, t)
    /\ Quiet /\ UNCHANGED <<conv, permits>>

AnswerKeepsPermits(t, choice) ==
    LET always == [gatePolicy EXCEPT !.ask = IF tools[t].kind = "browser" THEN FALSE ELSE @,
                                     !.rule = IF tools[t].kind = "site" THEN "allow" ELSE @]
    IN /\ consentQueue # <<>> /\ Head(consentQueue) = t
       /\ consents[t] = "waiting"
       /\ choice = "always" => tools[t].kind # "action"
       /\ consents' = [consents EXCEPT ![t] = choice]
       /\ IF choice = "always"
          THEN gatePolicy' = always /\ policyRevision' = policyRevision + 1
          ELSE UNCHANGED <<gatePolicy, policyRevision>>
       /\ UNCHANGED <<conv, gateEpoch, page, tools, consentQueue, permits, gateEvents>>

\* AnswerBrowserConsent: only the head of the queue, once; "always" is a policy change.
AnswerBrowserConsent(t, choice) ==
    LET always == [gatePolicy EXCEPT !.ask = IF tools[t].kind = "browser" THEN FALSE ELSE @,
                                     !.rule = IF tools[t].kind = "site" THEN "allow" ELSE @]
    IN /\ consentQueue # <<>> /\ Head(consentQueue) = t
       /\ consents[t] = "waiting"
       /\ choice = "always" => tools[t].kind # "action"
       /\ consents' = [consents EXCEPT ![t] = choice]
       /\ IF choice = "always"
          THEN gatePolicy' = always /\ policyRevision' = policyRevision + 1 /\ permits' = NoPermits
          ELSE UNCHANGED <<gatePolicy, policyRevision, permits>>
       /\ UNCHANGED <<conv, gateEpoch, page, tools, consentQueue, gateEvents>>

\* "deny" while the browser is still connecting cancels the wait.
DenyWhileConnecting(t) ==
    /\ consentQueue # <<>> /\ Head(consentQueue) = t
    /\ Connecting(t)
    /\ consents' = [consents EXCEPT ![t] = "cancelled"]
    /\ Quiet /\ UNCHANGED <<conv, tools, consentQueue, permits>>

\* Two minutes pass without an answer.
ConsentExpires(t) ==
    /\ consents[t] = "waiting"
    /\ consents' = [consents EXCEPT ![t] = "expired"]
    /\ Quiet /\ UNCHANGED <<conv, tools, consentQueue, permits>>

\* Whether a consent's end is remembered as a denial: select takes either ready case.
Denials(c) == CASE c \in {"deny", "expired"} -> {TRUE}
                [] c = "denied late" -> BOOLEAN
                [] OTHER -> {FALSE}

ConsentReturnsLeavesQueue(t) ==
    /\ tools[t].at = "wait" /\ consents[t] \notin {"none", "waiting"}
    /\ \E remembered \in Denials(consents[t]) :
         conv' = IF remembered /\ tools[t].life = conv.life
                 THEN [conv EXCEPT !.denied = @ \cup {tools[t].kind}] ELSE conv
    /\ \/ /\ consents[t] \in {"allow", "always"}
          /\ Go(t, CASE tools[t].kind = "browser" -> "connect"
                     [] tools[t].kind = "site" -> "grant"
                     [] OTHER -> "issue")
       \/ /\ consents[t] \notin {"allow", "always"} \/ tools[t].kind = "browser"
          /\ Fail(t)
    /\ consents' = [consents EXCEPT ![t] = "none"]
    /\ Quiet /\ UNCHANGED <<consentQueue, permits>>

\* browserConsent returns, for the browser itself with the outcome of connecting: a denial
\* is remembered by the conversation the call began in, and the deferred cleanup leaves
\* the queue.
ConsentReturns(t) ==
    /\ tools[t].at = "wait" /\ consents[t] \notin {"none", "waiting"}
    /\ \E remembered \in Denials(consents[t]) :
         conv' = IF remembered /\ tools[t].life = conv.life
                 THEN [conv EXCEPT !.denied = @ \cup {tools[t].kind}] ELSE conv
    /\ \/ /\ consents[t] \in {"allow", "always"}
          /\ Go(t, CASE tools[t].kind = "browser" -> "connect"
                     [] tools[t].kind = "site" -> "grant"
                     [] OTHER -> "issue")
       \/ /\ consents[t] \notin {"allow", "always"} \/ tools[t].kind = "browser"
          /\ Fail(t)
    /\ consents' = [consents EXCEPT ![t] = "none"]
    /\ consentQueue' = RemoveFirst(consentQueue, t)
    /\ Quiet /\ UNCHANGED permits

\* The consented site is granted to the conversation the call began in.
GrantSite(t) ==
    /\ tools[t].at = "grant"
    /\ conv' = IF tools[t].life = conv.life THEN [conv EXCEPT !.site = TRUE] ELSE conv
    /\ Go(t, "category")
    /\ Quiet /\ UNCHANGED <<consents, consentQueue, permits>>

\* OpenBrowserProfile returned or failed; the epoch is read afresh because connecting may move it.
Connected(t) ==
    /\ tools[t].at = "connect"
    /\ \/ /\ tools[t].life = conv.life /\ tools[t].turn = conv.turn /\ ~conv.stopped
          /\ tools' = [tools EXCEPT ![t].at = "inspect", ![t].epoch = gateEpoch]
          /\ conv' = [conv EXCEPT !.browser = TRUE]
       \/ Fail(t) /\ UNCHANGED conv
    /\ Quiet /\ UNCHANGED <<consents, consentQueue, permits>>

\* inspectBrowser: executeOwned, so it fails for a call that is no longer valid.
Inspect(t) ==
    /\ tools[t].at = "inspect"
    /\ \/ Valid(t) /\ tools' = [tools EXCEPT ![t].at = "site", ![t].page = page]
       \/ Fail(t)
    /\ Quiet /\ UNCHANGED <<conv, consents, consentQueue, permits>>

\* The site's rule, from a copy of the policy that the category decision uses too.
SiteDecision(t) ==
    /\ tools[t].at = "site"
    /\ tools' = IF gatePolicy.rule = "block" THEN [tools EXCEPT ![t] = Idle]
                ELSE IF gatePolicy.rule = "ask" /\ ~conv.site
                THEN [tools EXCEPT ![t].at = "ask", ![t].kind = "site", ![t].confirm = gatePolicy.confirm]
                ELSE [tools EXCEPT ![t].at = "category", ![t].confirm = gatePolicy.confirm]
    /\ Quiet /\ UNCHANGED <<conv, consents, consentQueue, permits>>

CategoryDecision(t) ==
    /\ tools[t].at = "category"
    /\ tools' = CASE tools[t].confirm = "block" -> [tools EXCEPT ![t] = Idle]
                  [] tools[t].confirm = "ask" -> [tools EXCEPT ![t].at = "ask", ![t].kind = "action"]
                  [] OTHER -> [tools EXCEPT ![t].at = "issue"]
    /\ Quiet /\ UNCHANGED <<conv, consents, consentQueue, permits>>

\* The permit carries the revision of the moment it is issued.
Issue(t) ==
    /\ tools[t].at = "issue"
    /\ permits' = IF Valid(t)
                  THEN [permits EXCEPT ![t] = [live |-> TRUE, rev |-> policyRevision, life |-> conv.life,
                                               turn |-> conv.turn, epoch |-> gateEpoch,
                                               page |-> tools[t].page, late |-> FALSE]]
                  ELSE permits
    /\ Fail(t)
    /\ Quiet /\ UNCHANGED <<conv, consents, consentQueue>>

PermitExpires(t) ==
    /\ permits[t].live /\ ~permits[t].late
    /\ permits' = [permits EXCEPT ![t].late = TRUE]
    /\ Quiet /\ UNCHANGED <<conv, tools, consents, consentQueue>>

\* DiscardBrowserPermit, or the pruning of expired permits.
DiscardBrowserPermit(t) ==
    /\ permits[t].live
    /\ permits' = [permits EXCEPT ![t] = NoPermit]
    /\ Quiet /\ UNCHANGED <<conv, tools, consents, consentQueue>>

RedeemAgain(t) ==
    /\ tools[t].at = "idle" /\ permits[t].live
    /\ LET p == permits[t]
       IN IF p.rev = policyRevision /\ ~p.late
          THEN tools' = [tools EXCEPT ![t] = [Idle EXCEPT !.at = "redeemed", !.life = p.life, !.turn = p.turn,
                                                 !.epoch = p.epoch, !.rev = p.rev, !.page = p.page]]
          ELSE Fail(t)
    /\ Quiet /\ UNCHANGED <<conv, consents, consentQueue, permits>>

\* executeBrowserPermit: the permit is taken whatever the checks say.
Redeem(t) ==
    /\ tools[t].at = "idle" /\ permits[t].live
    /\ LET p == permits[t]
       IN IF p.rev = policyRevision /\ ~p.late
          THEN tools' = [tools EXCEPT ![t] = [Idle EXCEPT !.at = "redeemed", !.life = p.life, !.turn = p.turn,
                                                 !.epoch = p.epoch, !.rev = p.rev, !.page = p.page]]
          ELSE Fail(t)
    /\ permits' = [permits EXCEPT ![t] = NoPermit]
    /\ Quiet /\ UNCHANGED <<conv, consents, consentQueue>>

\* In the serial section: still valid and the same revision.
Recheck(t) ==
    /\ tools[t].at = "redeemed" /\ SerialFree(t)
    /\ IF Valid(t) /\ tools[t].rev = policyRevision THEN Go(t, "reinspect") ELSE Fail(t)
    /\ Quiet /\ UNCHANGED <<conv, consents, consentQueue, permits>>

\* The evidence must be the authorized one.
Reinspect(t) ==
    /\ tools[t].at = "reinspect"
    /\ IF Valid(t) /\ tools[t].page = page THEN Go(t, "act") ELSE Fail(t)
    /\ Quiet /\ UNCHANGED <<conv, consents, consentQueue, permits>>

\* executeOwned runs the tool, or refuses a call revoked meanwhile; either way it returns.
Act(t) ==
    /\ tools[t].at = "act"
    /\ Fail(t)
    /\ Quiet /\ UNCHANGED <<conv, consents, consentQueue, permits>>

GateNext ==
    \/ BrowserTurn \/ StopBrowserUse \/ RouteChanges \/ IdleExpires \/ PageChanges
    \/ \E p \in Policies : SetBrowserPolicy(p)
    \/ \E t \in Tools :
         \/ AuthorizeBrowser(t) \/ TakeSerial(t) \/ GiveUp(t) \/ BrowserConsent(t)
         \/ \E choice \in Answered : AnswerBrowserConsent(t, choice)
         \/ DenyWhileConnecting(t) \/ ConsentExpires(t) \/ ConsentReturns(t) \/ GrantSite(t) \/ Connected(t)
         \/ Inspect(t) \/ SiteDecision(t) \/ CategoryDecision(t) \/ Issue(t) \/ PermitExpires(t)
         \/ DiscardBrowserPermit(t) \/ Redeem(t) \/ Recheck(t) \/ Reinspect(t) \/ Act(t)

GateSpec == GateInit /\ [][GateNext]_gateVars

-----------------------------------------------------------------------------
\* Types: the serial section of a lifetime holds one call, and only a call that waits has
\* a consent before the user.
GateTypeOK ==
    /\ gatePolicy \in [ask : BOOLEAN, rule : {"ask", "allow", "block"},
                       confirm : {"ask", "allow", "block"}, lasts : {"turn", "conversation"}]
    /\ \A t, u \in Tools : t # u /\ {tools[t].at, tools[u].at} \subseteq Serial
                             => tools[t].life # tools[u].life
    /\ \A t \in Tools : consents[t] # "none" <=> tools[t].at = "wait"

\* Every permit in the gateway's table belongs to the current policy revision, lifetime,
\* turn and connection epoch: each change of any of them, the "always" answer of another
\* call's consent included, empties the table.
NoStalePermit ==
    \A t \in Tools : permits[t].live =>
        /\ permits[t].rev = policyRevision
        /\ permits[t].life = conv.life /\ permits[t].turn = conv.turn
        /\ permits[t].epoch = gateEpoch

\* After StopBrowserUse nothing of the stopped lifetime can still run: no permit is left
\* and no consent can still be answered into one.
StopLeavesNothing ==
    conv.stopped => \A t \in Tools :
        /\ ~permits[t].live
        /\ tools[t].life = conv.life => consents[t] \notin {"waiting", "allow", "always"}

\* The queue the user is shown holds exactly the pending consents, so its head can always
\* be answered or ends on its own and never blocks the consents behind it.
ConsentQueueIsExact ==
    /\ ToSet(consentQueue) = {t \in Tools : consents[t] # "none"}
    /\ IsInjective(consentQueue)

\* A permit is redeemed once: no call runs on a permit that is still in the table.
PermitIsSpent ==
    \A t \in Tools : tools[t].at \in {"redeemed", "reinspect", "act"} => ~permits[t].live

\* A permit was decided under the policy whose revision it carries: while the policy blocks
\* the site or the category no permit of that revision is live.
PermitIsUnderPolicy ==
    \A t \in Tools : permits[t].live => gatePolicy.rule # "block" /\ gatePolicy.confirm # "block"
=============================================================================
