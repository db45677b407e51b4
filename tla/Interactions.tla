---------------------------- MODULE Interactions ----------------------------
(***************************************************************************)
(* Pending approvals and questions of the DSH pages, and the native        *)
(* notifications shown for them: dshinteraction.Store, the daemon's        *)
(* interactionNotifier, notifications.Router and presence.Tracker.         *)
(*                                                                         *)
(* A page is the DSH document in a window (surface); reloading it makes a  *)
(* new instance.  The store queues its changes and one goroutine hands     *)
(* them to the notifier, outside the lock.                                 *)
(***************************************************************************)
EXTENDS Naturals, SequencesExt

CONSTANTS
    Surfaces, Instances, Sessions, Keys,
    MaxRemembered,      \* maxRememberedEvents
    MaxReports          \* bound: interaction reports

VARIABLES
    pages,              \* Store.pages: surface -> page or NoPage
    owners,             \* Store.owners: instance -> surface or ""
    changes,            \* Store.changes
    dispatching,        \* Store.dispatching
    handing,            \* what the dispatching goroutine is doing
    focusedOn,          \* presence.Tracker.focused
    allowed,            \* the interaction preference
    seen, seenOrder, seenNext, seenCount,   \* Router
    screen,             \* notifications the system shows
    reports

interactionVars == <<pages, owners, changes, dispatching, handing, focusedOn,
                     allowed, seen, seenOrder, seenNext, seenCount, screen, reports>>
storeVars == <<pages, owners, changes, dispatching>>
routerVars == <<seen, seenOrder, seenNext, seenCount>>

Nobody == "nobody"
NoKey == "none"
NoPage == [instance |-> Nobody, front |-> NoKey,
           pending |-> [s \in Sessions |-> NoKey]]
IDs == Instances \X Keys
Idle == [at |-> "idle", added |-> FALSE, surface |-> Nobody, instance |-> Nobody,
         session |-> Nobody, key |-> NoKey]
Change(added, u, i, s, k) ==
    [at |-> "taken", added |-> added, surface |-> u, instance |-> i, session |-> s, key |-> k]

TypeOK ==
    /\ pages \in [Surfaces -> [instance : Instances \cup {Nobody},
                               front : Sessions \cup {NoKey},
                               pending : [Sessions -> Keys \cup {NoKey}]]]
    /\ owners \in [Instances -> Surfaces \cup {Nobody}]
    /\ \A n \in DOMAIN changes : changes[n].key \in Keys
    /\ dispatching \in BOOLEAN /\ allowed \in BOOLEAN
    /\ handing.at \in {"idle", "taken", "decided"}
    /\ focusedOn \subseteq Surfaces
    /\ seen \subseteq IDs /\ screen \subseteq IDs
    /\ seenNext \in 0..(MaxRemembered - 1) /\ seenCount \in 0..MaxRemembered
    /\ reports \in 0..MaxReports

Init ==
    /\ pages = [u \in Surfaces |-> NoPage] /\ owners = [i \in Instances |-> Nobody]
    /\ changes = <<>> /\ dispatching = FALSE /\ handing = Idle
    /\ focusedOn = {} /\ allowed = TRUE
    /\ seen = {} /\ seenOrder = [n \in 0..(MaxRemembered - 1) |-> <<Nobody, NoKey>>]
    /\ seenNext = 0 /\ seenCount = 0
    /\ screen = {} /\ reports = 0

(***************************************************************************)
(* Store                                                                   *)
(***************************************************************************)
\* removePageLocked queues a removal for every pending session; in what order is not
\* told apart.
Removals(p) ==
    {Change(FALSE, Nobody, p.instance, s, p.pending[s]) : s \in {t \in Sessions : p.pending[t] # NoKey}}

\* The changes are queued and handed over by one goroutine, which is this one
\* when nobody is dispatching yet.
Queue(more) ==
    /\ changes' = changes \o more
    /\ dispatching' = (dispatching \/ changes \o more # <<>>)

\* Report, for the page that instance is: a page of another instance on this
\* surface is removed first; an instance another surface owns is refused.
Report(u, i, change(_), more(_)) ==
    LET old == pages[u]
        stale == old.instance \notin {Nobody, i}
        page == IF old.instance = i THEN old ELSE [NoPage EXCEPT !.instance = i]
    IN /\ reports < MaxReports /\ reports' = reports + 1
       /\ owners[i] \in {u, Nobody}
       /\ pages' = [pages EXCEPT ![u] = change(page)]
       /\ owners' = [j \in Instances |-> IF j = i THEN u
                                         ELSE IF stale /\ j = old.instance THEN Nobody
                                         ELSE owners[j]]
       /\ Queue((IF stale THEN SetToSeq(Removals(old)) ELSE <<>>) \o more(page))
       /\ UNCHANGED <<handing, focusedOn, allowed, routerVars, screen>>

\* front is the conversation in view: page.current while page.visible.
ReportPage(u, i) ==
    \E s \in Sessions \cup {NoKey} :
        Report(u, i, LAMBDA p : [p EXCEPT !.front = s], LAMBDA p : <<>>)

ReportRemoved(u, i, s) ==
    Report(u, i, LAMBDA p : [p EXCEPT !.pending[s] = NoKey],
           LAMBDA p : IF p.pending[s] = NoKey THEN <<>>
                      ELSE <<Change(FALSE, Nobody, i, s, p.pending[s])>>)

\* Mutant: a changed key announces the new interaction only.
ReportAddedOver(u, i, s, k) ==
    Report(u, i, LAMBDA p : [p EXCEPT !.pending[s] = k],
           LAMBDA p : IF p.pending[s] = k THEN <<>> ELSE <<Change(TRUE, u, i, s, k)>>)

ReportAdded(u, i, s, k) ==
    Report(u, i, LAMBDA p : [p EXCEPT !.pending[s] = k],
           LAMBDA p : IF p.pending[s] = k THEN <<>>
                      ELSE (IF p.pending[s] = NoKey THEN <<>>
                            ELSE <<Change(FALSE, Nobody, i, s, p.pending[s])>>)
                           \o <<Change(TRUE, u, i, s, k)>>)

\* Mutant: the page goes, its owner entry stays.
RemovePagesOnly(us) ==
    LET gone == {u \in us : pages[u] # NoPage} IN
    /\ pages' = [u \in Surfaces |-> IF u \in gone THEN NoPage ELSE pages[u]]
    /\ UNCHANGED owners
    /\ Queue(SetToSeq(UNION {Removals(pages[u]) : u \in gone}))

\* Reset, ClearWindow and ClearAll remove the pages of some surfaces.
RemovePages(us) ==
    LET gone == {u \in us : pages[u] # NoPage} IN
    /\ pages' = [u \in Surfaces |-> IF u \in gone THEN NoPage ELSE pages[u]]
    /\ owners' = [i \in Instances |-> IF owners[i] \in gone THEN Nobody ELSE owners[i]]
    /\ Queue(SetToSeq(UNION {Removals(pages[u]) : u \in gone}))

Reset(u, i) ==
    /\ pages[u].instance = i
    /\ RemovePages({u})
    /\ UNCHANGED <<handing, focusedOn, allowed, routerVars, screen, reports>>

\* WindowService.Closed, and the UI process going away.
Closed(us) ==
    /\ \E u \in us : pages[u] # NoPage \/ u \in focusedOn
    /\ RemovePages(us)
    /\ focusedOn' = focusedOn \ us
    /\ UNCHANGED <<handing, allowed, routerVars, screen, reports>>

\* WindowService.SetFocus.
SetFocused(u, focused) ==
    /\ focusedOn' = IF focused THEN focusedOn \cup {u} ELSE focusedOn \ {u}
    /\ UNCHANGED <<storeVars, handing, allowed, routerVars, screen, reports>>

(***************************************************************************)
(* Notifier and router                                                     *)
(***************************************************************************)
Take ==
    /\ dispatching /\ handing.at = "idle"
    /\ IF changes = <<>>
       THEN dispatching' = FALSE /\ UNCHANGED <<changes, handing>>
       ELSE handing' = Head(changes) /\ changes' = Tail(changes) /\ UNCHANGED dispatching
    /\ UNCHANGED <<pages, owners, focusedOn, allowed, routerVars, screen, reports>>

\* removed: the notification is withdrawn.
Removed ==
    /\ handing.at = "taken" /\ ~handing.added
    /\ screen' = screen \ {<<handing.instance, handing.key>>}
    /\ handing' = Idle
    /\ UNCHANGED <<storeVars, focusedOn, allowed, routerVars, reports>>

\* added: nothing is announced for a page that was replaced, for a preference
\* that is off, or for the conversation in front of the user.
Added ==
    /\ handing.at = "taken" /\ handing.added
    /\ LET p == pages[handing.surface]
           watching == handing.surface \in focusedOn /\ p.front = handing.session
       IN handing' = IF p.instance = handing.instance /\ allowed /\ ~watching
                     THEN [handing EXCEPT !.at = "decided"] ELSE Idle
    /\ UNCHANGED <<storeVars, focusedOn, allowed, routerVars, screen, reports>>

\* Mutant: the oldest id stays in the set when its slot is reused.
RememberAll(id) ==
    /\ seen' = seen \cup {id}
    /\ IF seenCount < MaxRemembered
       THEN /\ seenOrder' = [seenOrder EXCEPT ![(seenNext + seenCount) % MaxRemembered] = id]
            /\ seenCount' = seenCount + 1 /\ UNCHANGED seenNext
       ELSE /\ seenOrder' = [seenOrder EXCEPT ![seenNext] = id]
            /\ seenNext' = (seenNext + 1) % MaxRemembered /\ UNCHANGED seenCount

\* rememberEventLocked: a ring of the last ids; the oldest one is forgotten.
Remember(id) ==
    IF seenCount < MaxRemembered
    THEN /\ seenOrder' = [seenOrder EXCEPT ![(seenNext + seenCount) % MaxRemembered] = id]
         /\ seen' = seen \cup {id}
         /\ seenCount' = seenCount + 1 /\ UNCHANGED seenNext
    ELSE /\ seenOrder' = [seenOrder EXCEPT ![seenNext] = id]
         /\ seen' = (seen \ {seenOrder[seenNext]}) \cup {id}
         /\ seenNext' = (seenNext + 1) % MaxRemembered /\ UNCHANGED seenCount

\* Router.Publish: an id is consumed before delivery, whether it is allowed,
\* delivered or fails.
Publish ==
    /\ handing.at = "decided"
    /\ LET id == <<handing.instance, handing.key>> IN
       IF id \in seen
       THEN UNCHANGED <<routerVars, screen>>
       ELSE /\ Remember(id)
            /\ screen' \in IF allowed THEN {screen, screen \cup {id}} ELSE {screen}
    /\ handing' = Idle
    /\ UNCHANGED <<storeVars, focusedOn, allowed, reports>>

\* The user answers or dismisses a notification.
Respond(id) ==
    /\ id \in screen /\ screen' = screen \ {id}
    /\ UNCHANGED <<storeVars, handing, focusedOn, allowed, routerVars, reports>>

SetPreferences ==
    /\ allowed' = ~allowed
    /\ UNCHANGED <<storeVars, handing, focusedOn, routerVars, screen, reports>>

Next ==
    \/ \E u \in Surfaces, i \in Instances :
        \/ ReportPage(u, i) \/ Reset(u, i)
        \/ \E s \in Sessions : ReportRemoved(u, i, s) \/ \E k \in Keys : ReportAdded(u, i, s, k)
    \/ \E u \in Surfaces : Closed({u}) \/ \E f \in BOOLEAN : SetFocused(u, f)
    \/ Closed(Surfaces)
    \/ Take \/ Removed \/ Added \/ Publish
    \/ \E id \in screen : Respond(id)
    \/ SetPreferences

Spec == Init /\ [][Next]_interactionVars

(***************************************************************************)
(* Properties                                                              *)
(***************************************************************************)
\* Once the queued changes are handed over, every notification on screen is for
\* an interaction that is still pending, however reports, reloads, closed
\* windows and preference changes interleave with the dispatcher
\* (store.go:187-233, interaction_notify.go:38-90).
NoStaleNotification ==
    ~dispatching =>
        \A id \in screen : \E u \in Surfaces, s \in Sessions :
            pages[u].instance = id[1] /\ pages[u].pending[s] = id[2]

\* owners and pages are inverse: an instance lives on one surface, and an
\* answer is never sent to a window that has lost the page
\* (store.go:83-119, 174-185).
OwnersMatchPages ==
    \A u \in Surfaces, i \in Instances : owners[i] = u <=> pages[u].instance = i

\* The router remembers exactly the ids in its ring, also after it wrapped
\* (router.go:206-222).
RingIsExact ==
    /\ seen = {seenOrder[(seenNext + n) % MaxRemembered] : n \in 0..(seenCount - 1)}
    /\ Cardinality(seen) = seenCount
============================================================================
