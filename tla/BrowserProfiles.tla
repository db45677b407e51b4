--------------------------- MODULE BrowserProfiles ---------------------------
(***************************************************************************)
(* The linked browser profiles of internal/automation/browser_profiles.go  *)
(* and browser_launch.go: native connections, the quarantine of a          *)
(* duplicated identity, binding requests, the selected binding, the lease  *)
(* a route takes on it and the launch of the selected profile.  Every      *)
(* operation holds the Service's op lock from its checks to its last       *)
(* assignment, the save in between included, so each is one step.          *)
(***************************************************************************)
EXTENDS Naturals, FiniteSets

CONSTANTS
    Conns,      \* ids of native connections, each used once
    Profiles,   \* stable extension instances: what identifies a profile
    Bindings,   \* ids of bindings, each used once
    Routes,     \* users of the browser that hold a lease
    MaxBrowserEpoch \* bound: revocations of the browser slot

VARIABLES
    connections,  \* connection id -> the profile it speaks for, or "none"
    usedConns,    \* ids already handed out
    conflicts,    \* profiles under quarantine
    requests,     \* connection id -> its binding request: "none", "live" or "expired"
    bindings,     \* binding id -> the profile bound, "none" or "forgotten"
    selectedProfile, \* the selected binding, or "none"
    browserEpoch, \* the browser slot's epoch
    lease,        \* route -> its BrowserLease, held = FALSE when it has none
    broken,       \* route -> the route its lease names was lost since it was taken
    duplicated,   \* profiles that had two connections since they last had none
    opening       \* the profile launch: its binding and whether it was cancelled

profileVars == <<connections, usedConns, conflicts, requests, bindings, selectedProfile,
                 browserEpoch, lease, broken, duplicated, opening>>

NoLease == [held |-> FALSE, binding |-> "none", conn |-> "none", epoch |-> 0]
NoOpening == [binding |-> "none", cancelled |-> FALSE]

Speaking(p) == {c \in Conns : connections[c] = p}

\* selectedConnectionLocked: the connection of the selected binding, or why there is none.
Route == IF selectedProfile = "none" THEN "offline"
         ELSE LET p == bindings[selectedProfile]
              IN IF p \in conflicts THEN "conflict"
                 ELSE IF Speaking(p) = {} THEN "offline"
                 ELSE CHOOSE c \in Speaking(p) : TRUE

Live(r) == r \notin {"offline", "conflict"}

ProfilesInit ==
    /\ connections = [c \in Conns |-> "none"]
    /\ usedConns = {}
    /\ conflicts = {}
    /\ requests = [c \in Conns |-> "none"]
    /\ bindings = [b \in Bindings |-> "none"]
    /\ selectedProfile = "none"
    /\ browserEpoch = 1
    /\ lease = [r \in Routes |-> NoLease]
    /\ broken = [r \in Routes |-> FALSE]
    /\ duplicated = {}
    /\ opening = NoOpening

\* What the ghost variable broken records of a step that may move the route.
Watch == broken' = [r \in Routes |-> broken[r] \/ (lease[r].held /\ Route' # lease[r].conn)]

\* profileChangeLocked: the epoch moves when the route does.
ProfileChange == browserEpoch' = IF Route' = Route THEN browserEpoch ELSE browserEpoch + 1

\* connectBrowser: a second connection of an identity puts it under quarantine and
\* withdraws the binding requests its connections made.
BrowserConnected(c, p) ==
    LET twin == Speaking(p) # {}
        bad  == conflicts \cup (IF twin THEN {p} ELSE {})
    IN /\ c \notin usedConns /\ browserEpoch < MaxBrowserEpoch
       /\ connections' = [connections EXCEPT ![c] = p]
       /\ usedConns' = usedConns \cup {c}
       /\ conflicts' = bad
       /\ requests' = [x \in Conns |-> IF p \in bad /\ connections'[x] = p THEN "none" ELSE requests[x]]
       /\ duplicated' = duplicated \cup (IF twin THEN {p} ELSE {})
       /\ UNCHANGED <<bindings, selectedProfile, lease, opening>>
       /\ ProfileChange /\ Watch

BrowserDisconnectedForgives(c) ==
    LET p == connections[c]
    IN /\ p # "none" /\ browserEpoch < MaxBrowserEpoch
       /\ connections' = [connections EXCEPT ![c] = "none"]
       /\ requests' = [requests EXCEPT ![c] = "none"]
       /\ conflicts' = conflicts \ {p}
       /\ duplicated' = IF Speaking(p) = {c} THEN duplicated \ {p} ELSE duplicated
       /\ UNCHANGED <<usedConns, bindings, selectedProfile, lease, opening>>
       /\ ProfileChange /\ Watch

\* BrowserDisconnected: the quarantine ends with the identity's last connection.
BrowserDisconnected(c) ==
    LET p == connections[c]
        last == Speaking(p) = {c}
    IN /\ p # "none" /\ browserEpoch < MaxBrowserEpoch
       /\ connections' = [connections EXCEPT ![c] = "none"]
       /\ requests' = [requests EXCEPT ![c] = "none"]
       /\ conflicts' = IF last THEN conflicts \ {p} ELSE conflicts
       /\ duplicated' = IF last THEN duplicated \ {p} ELSE duplicated
       /\ UNCHANGED <<usedConns, bindings, selectedProfile, lease, opening>>
       /\ ProfileChange /\ Watch

Bound(p) == \E b \in Bindings : bindings[b] = p

\* RequestBrowserBinding: replaces the connection's request and prunes expired ones.
RequestBrowserBinding(c) ==
    /\ connections[c] # "none"
    /\ connections[c] \notin conflicts
    /\ ~Bound(connections[c])
    /\ requests' = [x \in Conns |-> IF x = c THEN "live"
                                    ELSE IF requests[x] = "expired" THEN "none" ELSE requests[x]]
    /\ UNCHANGED <<connections, usedConns, conflicts, bindings, selectedProfile, browserEpoch,
                   lease, broken, duplicated, opening>>

\* CancelBrowserBinding, or the two minutes a request lasts have passed.
RequestEnds(c) ==
    /\ requests[c] # "none"
    /\ \E r \in {"none", "expired"} : requests' = [requests EXCEPT ![c] = r]
    /\ UNCHANGED <<connections, usedConns, conflicts, bindings, selectedProfile, browserEpoch,
                   lease, broken, duplicated, opening>>

\* ConfirmBrowserBinding: a fresh binding for the live connection that asked; a failed
\* save leaves the request.
ConfirmBrowserBinding(c, b) ==
    /\ requests[c] # "none"
    /\ IF requests[c] = "expired" \/ connections[c] = "none"
       THEN requests' = [requests EXCEPT ![c] = "none"] /\ UNCHANGED bindings
       ELSE /\ connections[c] \notin conflicts
            /\ ~Bound(connections[c])
            /\ bindings[b] = "none"
            /\ bindings' = [bindings EXCEPT ![b] = connections[c]]
            /\ requests' = [requests EXCEPT ![c] = "none"]
    /\ UNCHANGED <<connections, usedConns, conflicts, selectedProfile, browserEpoch, lease,
                   broken, duplicated, opening>>

\* cancelBrowserOpeningLocked
CancelOpening == opening' = IF opening.binding # "none" THEN [opening EXCEPT !.cancelled = TRUE]
                            ELSE opening

SelectBrowserBindingQuietly(b) ==
    /\ IF b = "none" THEN TRUE ELSE bindings[b] \in Profiles
    /\ selectedProfile # b
    /\ selectedProfile' = b
    /\ CancelOpening
    /\ UNCHANGED <<connections, usedConns, conflicts, requests, bindings, browserEpoch, lease, duplicated>>
    /\ Watch

\* SelectBrowserBinding: the selection is a policy boundary, so the epoch moves even
\* when both selections are offline.
SelectBrowserBinding(b) ==
    /\ browserEpoch < MaxBrowserEpoch
    /\ IF b = "none" THEN TRUE ELSE bindings[b] \in Profiles
    /\ selectedProfile # b
    /\ selectedProfile' = b
    /\ browserEpoch' = browserEpoch + 1
    /\ CancelOpening
    /\ UNCHANGED <<connections, usedConns, conflicts, requests, bindings, lease, duplicated>>
    /\ Watch

ForgetBrowserBindingOnly(b) ==
    /\ bindings[b] \in Profiles /\ browserEpoch < MaxBrowserEpoch
    /\ bindings' = [bindings EXCEPT ![b] = "forgotten"]
    /\ UNCHANGED <<connections, usedConns, conflicts, requests, selectedProfile, browserEpoch,
                   lease, duplicated, opening>>
    /\ Watch

\* ForgetBrowserBinding
ForgetBrowserBinding(b) ==
    /\ bindings[b] \in Profiles /\ browserEpoch < MaxBrowserEpoch
    /\ bindings' = [bindings EXCEPT ![b] = "forgotten"]
    /\ IF selectedProfile = b
       THEN /\ selectedProfile' = "none"
            /\ browserEpoch' = browserEpoch + 1
            /\ CancelOpening
       ELSE UNCHANGED <<selectedProfile, browserEpoch, opening>>
    /\ UNCHANGED <<connections, usedConns, conflicts, requests, lease, duplicated>>
    /\ Watch

\* SelectedBrowserConnection: a route takes its lease.
TakeLease(r) ==
    /\ Live(Route)
    /\ lease' = [lease EXCEPT ![r] = [held |-> TRUE, binding |-> selectedProfile,
                                      conn |-> Route, epoch |-> browserEpoch]]
    /\ broken' = [broken EXCEPT ![r] = FALSE]
    /\ UNCHANGED <<connections, usedConns, conflicts, requests, bindings, selectedProfile,
                   browserEpoch, duplicated, opening>>

\* ValidateBrowserLease
Validates(r) == /\ lease[r].held
                /\ Live(Route)
                /\ lease[r] = [held |-> TRUE, binding |-> selectedProfile, conn |-> Route,
                               epoch |-> browserEpoch]

\* OpenBrowserProfile: launches the selected, offline profile unless a launch is under way.
OpenBrowserProfile ==
    /\ selectedProfile # "none" /\ Route = "offline"
    /\ opening.binding = "none"
    /\ opening' = [binding |-> selectedProfile, cancelled |-> FALSE]
    /\ UNCHANGED <<connections, usedConns, conflicts, requests, bindings, selectedProfile,
                   browserEpoch, lease, broken, duplicated>>

\* The wait ends, the profile connected or not (cancelled, out of time, selection moved).
OpenReturns ==
    /\ opening.binding # "none"
    /\ opening' = NoOpening
    /\ UNCHANGED <<connections, usedConns, conflicts, requests, bindings, selectedProfile,
                   browserEpoch, lease, broken, duplicated>>

ProfilesNext ==
    \/ \E c \in Conns, p \in Profiles : BrowserConnected(c, p)
    \/ \E c \in Conns : BrowserDisconnected(c) \/ RequestBrowserBinding(c) \/ RequestEnds(c)
    \/ \E c \in Conns, b \in Bindings : ConfirmBrowserBinding(c, b)
    \/ \E b \in Bindings \cup {"none"} : SelectBrowserBinding(b)
    \/ \E b \in Bindings : ForgetBrowserBinding(b)
    \/ \E r \in Routes : TakeLease(r)
    \/ OpenBrowserProfile \/ OpenReturns

ProfilesSpec == ProfilesInit /\ [][ProfilesNext]_profileVars

-----------------------------------------------------------------------------
\* Types: a connection speaks for a known profile, the selection is a bound one
\* (ForgetBrowserBinding clears a selection it removes) and a profile under quarantine
\* has a connection and no binding request.
ProfilesTypeOK ==
    /\ connections \in [Conns -> Profiles \cup {"none"}]
    /\ bindings \in [Bindings -> Profiles \cup {"none", "forgotten"}]
    /\ selectedProfile # "none" => bindings[selectedProfile] \in Profiles
    /\ \A p \in conflicts : /\ Speaking(p) # {}
                            /\ \A c \in Speaking(p) : requests[c] = "none"

\* ValidateBrowserLease accepts a lease only when the selected profile has been
\* reachable over the same connection ever since the lease was taken: a selection that
\* went away and came back does not revive it.
LeaseIsUnbroken == \A r \in Routes : Validates(r) => ~broken[r]

\* "dropping one duplicate cannot silently restore an old route": once an identity was
\* seen twice, no route leads to it until all its connections are gone.
QuarantineHolds ==
    selectedProfile # "none" /\ bindings[selectedProfile] \in duplicated => ~Live(Route)
=============================================================================
