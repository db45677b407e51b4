------------------------------ MODULE DesktopUI ------------------------------
(***************************************************************************)
(* The UI process around its workspace window (desktopapp/client.go):      *)
(* opening, hiding and closing the window, the background notice, launches *)
(* through the URL protocol, the focus reporter and the dispatcher of      *)
(* commands addressed to the window.                                       *)
(***************************************************************************)
EXTENDS Naturals, Sequences

CONSTANTS
    QueueLimit,         \* petCommandQueueLimit
    FocusQueue,         \* focusReportQueueSize
    MaxUICommands, MaxFocusEvents, MaxLaunches      \* bounds

VARIABLES
    appStarted,         \* applicationStarted
    protocolPending,    \* protocolOpenPending
    launch,             \* the URL handler: "idle" or what it read
    wanted,             \* history: a launch asked for the window and has not got it
    launches,
    exists,             \* the workspace window is registered
    visible,            \* WindowLedger.visible
    uiQuitting,         \* applicationShuttingDown and WindowLedger.quitting
    noticeBusy, acknowledged, notice,       \* the background notice
    petReady, queued, emitted, uiCommands,  \* commandDispatcher
    nativeFocus, focusQ, sending, reported, focusClosed, focusEvents

launchVars == <<appStarted, protocolPending, launch, wanted, launches>>
windowVars == <<exists, visible, uiQuitting>>
noticeVars == <<noticeBusy, acknowledged, notice>>
commandVars == <<petReady, queued, emitted, uiCommands>>
focusVars == <<nativeFocus, focusQ, sending, reported, focusClosed, focusEvents>>
uiVars == <<appStarted, protocolPending, launch, wanted, launches, exists, visible, uiQuitting,
            noticeBusy, acknowledged, notice, petReady, queued, emitted, uiCommands,
            nativeFocus, focusQ, sending, reported, focusClosed, focusEvents>>

Focus == {"none", "focused", "lost"}

TypeOK ==
    /\ {appStarted, protocolPending, wanted, exists, visible, uiQuitting} \subseteq BOOLEAN
    /\ {noticeBusy, acknowledged, petReady, nativeFocus, reported, focusClosed} \subseteq BOOLEAN
    /\ launch \in {"idle", "open"} /\ launches \in 0..MaxLaunches
    /\ notice \in {"none", "shown", "acknowledging", "hide"}
    /\ uiCommands \in 0..MaxUICommands /\ emitted \in 0..MaxUICommands
    /\ \A n \in DOMAIN queued : queued[n] \in 1..MaxUICommands
    /\ focusQ \in Seq(BOOLEAN) /\ sending \in Focus
    /\ focusEvents \in 0..MaxFocusEvents

Init ==
    /\ appStarted = FALSE /\ protocolPending = FALSE /\ launch = "idle"
    /\ wanted = FALSE /\ launches = 0
    /\ exists = FALSE /\ visible = FALSE /\ uiQuitting = FALSE
    /\ noticeBusy = FALSE /\ acknowledged = FALSE /\ notice = "none"
    /\ petReady = FALSE /\ queued = <<>> /\ emitted = 0 /\ uiCommands = 0
    /\ nativeFocus = FALSE /\ focusQ = <<>> /\ sending = "none" /\ reported = FALSE
    /\ focusClosed = FALSE /\ focusEvents = 0

\* focusReporter.enqueue blocks its caller while the queue is full and drops
\* reports once the reporter is closed.
Enqueue(focused) ==
    /\ focusEvents < MaxFocusEvents /\ focusEvents' = focusEvents + 1
    /\ IF focusClosed THEN UNCHANGED focusQ
       ELSE Len(focusQ) < FocusQueue /\ focusQ' = Append(focusQ, focused)
    /\ nativeFocus' = IF focusClosed THEN nativeFocus ELSE focused
    /\ UNCHANGED <<sending, reported, focusClosed>>

(***************************************************************************)
(* Opening and launching                                                   *)
(***************************************************************************)
\* open: under windowMu, refused while the process ends; the window is created
\* when there is none, shown and focused.
Open ==
    IF uiQuitting
    THEN UNCHANGED <<wanted, exists, visible>> /\ UNCHANGED focusVars
    ELSE /\ exists' = TRUE /\ visible' = TRUE /\ wanted' = FALSE
         /\ Enqueue(TRUE)

\* The native application reports that it was launched with the URL: before
\* ApplicationStarted the request is remembered, afterwards it is served.
LaunchedWithURL ==
    /\ launch = "idle" /\ launches < MaxLaunches /\ ~uiQuitting
    /\ launches' = launches + 1 /\ wanted' = TRUE
    /\ IF appStarted
       THEN launch' = "open" /\ UNCHANGED protocolPending
       ELSE protocolPending' = TRUE /\ UNCHANGED launch
    /\ UNCHANGED appStarted
    /\ UNCHANGED windowVars /\ UNCHANGED noticeVars /\ UNCHANGED commandVars
    /\ UNCHANGED focusVars

ServeLaunch ==
    /\ launch = "open" /\ launch' = "idle"
    /\ Open
    /\ UNCHANGED <<appStarted, protocolPending, launches, uiQuitting>>
    /\ UNCHANGED noticeVars /\ UNCHANGED commandVars

\* Mutant: a request remembered before the start is not opened.
ApplicationStartedForgets ==
    /\ ~appStarted /\ appStarted' = TRUE
    /\ protocolPending' = FALSE
    /\ exists' = TRUE
    /\ UNCHANGED <<launch, wanted, launches, visible, uiQuitting>>
    /\ UNCHANGED noticeVars /\ UNCHANGED commandVars /\ UNCHANGED focusVars

\* The window is created hidden; a section or a remembered launch opens it, a
\* boot launch does not.
ApplicationStarted ==
    /\ ~appStarted /\ appStarted' = TRUE
    /\ protocolPending' = FALSE
    /\ \/ Open
       \/ /\ ~protocolPending /\ exists' = TRUE
          /\ UNCHANGED <<wanted, visible>> /\ UNCHANGED focusVars
    /\ UNCHANGED <<launch, launches, uiQuitting>>
    /\ UNCHANGED noticeVars /\ UNCHANGED commandVars

\* The daemon asks for the window (uiHandler).
OpenRequested ==
    /\ appStarted /\ ~visible
    /\ Open
    /\ UNCHANGED <<appStarted, protocolPending, launch, launches, uiQuitting>>
    /\ UNCHANGED noticeVars /\ UNCHANGED commandVars

(***************************************************************************)
(* Closing                                                                 *)
(***************************************************************************)
Hide ==
    IF uiQuitting \/ ~exists
    THEN UNCHANGED visible /\ UNCHANGED focusVars
    ELSE visible' = FALSE /\ Enqueue(FALSE)

\* closeWindow while the process lives: the first close explains that DSH Work
\* keeps running, one notice at a time; afterwards the window is hidden.
CloseWindow ==
    /\ exists /\ visible /\ ~uiQuitting
    /\ IF acknowledged
       THEN Hide /\ UNCHANGED noticeVars
       ELSE /\ ~noticeBusy /\ noticeBusy' = TRUE /\ notice' = "shown"
            /\ UNCHANGED <<acknowledged, visible>> /\ UNCHANGED focusVars
    /\ UNCHANGED <<exists, uiQuitting>>
    /\ UNCHANGED launchVars /\ UNCHANGED commandVars

\* Mutant: a failed acknowledgement returns before the notice is released.
AcknowledgeStuck ==
    /\ notice = "shown"
    /\ \E ok \in BOOLEAN :
        /\ acknowledged' = (acknowledged \/ ok)
        /\ notice' = IF ok THEN "hide" ELSE "none"
    /\ UNCHANGED noticeBusy
    /\ UNCHANGED launchVars /\ UNCHANGED windowVars /\ UNCHANGED commandVars
    /\ UNCHANGED focusVars

\* The dialog completes once, by its button or by being dismissed; the
\* daemon saves the acknowledgement or fails to.
Acknowledge ==
    /\ notice = "shown"
    /\ \E ok \in BOOLEAN : acknowledged' = (acknowledged \/ ok)
    /\ notice' = "hide"
    /\ UNCHANGED noticeBusy
    /\ UNCHANGED launchVars /\ UNCHANGED windowVars /\ UNCHANGED commandVars
    /\ UNCHANGED focusVars

NoticeHides ==
    /\ notice = "hide" /\ notice' = "none" /\ noticeBusy' = FALSE
    /\ Hide
    /\ UNCHANGED <<acknowledged, exists, uiQuitting>>
    /\ UNCHANGED launchVars /\ UNCHANGED commandVars

\* OnShutdown, and the windows closing after it.
Shutdown ==
    /\ ~uiQuitting /\ uiQuitting' = TRUE /\ visible' = FALSE
    /\ focusClosed' = TRUE
    /\ UNCHANGED <<nativeFocus, focusQ, sending, reported, focusEvents, exists>>
    /\ UNCHANGED launchVars /\ UNCHANGED noticeVars /\ UNCHANGED commandVars

\* Mutant: the window goes, its queued commands stay.
RemoveWindowOnly ==
    /\ uiQuitting /\ exists /\ exists' = FALSE
    /\ petReady' = FALSE
    /\ UNCHANGED <<visible, uiQuitting, queued, emitted, uiCommands>>
    /\ UNCHANGED launchVars /\ UNCHANGED noticeVars /\ UNCHANGED focusVars

RemoveWindow ==
    /\ uiQuitting /\ exists /\ exists' = FALSE
    /\ petReady' = FALSE /\ queued' = <<>>
    /\ UNCHANGED <<visible, uiQuitting, emitted, uiCommands>>
    /\ UNCHANGED launchVars /\ UNCHANGED noticeVars /\ UNCHANGED focusVars

(***************************************************************************)
(* Commands and focus                                                      *)
(***************************************************************************)
\* dispatch to the window: emitted when its page is ready, otherwise queued
\* with the oldest one dropped at the limit; a gone window drops it.
Dispatch ==
    /\ uiCommands < MaxUICommands /\ uiCommands' = uiCommands + 1
    /\ IF ~exists THEN UNCHANGED <<queued, emitted>>
       ELSE IF petReady THEN emitted' = uiCommands + 1 /\ UNCHANGED queued
       ELSE /\ queued' = Append(IF Len(queued) = QueueLimit THEN Tail(queued) ELSE queued,
                                uiCommands + 1)
            /\ UNCHANGED emitted
    /\ UNCHANGED petReady
    /\ UNCHANGED launchVars /\ UNCHANGED windowVars /\ UNCHANGED noticeVars
    /\ UNCHANGED focusVars

\* A queued command expires; it is pruned when the queue is next used.
Expire ==
    /\ queued # <<>> /\ queued' = Tail(queued)
    /\ UNCHANGED <<petReady, emitted, uiCommands>>
    /\ UNCHANGED launchVars /\ UNCHANGED windowVars /\ UNCHANGED noticeVars
    /\ UNCHANGED focusVars

\* setPetReady emits what was queued, oldest first.
SetPetReady ==
    /\ exists
    /\ petReady' = ~petReady
    /\ IF ~petReady /\ queued # <<>>
       THEN emitted' = queued[Len(queued)] /\ queued' = <<>>
       ELSE UNCHANGED <<queued, emitted>>
    /\ UNCHANGED uiCommands
    /\ UNCHANGED launchVars /\ UNCHANGED windowVars /\ UNCHANGED noticeVars
    /\ UNCHANGED focusVars

FocusEvent ==
    /\ exists /\ visible
    /\ Enqueue(~nativeFocus)
    /\ UNCHANGED launchVars /\ UNCHANGED windowVars /\ UNCHANGED noticeVars
    /\ UNCHANGED commandVars

\* Mutant: every report is sent by its own goroutine.
SendBeginsAny ==
    /\ sending = "none" /\ focusQ # <<>>
    /\ \E n \in DOMAIN focusQ :
        /\ sending' = IF focusQ[n] THEN "focused" ELSE "lost"
        /\ focusQ' = SubSeq(focusQ, 1, n - 1) \o SubSeq(focusQ, n + 1, Len(focusQ))
    /\ UNCHANGED <<nativeFocus, reported, focusClosed, focusEvents>>
    /\ UNCHANGED launchVars /\ UNCHANGED windowVars /\ UNCHANGED noticeVars
    /\ UNCHANGED commandVars

\* The reporter's goroutine sends one report at a time; a failed call is only
\* logged, so reported is what was sent.
SendBegins ==
    /\ sending = "none" /\ focusQ # <<>>
    /\ sending' = IF Head(focusQ) THEN "focused" ELSE "lost"
    /\ focusQ' = Tail(focusQ)
    /\ UNCHANGED <<nativeFocus, reported, focusClosed, focusEvents>>
    /\ UNCHANGED launchVars /\ UNCHANGED windowVars /\ UNCHANGED noticeVars
    /\ UNCHANGED commandVars

SendEnds ==
    /\ sending # "none" /\ sending' = "none"
    /\ reported' = (sending = "focused")
    /\ UNCHANGED <<nativeFocus, focusQ, focusClosed, focusEvents>>
    /\ UNCHANGED launchVars /\ UNCHANGED windowVars /\ UNCHANGED noticeVars
    /\ UNCHANGED commandVars

Next ==
    \/ LaunchedWithURL \/ ServeLaunch \/ ApplicationStarted \/ OpenRequested
    \/ CloseWindow \/ Acknowledge \/ NoticeHides \/ Shutdown \/ RemoveWindow
    \/ Dispatch \/ Expire \/ SetPetReady
    \/ FocusEvent \/ SendBegins \/ SendEnds

Spec == Init /\ [][Next]_uiVars

(***************************************************************************)
(* Properties                                                              *)
(***************************************************************************)
\* A launch through the URL is never lost: it waits for the start, is being
\* served, has been opened, or the process is ending (client.go:385-438).
LaunchIsServed == wanted => protocolPending \/ launch = "open" \/ uiQuitting

\* The background notice is never left taken: while it is, its dialog or the
\* hiding that follows is under way (client.go:266-291).
NoticeIsReleased == noticeBusy <=> notice # "none"

\* Commands wait only for a window that exists and whose page is not ready, in
\* order and within the limit; none is emitted after a later one
\* (command_dispatch.go:59-122).
CommandsWaitInOrder ==
    /\ Len(queued) <= QueueLimit
    /\ queued # <<>> => exists /\ ~petReady
    /\ \A m, n \in DOMAIN queued : m < n => queued[m] < queued[n]
    /\ \A n \in DOMAIN queued : queued[n] > emitted

\* Focus reports are sent in the order of the native events: with none queued or
\* under way the last one sent is the window's focus (focus_reports.go:23-66).
FocusIsKnown == focusQ = <<>> /\ sending = "none" => reported = nativeFocus
============================================================================
