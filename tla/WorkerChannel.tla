---------------------------- MODULE WorkerChannel ----------------------------
(***************************************************************************)
(* The trusted IPC session of a Worker generation                          *)
(* (internal/workerchannel/channel.go).  The Adapter keeps the session the *)
(* workbench talks to; the Host prepares one session per generation,       *)
(* activates it once the Worker answered the readiness probe and closes it *)
(* in the Worker's cleanup.  The generation's context closes it too, from  *)
(* a goroutine of its own (context.AfterFunc).                             *)
(***************************************************************************)
EXTENDS Naturals, FiniteSets

CONSTANTS
    Generation,     \* the Worker generations that prepare a session
    NoSession       \* the adapter's nil session

ASSUME NoSessionAssumption == NoSession \notin Generation

VARIABLES
    current,        \* Adapter.current
    session,        \* the life of each generation's session
    cancelled,      \* generations whose context is done
    closeErr,       \* sessions whose only os.RemoveAll failed (session.err)
    rootLeft        \* sessions whose private directory is still on disk

vars == <<current, session, cancelled, closeErr, rootLeft>>

(***************************************************************************)
(* "absent" before Prepare; "open" until the once-guarded body of Close    *)
(* took the owner's lock (closed := true); "closing" while the pipe and    *)
(* the private directory go; "closed" when the sync.Once has returned.     *)
(***************************************************************************)
Life == {"absent", "open", "closing", "closed"}

TypeOK ==
    /\ current \in Generation \cup {NoSession}
    /\ session \in [Generation -> Life]
    /\ cancelled \in SUBSET Generation
    /\ rootLeft \in SUBSET Generation
    /\ closeErr \in SUBSET Generation
    /\ \A g \in Generation : g \in rootLeft <=>
           session[g] \in {"open", "closing"} \/ g \in closeErr
    /\ \A g \in closeErr : session[g] = "closed"

Init ==
    /\ current = NoSession
    /\ session = [g \in Generation |-> "absent"]
    /\ cancelled = {}
    /\ closeErr = {}
    /\ rootLeft = {}

-----------------------------------------------------------------------------
\* Prepare returns an error for a done context; the failures between the pipe
\* and the patch undo what they made and leave no session.
Prepare(g) ==
    /\ session[g] = "absent"
    /\ g \notin cancelled
    /\ session' = [session EXCEPT ![g] = "open"]
    /\ rootLeft' = rootLeft \cup {g}
    /\ UNCHANGED <<current, cancelled, closeErr>>

\* The generation's context is cancelled: a stop, a quit or the end of the run.
Cancel(g) ==
    /\ g \notin cancelled
    /\ cancelled' = cancelled \cup {g}
    /\ UNCHANGED <<current, session, closeErr, rootLeft>>

\* Plausible bugs, for the mutation runs: Activate without its closed flag.
CanActivateClosed(g) == session[g] # "absent" /\ g \notin cancelled

\* Activate publishes an open session of a live context and is otherwise silent.
CanActivate(g) == session[g] = "open" /\ g \notin cancelled

Activate(g) ==
    /\ CanActivate(g)
    /\ current' = g
    /\ UNCHANGED <<session, cancelled, closeErr, rootLeft>>

\* Close without the comparison with the current session.
RetractAny(g) == NoSession

\* The first half of Close's sync.Once, under the owner's lock: a session only
\* takes itself out of Adapter.current.
Retract(g) == IF current = g THEN NoSession ELSE current

CloseBegin(g) ==
    /\ session[g] = "open"
    /\ session' = [session EXCEPT ![g] = "closing"]
    /\ current' = Retract(g)
    /\ UNCHANGED <<cancelled, closeErr, rootLeft>>

\* A Prepare without its context.AfterFunc.
AfterFuncMissing(g) == FALSE

\* Prepare registers Close with the generation's context (context.AfterFunc).
AfterFunc(g) ==
    /\ g \in cancelled
    /\ CloseBegin(g)

\* A Close that stores its error although the directory is gone.
CloseEndStaleError(g) ==
    /\ session[g] = "closing"
    /\ session' = [session EXCEPT ![g] = "closed"]
    /\ rootLeft' = rootLeft \ {g}
    /\ closeErr' = closeErr \cup {g}
    /\ UNCHANGED <<current, cancelled>>

\* The second half: the pipe, then the private directory.  os.RemoveAll can
\* fail while a process holds a file of it; the error is kept for good.
CloseEnd(g) ==
    /\ session[g] = "closing"
    /\ session' = [session EXCEPT ![g] = "closed"]
    /\ \/ rootLeft' = rootLeft \ {g} /\ UNCHANGED closeErr
       \/ closeErr' = closeErr \cup {g} /\ UNCHANGED rootLeft
    /\ UNCHANGED <<current, cancelled>>

\* A later Close: the Once is spent, so the call only reports session.err.
CloseAgain(g) ==
    /\ session[g] = "closed"
    /\ UNCHANGED vars

Next ==
    \E g \in Generation :
        \/ Prepare(g)
        \/ Cancel(g)
        \/ Activate(g)
        \/ AfterFunc(g)
        \/ CloseBegin(g)
        \/ CloseEnd(g)
        \/ CloseAgain(g)

\* context.AfterFunc starts Close once the context is done, and a Close that
\* began runs to its end.
Fairness ==
    \A g \in Generation :
        /\ WF_vars(AfterFunc(g))
        /\ WF_vars(CloseEnd(g))

Spec == Init /\ [][Next]_vars /\ Fairness

-----------------------------------------------------------------------------
\* The session the adapter hands to the workbench is never a closed one, even
\* when Close and Activate of several generations interleave (Activate, Close).
CurrentIsOpen ==
    current # NoSession => session[current] = "open"

\* The end of one generation never takes away the session of another: only a
\* session's own Close empties Adapter.current (Close).
OnlyOwnCloseRetracts ==
    [][(current # NoSession /\ current' = NoSession)
        => session'[current] # "open"]_vars

\* The session of a cancelled generation leaves Adapter.current by itself,
\* whether or not the Host's cleanup reaches closeChannel (Prepare's AfterFunc).
CancelledLeaves ==
    \A g \in Generation :
        (g \in cancelled /\ current = g) ~> current # g
=============================================================================
