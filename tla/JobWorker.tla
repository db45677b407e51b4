------------------------------ MODULE JobWorker ------------------------------
(***************************************************************************)
(* The process boundary on Windows: a process tree inside a job object.    *)
(* startJobCommand creates the root suspended, assigns it to a job that    *)
(* kills its processes when its last handle closes, and only then resumes  *)
(* it.  Afterwards three goroutines (waitForExit and one reader for each   *)
(* output stream), the owner that stops and closes the boundary, and       *)
(* Diagnostics calls share the native handles.                             *)
(*                                                                         *)
(* The owner is the Host stopping a Worker or the command executor, which  *)
(* runs a short command; each calls the same operations in its own order.  *)
(* Windows is external: TerminateJobObject is asynchronous, so a process   *)
(* is dying before it is dead; a call of the code may fail where the code  *)
(* handles it.  Timeouts elapse at any time.                               *)
(***************************************************************************)
EXTENDS Naturals, FiniteSets

CONSTANTS
    Procs,              \* the processes the tree may have; Root is the first
    Root,
    MaxOutput,          \* bound: capacity of the events channel
    MaxHostStops        \* bound: attempts of the Host to stop the Worker

VARIABLES
    jobProc,            \* per process: none, suspended, running, dying or dead
    inJob,              \* the processes assigned to the job object
    jobHandle, processHandle, pipesClosed,
    exitWait,           \* waitForExit: waiting, woken, exited closed, waitDone closed
    outReaders,         \* the reader of each output stream
    eventsClosed, outQueued,
    closeMu,            \* who holds closeMu
    boundaryClosed,     \* closed
    boundaryOwner,      \* what the owner does
    ownerKind,          \* host or command
    verified,           \* WaitEmpty has returned nil
    asker,              \* a concurrent Diagnostics call
    hostAlive, startCtx, hostStops

jobVars == <<jobProc, inJob, jobHandle, processHandle, pipesClosed, exitWait, outReaders,
             eventsClosed, outQueued, closeMu, boundaryClosed, boundaryOwner, ownerKind, verified,
             asker, hostAlive, startCtx, hostStops>>
nativeVars == <<jobProc, inJob, jobHandle, processHandle>>
threadVars == <<exitWait, outReaders, eventsClosed, outQueued>>
ownVars == <<closeMu, boundaryClosed, boundaryOwner, ownerKind, verified, hostStops>>
worldVars == <<pipesClosed, asker, hostAlive, startCtx>>

Streams == {"stdout", "stderr"}
HandleStates == {"none", "open", "closed"}
Live == {p \in Procs : jobProc[p] \in {"suspended", "running", "dying"}}
Active == Live \cap inJob
ExitedClosed == exitWait \in {"exited", "done"}

JobWorkerTypeOK ==
    /\ jobProc \in [Procs -> {"none", "suspended", "running", "dying", "dead"}]
    /\ inJob \subseteq Procs
    /\ jobHandle \in HandleStates /\ processHandle \in HandleStates
    /\ exitWait \in {"none", "waiting", "woken", "exited", "done"}
    /\ outReaders \in [Streams -> {"none", "reading", "done"}]
    /\ outQueued \in 0..MaxOutput
    /\ closeMu \in {"free", "owner", "asker"}
    /\ boundaryOwner \in {"idle", "prepared", "created", "assigned", "live", "graceful",
                          "kill", "empty", "polling", "output", "closing", "process", "drain",
                          "join", "stopped", "failed"}
    /\ ownerKind \in {"none", "host", "command"}
    /\ pipesClosed \in BOOLEAN /\ eventsClosed \in BOOLEAN /\ boundaryClosed \in BOOLEAN
    /\ verified \in BOOLEAN /\ hostAlive \in BOOLEAN /\ startCtx \in BOOLEAN
    /\ asker \in {"idle", "query"}
    /\ hostStops \in 0..MaxHostStops

JobInit ==
    /\ jobProc = [p \in Procs |-> "none"] /\ inJob = {}
    /\ jobHandle = "none" /\ processHandle = "none" /\ pipesClosed = FALSE
    /\ exitWait = "none" /\ outReaders = [s \in Streams |-> "none"]
    /\ eventsClosed = FALSE /\ outQueued = 0
    /\ closeMu = "free" /\ boundaryClosed = FALSE
    /\ boundaryOwner = "idle" /\ ownerKind = "none" /\ verified = FALSE
    /\ asker = "idle" /\ hostAlive = TRUE /\ startCtx = TRUE /\ hostStops = 0

\* TerminateJobObject, and the kill when the last job handle closes.
TerminateJob == jobProc' = [p \in Procs |-> IF p \in Active THEN "dying" ELSE jobProc[p]]

----------------------------------------------------------------------------
(* startJobCommand. *)

\* The deferred calls of a start that fails: the job handle closes, which
\* kills what was assigned; the process handle closes if there is one.
StartFails(terminated) ==
    /\ jobProc' = [p \in Procs |-> IF p \in Active \cup terminated THEN "dying" ELSE jobProc[p]]
    /\ jobHandle' = "closed"
    /\ processHandle' = IF processHandle = "open" THEN "closed" ELSE processHandle
    /\ boundaryOwner' = "failed"
    /\ UNCHANGED <<inJob, closeMu, boundaryClosed, ownerKind, verified, hostStops>>
    /\ UNCHANGED threadVars /\ UNCHANGED worldVars

\* The plan or the batch invocation is refused, the context has ended, or the
\* job object cannot be created: nothing exists yet.
StartRefused ==
    /\ hostAlive /\ boundaryOwner = "idle"
    /\ boundaryOwner' = "failed"
    /\ UNCHANGED <<closeMu, boundaryClosed, ownerKind, verified, hostStops>>
    /\ UNCHANGED nativeVars /\ UNCHANGED threadVars /\ UNCHANGED worldVars

StartJob(kind) ==
    /\ hostAlive /\ boundaryOwner = "idle" /\ startCtx
    /\ boundaryOwner' = "prepared" /\ ownerKind' = kind
    /\ jobHandle' = "open"
    /\ UNCHANGED <<jobProc, inJob, processHandle, closeMu, boundaryClosed, verified, hostStops>>
    /\ UNCHANGED threadVars /\ UNCHANGED worldVars

\* Job limits, pipes, the command line, the environment block or the process
\* itself fails; or the context ended.
PrepareFails ==
    /\ hostAlive /\ boundaryOwner = "prepared"
    /\ StartFails({})

\* Mutant: the root is created running.
CreateRunning ==
    /\ hostAlive /\ boundaryOwner = "prepared" /\ startCtx
    /\ jobProc' = [jobProc EXCEPT ![Root] = "running"]
    /\ processHandle' = "open"
    /\ boundaryOwner' = "created"
    /\ UNCHANGED <<inJob, jobHandle, closeMu, boundaryClosed, ownerKind, verified, hostStops>>
    /\ UNCHANGED threadVars /\ UNCHANGED worldVars

CreateProcess ==
    /\ hostAlive /\ boundaryOwner = "prepared" /\ startCtx
    /\ jobProc' = [jobProc EXCEPT ![Root] = "suspended"]
    /\ processHandle' = "open"
    /\ boundaryOwner' = "created"
    /\ UNCHANGED <<inJob, jobHandle, closeMu, boundaryClosed, ownerKind, verified, hostStops>>
    /\ UNCHANGED threadVars /\ UNCHANGED worldVars

AssignFails ==
    /\ hostAlive /\ boundaryOwner = "created"
    /\ StartFails({Root})

AssignProcessToJobObject ==
    /\ hostAlive /\ boundaryOwner = "created"
    /\ inJob' = inJob \cup {Root}
    /\ boundaryOwner' = "assigned"
    /\ UNCHANGED <<jobProc, jobHandle, processHandle, closeMu, boundaryClosed, ownerKind, verified, hostStops>>
    /\ UNCHANGED threadVars /\ UNCHANGED worldVars

\* The context ended, or ResumeThread failed.
ResumeFails ==
    /\ hostAlive /\ boundaryOwner = "assigned"
    /\ StartFails(Active)

\* The root runs, and newJobWorker starts the goroutines.
ResumeThread ==
    /\ hostAlive /\ boundaryOwner = "assigned" /\ startCtx
    /\ jobProc' = [jobProc EXCEPT ![Root] = "running"]
    /\ exitWait' = "waiting"
    /\ outReaders' = [s \in Streams |-> "reading"]
    /\ boundaryOwner' = "live"
    /\ UNCHANGED <<inJob, jobHandle, processHandle, eventsClosed, outQueued>>
    /\ UNCHANGED <<closeMu, boundaryClosed, ownerKind, verified, hostStops>>
    /\ UNCHANGED worldVars

----------------------------------------------------------------------------
(* The goroutines of a jobWorker. *)

\* The wait returns: the handle must still be the process's.
WaitWakes ==
    /\ hostAlive /\ exitWait = "waiting" /\ jobProc[Root] = "dead"
    /\ exitWait' = "woken"
    /\ UNCHANGED <<outReaders, eventsClosed, outQueued>>
    /\ UNCHANGED nativeVars /\ UNCHANGED ownVars /\ UNCHANGED worldVars

\* The exit code is read and stored, and exited closes.
WaitForExit ==
    /\ hostAlive /\ exitWait = "woken"
    /\ exitWait' = "exited"
    /\ UNCHANGED <<outReaders, eventsClosed, outQueued>>
    /\ UNCHANGED nativeVars /\ UNCHANGED ownVars /\ UNCHANGED worldVars

WaitReturns ==
    /\ hostAlive /\ exitWait = "exited"
    /\ exitWait' = "done"
    /\ UNCHANGED <<outReaders, eventsClosed, outQueued>>
    /\ UNCHANGED nativeVars /\ UNCHANGED ownVars /\ UNCHANGED worldVars

\* Mutant: the reader sends without room in the channel.
ReadLineUnbounded(s) ==
    /\ hostAlive /\ outReaders[s] = "reading" /\ \E p \in Procs : jobProc[p] = "running"
    /\ outQueued' = outQueued + 1
    /\ UNCHANGED <<exitWait, outReaders, eventsClosed>>
    /\ UNCHANGED nativeVars /\ UNCHANGED ownVars /\ UNCHANGED worldVars

\* A line is redacted, kept in the tail and offered to the events channel; a
\* full channel drops it.
ReadLine(s) ==
    /\ hostAlive /\ outReaders[s] = "reading" /\ \E p \in Procs : jobProc[p] = "running"
    /\ outQueued' = IF outQueued < MaxOutput THEN outQueued + 1 ELSE outQueued
    /\ UNCHANGED <<exitWait, outReaders, eventsClosed>>
    /\ UNCHANGED nativeVars /\ UNCHANGED ownVars /\ UNCHANGED worldVars

\* The pipe ends when no process holds its other end, or Close closed it.
ReaderEnds(s) ==
    /\ hostAlive /\ outReaders[s] = "reading"
    /\ Live = {} \/ pipesClosed
    /\ outReaders' = [outReaders EXCEPT ![s] = "done"]
    /\ UNCHANGED <<exitWait, eventsClosed, outQueued>>
    /\ UNCHANGED nativeVars /\ UNCHANGED ownVars /\ UNCHANGED worldVars

\* Mutant: the first reader to end closes the channel.
EventsCloseEarly ==
    /\ hostAlive /\ ~eventsClosed /\ \E s \in Streams : outReaders[s] = "done"
    /\ eventsClosed' = TRUE
    /\ UNCHANGED <<exitWait, outReaders, outQueued>>
    /\ UNCHANGED nativeVars /\ UNCHANGED ownVars /\ UNCHANGED worldVars

\* readers.Wait() returns, then readersDone and events close.
EventsClose ==
    /\ hostAlive /\ ~eventsClosed /\ \A s \in Streams : outReaders[s] = "done"
    /\ eventsClosed' = TRUE
    /\ UNCHANGED <<exitWait, outReaders, outQueued>>
    /\ UNCHANGED nativeVars /\ UNCHANGED ownVars /\ UNCHANGED worldVars

TakeEvent ==
    /\ hostAlive /\ outQueued > 0
    /\ outQueued' = outQueued - 1
    /\ UNCHANGED <<exitWait, outReaders, eventsClosed>>
    /\ UNCHANGED nativeVars /\ UNCHANGED ownVars /\ UNCHANGED worldVars

----------------------------------------------------------------------------
(* The owner: stop, verify that the boundary is empty, close. *)

OwnerGoes(at) ==
    /\ boundaryOwner' = at
    /\ UNCHANGED <<closeMu, boundaryClosed, ownerKind, verified, hostStops>>

\* The Host asks for a shutdown (RequestStop) and waits for the root's exit.
StopWorker ==
    /\ hostAlive /\ boundaryOwner = "live" /\ ownerKind = "host" /\ hostStops < MaxHostStops
    /\ hostStops' = hostStops + 1
    /\ boundaryOwner' = "graceful"
    /\ UNCHANGED <<closeMu, boundaryClosed, ownerKind, verified>>
    /\ UNCHANGED nativeVars /\ UNCHANGED threadVars /\ UNCHANGED worldVars

\* The root exited in time: ForceStop is not called.
GracefulExit ==
    /\ hostAlive /\ boundaryOwner = "graceful" /\ ExitedClosed
    /\ OwnerGoes("empty")
    /\ UNCHANGED nativeVars /\ UNCHANGED threadVars /\ UNCHANGED worldVars

\* ForceStop after the graceful timeout: nothing if exited has closed since.
ForceStop ==
    /\ hostAlive /\ boundaryOwner = "graceful"
    /\ OwnerGoes(IF ExitedClosed THEN "empty" ELSE "kill")
    /\ UNCHANGED nativeVars /\ UNCHANGED threadVars /\ UNCHANGED worldVars

\* The command ended, or its context did: the job is terminated even when the
\* root has exited.
CommandEnds ==
    /\ hostAlive /\ boundaryOwner = "live" /\ ownerKind = "command"
    /\ ExitedClosed \/ ~startCtx
    /\ OwnerGoes("kill")
    /\ UNCHANGED nativeVars /\ UNCHANGED threadVars /\ UNCHANGED worldVars

\* TerminateJobObject: asynchronous, and it may fail.
Kill ==
    /\ hostAlive /\ boundaryOwner = "kill"
    /\ TerminateJob \/ UNCHANGED jobProc
    /\ OwnerGoes("empty")
    /\ UNCHANGED <<inJob, jobHandle, processHandle>>
    /\ UNCHANGED threadVars /\ UNCHANGED worldVars

\* One poll of WaitEmpty: activeProcesses takes closeMu for its query.
PollBegins ==
    /\ hostAlive /\ boundaryOwner = "empty" /\ closeMu = "free"
    /\ closeMu' = "owner"
    /\ boundaryOwner' = "polling"
    /\ UNCHANGED <<boundaryClosed, ownerKind, verified, hostStops>>
    /\ UNCHANGED nativeVars /\ UNCHANGED threadVars /\ UNCHANGED worldVars

AfterEmpty == IF ownerKind = "host" THEN "closing" ELSE "output"

\* Mutant: WaitEmpty is satisfied by the root's exit.
PollExited ==
    /\ hostAlive /\ boundaryOwner = "polling" /\ closeMu = "owner"
    /\ closeMu' = "free"
    /\ boundaryOwner' = IF ExitedClosed THEN AfterEmpty ELSE "empty"
    /\ verified' = ExitedClosed
    /\ UNCHANGED <<boundaryClosed, ownerKind, hostStops>>
    /\ UNCHANGED nativeVars /\ UNCHANGED threadVars /\ UNCHANGED worldVars

\* No active process: WaitEmpty returns nil.  Otherwise it polls again.
Poll ==
    /\ hostAlive /\ boundaryOwner = "polling" /\ closeMu = "owner"
    /\ LET empty == boundaryClosed \/ Active = {} IN
         /\ boundaryOwner' = IF empty THEN AfterEmpty ELSE "empty"
         /\ verified' = empty
    /\ closeMu' = "free"
    /\ UNCHANGED <<boundaryClosed, ownerKind, hostStops>>
    /\ UNCHANGED nativeVars /\ UNCHANGED threadVars /\ UNCHANGED worldVars

\* WaitEmpty times out or its query fails: the Host keeps the boundary and may
\* be asked to stop again; the command goes on to close it.
WaitEmptyFails ==
    /\ hostAlive /\ boundaryOwner = "empty"
    /\ OwnerGoes(IF ownerKind = "host" THEN "live" ELSE "output")
    /\ UNCHANGED nativeVars /\ UNCHANGED threadVars /\ UNCHANGED worldVars

\* The command waits for the output to end, or for the cleanup timeout.
OutputWaited ==
    /\ hostAlive /\ boundaryOwner = "output"
    /\ OwnerGoes("closing")
    /\ UNCHANGED nativeVars /\ UNCHANGED threadVars /\ UNCHANGED worldVars

\* Close under closeMu: what is active is terminated.
CloseBegins ==
    /\ hostAlive /\ boundaryOwner = "closing" /\ closeMu = "free"
    /\ IF boundaryClosed
         THEN /\ boundaryOwner' = "stopped"
              /\ UNCHANGED <<closeMu, jobProc>>
         ELSE /\ boundaryOwner' = "process"
              /\ closeMu' = "owner"
              /\ TerminateJob \/ UNCHANGED jobProc
    /\ UNCHANGED <<inJob, jobHandle, processHandle>>
    /\ UNCHANGED <<boundaryClosed, ownerKind, verified, hostStops>>
    /\ UNCHANGED threadVars /\ UNCHANGED worldVars

\* The process's end, or five seconds, then the pipes close.
CloseWaited ==
    /\ hostAlive /\ boundaryOwner = "process"
    /\ pipesClosed' = TRUE
    /\ OwnerGoes("drain")
    /\ UNCHANGED nativeVars /\ UNCHANGED threadVars
    /\ UNCHANGED <<asker, hostAlive, startCtx>>

\* readersDone, or two seconds.
CloseDrained ==
    /\ hostAlive /\ boundaryOwner = "drain"
    /\ OwnerGoes("join")
    /\ UNCHANGED nativeVars /\ UNCHANGED threadVars /\ UNCHANGED worldVars

\* The handles are released; closing the job kills what is left in it.
ReleaseHandles ==
    /\ TerminateJob
    /\ jobHandle' = "closed" /\ processHandle' = "closed"
    /\ boundaryClosed' = TRUE
    /\ boundaryOwner' = "stopped"
    /\ closeMu' = "free"
    /\ UNCHANGED <<inJob, ownerKind, verified, hostStops>>
    /\ UNCHANGED threadVars /\ UNCHANGED worldVars

CloseJoined ==
    /\ hostAlive /\ boundaryOwner = "join" /\ exitWait = "done"
    /\ ReleaseHandles

\* Mutant: the handles are released although waitForExit was not joined.
JoinTimeoutReleases ==
    /\ hostAlive /\ boundaryOwner = "join" /\ exitWait # "done"
    /\ ReleaseHandles

\* waitForExit has not returned after two seconds: the handles stay open, and
\* the Host may call Close again.
JoinTimeout ==
    /\ hostAlive /\ boundaryOwner = "join" /\ exitWait # "done"
    /\ boundaryOwner' = IF ownerKind = "host" THEN "live" ELSE "stopped"
    /\ closeMu' = "free"
    /\ UNCHANGED <<boundaryClosed, ownerKind, verified, hostStops>>
    /\ UNCHANGED nativeVars /\ UNCHANGED threadVars /\ UNCHANGED worldVars

----------------------------------------------------------------------------
(* A Diagnostics call of another goroutine. *)

AskOwn ==
    /\ UNCHANGED <<boundaryClosed, boundaryOwner, ownerKind, verified, hostStops>>
    /\ UNCHANGED <<pipesClosed, hostAlive, startCtx>>
    /\ UNCHANGED nativeVars /\ UNCHANGED threadVars

\* Mutant: the job is queried without a look at closed.
AskUnchecked ==
    /\ hostAlive /\ asker = "idle" /\ exitWait # "none" /\ closeMu = "free"
    /\ asker' = "query" /\ closeMu' = "asker"
    /\ AskOwn

\* activeProcesses: a closed boundary has none, and is not queried.
Ask ==
    /\ hostAlive /\ asker = "idle" /\ exitWait # "none" /\ closeMu = "free" /\ ~boundaryClosed
    /\ asker' = "query" /\ closeMu' = "asker"
    /\ AskOwn

Answered ==
    /\ hostAlive /\ asker = "query"
    /\ asker' = "idle" /\ closeMu' = "free"
    /\ AskOwn

----------------------------------------------------------------------------
(* The processes, the operating system and the application. *)

\* A process starts another, which is in the job its parent is in.
Spawn(p, c) ==
    /\ jobProc[p] = "running" /\ jobProc[c] = "none" /\ c # Root
    /\ jobProc' = [jobProc EXCEPT ![c] = "running"]
    /\ inJob' = IF p \in inJob THEN inJob \cup {c} ELSE inJob
    /\ UNCHANGED <<jobHandle, processHandle>>
    /\ UNCHANGED threadVars /\ UNCHANGED ownVars /\ UNCHANGED worldVars

\* A process ends by itself, or a terminated one is gone.
Exit(p) ==
    /\ jobProc[p] \in {"running", "dying"}
    /\ jobProc' = [jobProc EXCEPT ![p] = "dead"]
    /\ UNCHANGED <<inJob, jobHandle, processHandle>>
    /\ UNCHANGED threadVars /\ UNCHANGED ownVars /\ UNCHANGED worldVars

ContextEnds ==
    /\ hostAlive /\ startCtx
    /\ startCtx' = FALSE
    /\ UNCHANGED <<pipesClosed, asker, hostAlive>>
    /\ UNCHANGED nativeVars /\ UNCHANGED threadVars /\ UNCHANGED ownVars

\* The application dies: its handles close, the job's with them.
HostDies ==
    /\ hostAlive
    /\ hostAlive' = FALSE
    /\ TerminateJob
    /\ jobHandle' = IF jobHandle = "open" THEN "closed" ELSE jobHandle
    /\ processHandle' = IF processHandle = "open" THEN "closed" ELSE processHandle
    /\ UNCHANGED <<inJob, pipesClosed, asker, startCtx>>
    /\ UNCHANGED threadVars /\ UNCHANGED ownVars

JobNext ==
    \/ StartRefused
    \/ \E kind \in {"host", "command"} : StartJob(kind)
    \/ PrepareFails
    \/ CreateProcess
    \/ AssignFails
    \/ AssignProcessToJobObject
    \/ ResumeFails
    \/ ResumeThread
    \/ WaitWakes
    \/ WaitForExit
    \/ WaitReturns
    \/ \E s \in Streams : ReadLine(s)
    \/ \E s \in Streams : ReaderEnds(s)
    \/ EventsClose
    \/ TakeEvent
    \/ StopWorker
    \/ GracefulExit
    \/ ForceStop
    \/ CommandEnds
    \/ Kill
    \/ PollBegins
    \/ Poll
    \/ WaitEmptyFails
    \/ OutputWaited
    \/ CloseBegins
    \/ CloseWaited
    \/ CloseDrained
    \/ CloseJoined
    \/ JoinTimeout
    \/ Ask
    \/ Answered
    \/ \E p, c \in Procs : Spawn(p, c)
    \/ \E p \in Procs : Exit(p)
    \/ ContextEnds
    \/ HostDies

JobSpec == JobInit /\ [][JobNext]_jobVars

----------------------------------------------------------------------------
(* Properties. *)

\* No process of the tree outlives its boundary: once the job handle is closed,
\* by Close, by a start that failed or by the death of the application, nothing
\* runs, and while the application lives nothing is left suspended either.
NothingOutlives ==
    jobHandle = "closed" =>
        \A p \in Procs : /\ jobProc[p] # "running"
                         /\ hostAlive => jobProc[p] # "suspended"

\* waitForExit never waits on, or reads the exit code of, a handle Close has
\* released.
WaitOwnsHandle == hostAlive /\ exitWait \in {"waiting", "woken"} => processHandle = "open"

\* Diagnostics never queries a job whose handle has been closed.
QueryIsOpen == hostAlive /\ asker = "query" => jobHandle = "open"

\* When WaitEmpty has told its caller that the boundary is empty, no process of
\* the tree is left, descendants that outlived the root included, and none
\* appears afterwards.
VerifiedIsEmpty == verified => Live = {}

\* No reader sends on the events channel after it is closed.
NoSendAfterClose == eventsClosed => \A s \in Streams : outReaders[s] = "done"

=============================================================================
