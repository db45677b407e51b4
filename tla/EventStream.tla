------------------------------ MODULE EventStream ------------------------------
(***************************************************************************)
(* The daemon's state stream: hostevents.Hub (topics, one-shot commands,   *)
(* bounded subscriber queues), Server.serveStream (one active stream, a    *)
(* newer connection replaces an older one) and the UI's reader, which      *)
(* applies states to its copy and hands commands on.  Every mutex that is  *)
(* held over a single straight-line block (Hub.mu, streamMu) is one step;  *)
(* streamStartMu and streamWriteMu are held across blocking operations and *)
(* are variables.                                                          *)
(***************************************************************************)
EXTENDS Naturals, Sequences, FiniteSets, SequencesExt

CONSTANTS
    Topics,             \* topic names
    Values,             \* encoded topic values; SetTopic compares them
    MaxConns,           \* bound: GET /stream requests
    MaxSets,            \* bound: topic changes
    MaxCommands,        \* bound: commands sent
    SubscriberBuffer,   \* hub.go subscriberBuffer (256 in the code)
    CommandBuffer,      \* hub.go commandBuffer (64 in the code)
    PipeBuffer          \* lines the pipe takes before a write blocks

VARIABLES
    topics, topicOrder, commands, subscribers, queue,   \* Hub
    sets, sent,                                         \* bounds
    startMu, writeMu, streamID, streamSub,              \* Server
    handler, initial, pending, ctxDone,               \* one serveStream call
    wire, view, got, client                             \* pipe and UI reader

hub == <<topics, topicOrder, commands, subscribers, queue, sets, sent>>
server == <<startMu, writeMu, streamID, streamSub>>
serve == <<handler, initial, pending, ctxDone>>
ui == <<wire, view, got, client>>
vars == <<hub, server, serve, ui>>

Conns == 1 .. MaxConns
NoConn == 0
Unset == "unset"

State(t, v) == <<"state", t, v>>
Command(n) == <<"command", n>>
Ping == <<"ping">>
NoView == [t \in Topics |-> Unset]

Init ==
    /\ topics = [t \in Topics |-> Unset] /\ topicOrder = <<>>
    /\ commands = <<>> /\ subscribers = {}
    /\ queue = [c \in Conns |-> <<>>]
    /\ sets = 0 /\ sent = 0
    /\ startMu = NoConn /\ writeMu = NoConn
    /\ streamID = NoConn /\ streamSub = NoConn
    /\ handler = [c \in Conns |-> "none"]
    /\ initial = [c \in Conns |-> <<>>]
    /\ pending = [c \in Conns |-> <<>>]
    /\ ctxDone = {}
    /\ wire = [c \in Conns |-> <<>>]
    /\ view = [c \in Conns |-> NoView]
    /\ got = [c \in Conns |-> {}]
    /\ client = [c \in Conns |-> "none"]

----------------------------------------------------------------------------
(* Hub *)

\* Mutant: a full queue loses the message and keeps the subscriber.
BroadcastLossy(message) ==
    /\ queue' = [c \in Conns |->
           IF c \in subscribers /\ Len(queue[c]) < SubscriberBuffer
           THEN Append(queue[c], message) ELSE queue[c]]
    /\ UNCHANGED subscribers

\* broadcastLocked: a full queue costs the subscriber its subscription, and
\* closes its Done, instead of blocking the producer.
Broadcast(message) ==
    LET fits == {c \in subscribers : Len(queue[c]) < SubscriberBuffer}
    IN  /\ queue' = [c \in Conns |-> IF c \in fits THEN Append(queue[c], message)
                                                   ELSE queue[c]]
        /\ subscribers' = fits

\* SetTopic: equal encodings are suppressed, a first value joins the order.
SetTopic(t, v) ==
    /\ sets < MaxSets
    /\ topics[t] # v
    /\ sets' = sets + 1
    /\ topics' = [topics EXCEPT ![t] = v]
    /\ topicOrder' = IF topics[t] = Unset THEN Append(topicOrder, t) ELSE topicOrder
    /\ Broadcast(State(t, v))
    /\ UNCHANGED <<commands, sent, server, serve, ui>>

\* SendCommand: with nobody listening the command waits for the next
\* subscription, the oldest waiting one making room.
SendCommand ==
    /\ sent < MaxCommands
    /\ sent' = sent + 1
    /\ IF subscribers = {}
       THEN /\ commands' = Append(IF Len(commands) = CommandBuffer
                                  THEN Tail(commands) ELSE commands, Command(sent'))
            /\ UNCHANGED <<subscribers, queue>>
       ELSE /\ Broadcast(Command(sent')) /\ UNCHANGED commands
    /\ UNCHANGED <<topics, topicOrder, sets, server, serve, ui>>

\* SendTransient: the same, but never kept for a later subscription.
SendTransient ==
    /\ sent < MaxCommands
    /\ subscribers # {}
    /\ sent' = sent + 1
    /\ Broadcast(Command(sent'))
    /\ UNCHANGED <<topics, topicOrder, commands, sets, server, serve, ui>>

\* What Subscribe returns: the snapshot in topic order, then the waiting
\* commands that have not expired (a suffix: they expire in sending order).
Snapshot == [i \in DOMAIN topicOrder |-> State(topicOrder[i], topics[topicOrder[i]])]
Unexpired == {SubSeq(commands, k, Len(commands)) : k \in 1 .. Len(commands) + 1}

----------------------------------------------------------------------------
(* Server.serveStream *)

\* A UI process opens its stream; the request waits for streamStartMu.
Connect(c) ==
    /\ client[c] = "none"
    /\ \A d \in 1 .. c - 1 : client[d] # "none"
    /\ client' = [client EXCEPT ![c] = "reading"]
    /\ handler' = [handler EXCEPT ![c] = "starting"]
    /\ UNCHANGED <<hub, server, initial, pending, ctxDone, wire, view, got>>

\* streamStartMu taken: the previous stream is ctxDone and unsubscribed,
\* unless this request is already dead.
Replace(c) ==
    /\ handler[c] = "starting"
    /\ startMu = NoConn
    /\ IF c \in ctxDone
       THEN /\ handler' = [handler EXCEPT ![c] = "ended"]
            /\ UNCHANGED <<startMu, ctxDone, subscribers>>
       ELSE /\ startMu' = c
            /\ handler' = [handler EXCEPT ![c] = "replacing"]
            /\ ctxDone' = ctxDone \cup ({streamSub} \ {NoConn})
            /\ subscribers' = subscribers \ {streamSub}
    /\ UNCHANGED <<topics, topicOrder, commands, queue, sets, sent, writeMu, streamID,
                   streamSub, initial, pending, ui>>

\* Mutant: the staged commands stay for the next subscription too.
SubscribeKeeps(c) ==
    /\ handler[c] = "replacing" /\ writeMu = NoConn /\ c \notin ctxDone
    /\ startMu' = NoConn
    /\ handler' = [handler EXCEPT ![c] = "serving"]
    /\ streamID' = c /\ streamSub' = c
    /\ subscribers' = subscribers \cup {c}
    /\ initial' = [initial EXCEPT ![c] = Snapshot \o commands]
    /\ UNCHANGED <<topics, topicOrder, commands, queue, sets, sent, writeMu, pending, ctxDone, ui>>

\* streamWriteMu taken, so no older line is in flight: become the stream.
Subscribe(c) ==
    /\ handler[c] = "replacing"
    /\ writeMu = NoConn
    /\ startMu' = NoConn
    /\ IF c \in ctxDone
       THEN /\ handler' = [handler EXCEPT ![c] = "ended"]
            /\ UNCHANGED <<streamID, streamSub, subscribers, commands, initial>>
       ELSE /\ handler' = [handler EXCEPT ![c] = "serving"]
            /\ streamID' = c /\ streamSub' = c
            /\ subscribers' = subscribers \cup {c}
            /\ \E staged \in Unexpired :
                  initial' = [initial EXCEPT ![c] = Snapshot \o staged]
            /\ commands' = <<>>
    /\ UNCHANGED <<topics, topicOrder, queue, sets, sent, writeMu, pending, ctxDone, ui>>

\* The next line: the rest of the initial messages first, then the live queue
\* or the ticker's ping.
Pick(c) ==
    /\ handler[c] = "serving"
    /\ \/ /\ initial[c] # <<>>
          /\ pending' = [pending EXCEPT ![c] = <<Head(initial[c])>>]
          /\ initial' = [initial EXCEPT ![c] = Tail(@)]
          /\ UNCHANGED queue
       \/ /\ initial[c] = <<>> /\ queue[c] # <<>>
          /\ pending' = [pending EXCEPT ![c] = <<Head(queue[c])>>]
          /\ queue' = [queue EXCEPT ![c] = Tail(@)]
          /\ UNCHANGED initial
    /\ handler' = [handler EXCEPT ![c] = "locking"]
    /\ UNCHANGED <<topics, topicOrder, commands, subscribers, sets, sent, server, ctxDone, ui>>

PickPing(c) ==
    /\ handler[c] = "serving" /\ initial[c] = <<>>
    /\ pending' = [pending EXCEPT ![c] = <<Ping>>]
    /\ handler' = [handler EXCEPT ![c] = "locking"]
    /\ UNCHANGED <<hub, server, initial, ctxDone, ui>>

\* Mutant: the context is not looked at once the lock is taken.
WriteBeginBlind(c) ==
    /\ handler[c] = "locking" /\ writeMu = NoConn
    /\ handler' = [handler EXCEPT ![c] = "writing"]
    /\ writeMu' = c
    /\ UNCHANGED <<hub, startMu, streamID, streamSub, initial, pending, ctxDone, ui>>

\* write: streamWriteMu, then the context, then a write that may block.
WriteBegin(c) ==
    /\ handler[c] = "locking" /\ writeMu = NoConn
    /\ IF c \in ctxDone
       THEN /\ handler' = [handler EXCEPT ![c] = "closing"]
            /\ pending' = [pending EXCEPT ![c] = <<>>]
            /\ UNCHANGED writeMu
       ELSE /\ handler' = [handler EXCEPT ![c] = "writing"]
            /\ writeMu' = c
            /\ UNCHANGED pending
    /\ UNCHANGED <<hub, startMu, streamID, streamSub, initial, ctxDone, ui>>

WriteDone(c) ==
    /\ handler[c] = "writing"
    /\ Len(wire[c]) < PipeBuffer
    /\ wire' = [wire EXCEPT ![c] = @ \o pending[c]]
    /\ pending' = [pending EXCEPT ![c] = <<>>]
    /\ handler' = [handler EXCEPT ![c] = "serving"]
    /\ writeMu' = NoConn
    /\ UNCHANGED <<hub, startMu, streamID, streamSub, initial, ctxDone, view, got, client>>

\* Mutant: nobody interrupts a blocked write.
WriteFailedGone(c) ==
    /\ handler[c] = "writing" /\ client[c] = "gone"
    /\ pending' = [pending EXCEPT ![c] = <<>>]
    /\ handler' = [handler EXCEPT ![c] = "closing"]
    /\ writeMu' = NoConn
    /\ UNCHANGED <<hub, startMu, streamID, streamSub, initial, ctxDone, ui>>

\* SetWriteDeadline interrupts the write once the context ends or the queue
\* overflowed.
WriteFailed(c) ==
    /\ handler[c] = "writing"
    /\ c \in ctxDone \/ c \notin subscribers
    /\ pending' = [pending EXCEPT ![c] = <<>>]
    /\ handler' = [handler EXCEPT ![c] = "closing"]
    /\ writeMu' = NoConn
    /\ UNCHANGED <<hub, startMu, streamID, streamSub, initial, ctxDone, ui>>

\* The select sees the context or Done.
Leave(c) ==
    /\ handler[c] = "serving" /\ initial[c] = <<>>
    /\ c \in ctxDone \/ c \notin subscribers
    /\ handler' = [handler EXCEPT ![c] = "closing"]
    /\ UNCHANGED <<hub, server, initial, pending, ctxDone, ui>>

\* The deferred calls: unsubscribe, cancel, and give up the stream unless a
\* newer one has it.  What was not sent goes with the handler.
Close(c) ==
    /\ handler[c] = "closing"
    /\ handler' = [handler EXCEPT ![c] = "ended"]
    /\ subscribers' = subscribers \ {c}
    /\ ctxDone' = ctxDone \cup {c}
    /\ streamSub' = IF streamID = c THEN NoConn ELSE streamSub
    /\ queue' = [queue EXCEPT ![c] = <<>>]
    /\ initial' = [initial EXCEPT ![c] = <<>>]
    /\ UNCHANGED <<topics, topicOrder, commands, sets, sent, startMu, writeMu,
                   streamID, pending, ui>>

----------------------------------------------------------------------------
(* consumeDaemonStream and streamProcessor.handle *)

\* One line: a state replaces the UI's copy of its topic, a command is handed
\* on, a ping only resets the idle timer.
Apply(v, message) ==
    IF message[1] = "state" THEN [v EXCEPT ![message[2]] = message[3]] ELSE v

Read(c) ==
    /\ client[c] = "reading" /\ wire[c] # <<>>
    /\ wire' = [wire EXCEPT ![c] = Tail(@)]
    /\ view' = [view EXCEPT ![c] = Apply(@, Head(wire[c]))]
    /\ got' = [got EXCEPT ![c] = IF Head(wire[c])[1] = "command"
                                 THEN @ \cup {Head(wire[c])[2]} ELSE @]
    /\ UNCHANGED <<hub, server, serve, client>>

\* The reader returns (30 silent seconds, a read error, application exit):
\* the body is closed, which ends the request's context on the server, and
\* the UI process quits.
Drop(c) ==
    /\ client[c] \in {"reading", "stalled"}
    /\ client' = [client EXCEPT ![c] = "gone"]
    /\ wire' = [wire EXCEPT ![c] = <<>>]
    /\ view' = [view EXCEPT ![c] = NoView]
    /\ ctxDone' = ctxDone \cup {c}
    /\ UNCHANGED <<hub, server, handler, initial, pending, got>>

EndOfStream(c) ==
    /\ client[c] = "reading" /\ handler[c] = "ended" /\ wire[c] = <<>>
    /\ client' = [client EXCEPT ![c] = "gone"]
    /\ view' = [view EXCEPT ![c] = NoView]
    /\ UNCHANGED <<hub, server, serve, wire, got>>

\* A suspended or hung UI process reads nothing any more.
Stall(c) ==
    /\ client[c] = "reading"
    /\ client' = [client EXCEPT ![c] = "stalled"]
    /\ UNCHANGED <<hub, server, serve, wire, view, got>>

----------------------------------------------------------------------------
HandlerStep(c) ==
    Replace(c) \/ Subscribe(c) \/ Pick(c) \/ PickPing(c) \/ WriteBegin(c)
        \/ WriteDone(c) \/ WriteFailed(c) \/ Leave(c) \/ Close(c)

Next ==
    \/ \E t \in Topics, v \in Values : SetTopic(t, v)
    \/ SendCommand \/ SendTransient
    \/ \E c \in Conns :
          Connect(c) \/ HandlerStep(c)
             \/ Read(c) \/ Drop(c) \/ EndOfStream(c) \/ Stall(c)

\* A handler goroutine that can run does, and a Go mutex hands itself to a
\* starving waiter (strong fairness).  Nothing is assumed of the UI.
Acquire(c) == Replace(c) \/ Subscribe(c) \/ WriteBegin(c)

Fairness == \A c \in Conns : /\ SF_vars(Acquire(c))
                             /\ WF_vars(WriteDone(c) \/ WriteFailed(c) \/ Close(c))

Spec == Init /\ [][Next]_vars /\ Fairness

----------------------------------------------------------------------------
(* Properties *)

Messages == {State(t, v) : t \in Topics, v \in Values}
                \cup {Command(n) : n \in 1 .. MaxCommands} \cup {Ping}

TypeOK ==
    /\ topics \in [Topics -> Values \cup {Unset}]
    /\ topicOrder \in Seq(Topics) /\ IsInjective(topicOrder)
    /\ commands \in Seq(Messages) /\ Len(commands) <= CommandBuffer
    /\ subscribers \subseteq Conns
    /\ \A c \in Conns : queue[c] \in Seq(Messages) /\ Len(queue[c]) <= SubscriberBuffer
    /\ {startMu, writeMu, streamID, streamSub} \subseteq Conns \cup {NoConn}
    /\ handler \in [Conns -> {"none", "starting", "replacing", "serving", "locking",
                              "writing", "closing", "ended"}]
    /\ client \in [Conns -> {"none", "reading", "stalled", "gone"}]
    /\ ctxDone \subseteq Conns
    /\ view \in [Conns -> [Topics -> Values \cup {Unset}]]

\* What the UI's copy becomes once everything on its way has been applied: of
\* every topic the last value sent, or the one it has.
OnItsWay(c) == wire[c] \o pending[c] \o initial[c] \o queue[c]
About(message, t) == message[1] = "state" /\ message[2] = t
Settled(c) ==
    [t \in Topics |->
        LET s == OnItsWay(c)
            about == {i \in DOMAIN s : About(s[i], t)}
        IN  IF about = {} THEN view[c][t] ELSE s[Max(about)][3]]

\* While a connection is subscribed nothing is missing from what it has been
\* or will be sent: the snapshot Subscribe took and the messages queued behind
\* it leave the UI with the hub's topics, however SetTopic interleaves with
\* the takeover, the initial lines and the live queue (hub.go:163-189).
NoGap ==
    \A c \in subscribers : client[c] # "gone" => Settled(c) = topics

\* A one-shot command is in one place only: waiting in the hub, on its way to
\* one connection, or delivered to one; a takeover neither repeats it nor
\* hands it to both UIs (hub.go:120-143, stream.go:49-93).
OnceDelivered ==
    \A n \in 1 .. sent :
        LET holds(c) == n \in got[c] \/ Command(n) \in Range(OnItsWay(c))
        IN  /\ \A c, d \in Conns : holds(c) /\ holds(d) => c = d
            /\ Command(n) \in Range(commands) => \A c \in Conns : ~holds(c)

\* Once a newer connection is the stream the older handler's lines stop: a
\* write that was under way finished or failed before (stream.go:75-93).
ReplacedIsSilent ==
    [][\A c \in Conns : Len(wire'[c]) > Len(wire[c]) => c = streamID]_vars

\* A new connection is served, or goes away, although the stream it replaces
\* may sit in a blocked write to a UI that no longer reads (stream.go:116-128).
TakeoverServed ==
    \A c \in Conns : handler[c] = "starting" ~>
        (c \in subscribers \/ handler[c] \in {"closing", "ended"} \/ c \in ctxDone)

============================================================================
