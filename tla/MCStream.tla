------------------------------- MODULE MCStream -------------------------------
(***************************************************************************)
(* The two ends of the daemon's channels, model-checked together: the      *)
(* Worker's session (WorkerChannel) and the UI's state stream              *)
(* (EventStream).  They hold no state in common, so a behaviour is a       *)
(* behaviour of one of them, chosen at the start; the other one rests in   *)
(* its initial state.                                                      *)
(***************************************************************************)
EXTENDS WorkerChannel

CONSTANTS Topics, Values, MaxConns, MaxSets, MaxCommands, SubscriberBuffer,
          CommandBuffer, PipeBuffer

\* The bounds and the buffers are numbers, a buffered command has room, and a topic that
\* was never set is told from every encoded value.
ASSUME StreamAssumption ==
    /\ {MaxConns, MaxSets, MaxCommands, SubscriberBuffer, PipeBuffer} \subseteq Nat
    /\ CommandBuffer \in Nat \ {0}
    /\ "unset" \notin Values

VARIABLES
    part,
    topics, topicOrder, commands, subscribers, queue, sets, sent, startMu, writeMu,
    streamID, streamSub, handler, initial, pending, ctxDone, wire, view, got, client

streamVars == <<topics, topicOrder, commands, subscribers, queue, sets, sent, startMu, writeMu,
                streamID, streamSub, handler, initial, pending, ctxDone, wire, view, got, client>>

Stream == INSTANCE EventStream

StreamInit ==
    /\ part \in {"channel", "stream"}
    /\ Init /\ Stream!Init

ChannelNext == part = "channel" /\ Next /\ UNCHANGED <<part, streamVars>>
UINext == part = "stream" /\ Stream!Next /\ UNCHANGED <<part, vars>>

StreamNext == ChannelNext \/ UINext
StreamVars == <<part, vars, streamVars>>

\* No action that is fair in a component is enabled in its initial state, so
\* the fairness of the components at rest asks for nothing.
StreamSpec == StreamInit /\ [][StreamNext]_StreamVars /\ Fairness /\ Stream!Fairness

\* Every variable of every component keeps its type.
StreamTypeOK == TypeOK /\ Stream!TypeOK

\* EventStream: a subscribed UI misses nothing, and a one-shot command reaches one
\* UI at most, however connections take the stream over (hub.go:120-143, 163-189).
StreamDelivers == Stream!NoGap /\ Stream!OnceDelivered
\* EventStream: a replaced stream writes nothing more (stream.go:75-93).
ReplacedIsSilent == Stream!ReplacedIsSilent
\* EventStream: a blocked writer cannot hold off its successor (stream.go:116-128).
TakeoverServed == Stream!TakeoverServed

============================================================================
