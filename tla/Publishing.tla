----------------------------- MODULE Publishing -----------------------------
(***************************************************************************)
(* How the daemon publishes values that change fast and from several       *)
(* goroutines: trailingPublisher limits a stream to one value per interval *)
(* and keeps the latest one.                                               *)
(*                                                                         *)
(* Values are numbered in the order enqueue accepts them.  The interval    *)
(* elapses at any time; a timer callback may already be running when it is *)
(* stopped, so a stopped timer may still call flush.                       *)
(***************************************************************************)
EXTENDS Naturals, Sequences, FiniteSets

CONSTANTS
    Publishers,         \* goroutines that enqueue, and drain when told to
    MaxValues,          \* bound: values enqueued
    MaxTimers           \* bound: timers armed

VARIABLES
    recent,             \* less than interval has passed since lastPublished
    hasPublished, pendingValue, timer, timerID, outbox, drainingOut, closed,
    firing,             \* timer ids whose callback has not run yet
    accepted,           \* number of values enqueue has accepted
    drainer,            \* what each goroutine does, and the value it holds
    published           \* the last value handed to publish; 0 is none

publishVars == <<recent, hasPublished, pendingValue, timer, timerID, outbox, drainingOut, closed,
                 firing, accepted, drainer, published>>

\* The timer goroutine drains like a publisher does.
Drainers == Publishers \cup {"flush"}
Idle == [at |-> "idle", v |-> 0]
Turns == [at : {"idle", "drain", "publish"}, v : 0..MaxValues]

TypeOK ==
    /\ recent \in BOOLEAN /\ hasPublished \in BOOLEAN /\ drainingOut \in BOOLEAN
    /\ closed \in BOOLEAN
    /\ pendingValue \in 0..MaxValues /\ accepted \in 0..MaxValues
    /\ published \in 0..MaxValues
    /\ timer \in 0..(2 * MaxTimers) /\ timerID \in 0..(2 * MaxTimers)
    /\ firing \subseteq 1..(2 * MaxTimers)
    /\ outbox \in Seq(1..MaxValues)
    /\ drainer \in [Drainers -> Turns]

Init ==
    /\ recent = FALSE /\ hasPublished = FALSE /\ drainingOut = FALSE /\ closed = FALSE
    /\ pendingValue = 0 /\ accepted = 0 /\ published = 0
    /\ timer = 0 /\ timerID = 0 /\ firing = {} /\ outbox = <<>>
    /\ drainer = [d \in Drainers |-> Idle]

\* Mutant: everyone who enqueues drains.
EnqueueLockedAll(d, value) ==
    /\ outbox' = Append(outbox, value)
    /\ drainingOut' = TRUE
    /\ drainer' = [drainer EXCEPT ![d].at = "drain"]

\* The value is queued; the first to queue owns the draining.
EnqueueLocked(d, value) ==
    /\ outbox' = Append(outbox, value)
    /\ drainingOut' = TRUE
    /\ drainer' = IF drainingOut THEN drainer ELSE [drainer EXCEPT ![d].at = "drain"]

\* A callback that has not started is stopped; one that has started still
\* calls flush with its old id.
ClearPending ==
    /\ pendingValue' = 0 /\ timer' = 0
    /\ timerID' = IF timer = 0 THEN timerID ELSE timerID + 1
    /\ firing' \in IF timer = 0 THEN {firing} ELSE {firing, firing \ {timer}}

\* A throttled value inside the interval replaces the pending one (merge
\* keeps the latest projection) and arms the timer if there is none; any
\* other value is published at once and clears what was pending.
Enqueue(d) ==
    /\ drainer[d].at = "idle" /\ ~closed /\ accepted < MaxValues
    /\ accepted' = accepted + 1
    /\ \/ /\ hasPublished /\ recent
          /\ pendingValue' = accepted + 1
          /\ IF timer = 0
             THEN /\ timerID < 2 * MaxTimers - 1
                  /\ timerID' = timerID + 1 /\ timer' = timerID + 1
                  /\ firing' = firing \cup {timerID + 1}
             ELSE UNCHANGED <<timer, timerID, firing>>
          /\ UNCHANGED <<recent, hasPublished, outbox, drainingOut, drainer>>
       \/ /\ ClearPending
          /\ recent' = TRUE /\ hasPublished' = TRUE
          /\ EnqueueLocked(d, accepted + 1)
    /\ UNCHANGED <<closed, published>>

Elapse ==
    /\ recent /\ recent' = FALSE
    /\ UNCHANGED <<hasPublished, pendingValue, timer, timerID, outbox, drainingOut, closed,
                   firing, accepted, drainer, published>>

\* Mutant: the callback leaves the timer set.
FlushKeepsTimer(id) ==
    /\ id \in firing
    /\ firing' = firing \ {id}
    /\ IF closed \/ timerID # id \/ pendingValue = 0
       THEN UNCHANGED <<recent, hasPublished, pendingValue, outbox, drainingOut, drainer>>
       ELSE /\ recent' = TRUE /\ hasPublished' = TRUE /\ pendingValue' = 0
            /\ EnqueueLocked("flush", pendingValue)
    /\ UNCHANGED <<timer, timerID, closed, accepted, published>>

Flush(id) ==
    /\ id \in firing
    /\ firing' = firing \ {id}
    /\ IF closed \/ timerID # id
       THEN UNCHANGED <<recent, hasPublished, pendingValue, timer, outbox, drainingOut, drainer>>
       ELSE /\ timer' = 0 /\ pendingValue' = 0
            /\ IF pendingValue = 0
               THEN UNCHANGED <<recent, hasPublished, outbox, drainingOut, drainer>>
               ELSE /\ recent' = TRUE /\ hasPublished' = TRUE
                    /\ EnqueueLocked("flush", pendingValue)
    /\ UNCHANGED <<timerID, closed, accepted, published>>

\* The drainer takes the head under the lock and publishes it outside.
DrainTake(d) ==
    /\ drainer[d].at = "drain"
    /\ IF closed \/ outbox = <<>>
       THEN outbox' = <<>> /\ drainingOut' = FALSE /\ drainer' = [drainer EXCEPT ![d] = Idle]
       ELSE /\ outbox' = Tail(outbox) /\ drainer' = [drainer EXCEPT ![d] = [at |-> "publish", v |-> Head(outbox)]]
            /\ UNCHANGED drainingOut
    /\ UNCHANGED <<recent, hasPublished, pendingValue, timer, timerID, closed, firing, accepted,
                   published>>

Publish(d) ==
    /\ drainer[d].at = "publish"
    /\ published' = drainer[d].v
    /\ drainer' = [drainer EXCEPT ![d] = [at |-> "drain", v |-> 0]]
    /\ UNCHANGED <<recent, hasPublished, pendingValue, timer, timerID, outbox, drainingOut,
                   closed, firing, accepted>>

ClosePublisher ==
    /\ ~closed /\ closed' = TRUE
    /\ ClearPending /\ outbox' = <<>>
    /\ UNCHANGED <<recent, hasPublished, drainingOut, accepted, drainer, published>>
   

Next ==
    \/ \E d \in Publishers : Enqueue(d)
    \/ \E d \in Drainers : DrainTake(d) \/ Publish(d)
    \/ \E id \in firing : Flush(id)
    \/ Elapse \/ ClosePublisher

Spec == Init /\ [][Next]_publishVars

NeverBackwardsStep == published' >= published

(***************************************************************************)
(* Properties                                                              *)
(***************************************************************************)
\* A newer value is never overwritten by an older one, although timers and
\* several goroutines enqueue and any of them may drain
\* (trailing_publisher.go:106-153).
NeverBackwards == [][NeverBackwardsStep]_publishVars

\* Nothing accepted is stranded: a pending value has a live timer, a queued one
\* a drainer, and when both are empty the latest value has been published
\* (trailing_publisher.go:24-26).
LatestIsShown ==
    ~closed =>
        /\ pendingValue # 0 => timer # 0 /\ timer = timerID /\ timer \in firing
        /\ outbox # <<>> => \E d \in Drainers : drainer[d].at # "idle"
        /\ (\A d \in Drainers : drainer[d].at = "idle") /\ pendingValue = 0 => published = accepted
============================================================================
