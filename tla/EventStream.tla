---------------------------- MODULE EventStream -----------------------------
(***************************************************************************)
(* The streams of timer events, internal/domain/datastream/timereventstream*)
(* and the websocket loop that owns a stream.  A request sends its event   *)
(* by copying the timer's subscribers under one lock and then putting the  *)
(* event into their channels under another, the read lock of the streams.  *)
(* A channel is bounded, so the sender may wait with that lock held; the   *)
(* owner of a stream needs its write lock to open and to close a stream.   *)
(* A write lock that is waited for keeps new readers out.                  *)
(***************************************************************************)
EXTENDS Integers, Sequences

CONSTANTS
    Timer,      \* the timers that events are about
    Stream,     \* the streams that NewStream returns, one per websocket
    Sender,     \* the requests that send events, each one after the other
    Capacity,   \* capacity of a stream's channel, 20 in the code
    MaxEvents   \* bound: events that a sender sends

NoStream == "no stream"

ASSUME NoStreamAssumption == NoStream \notin Stream
ASSUME BoundsAssumption == Capacity \in Nat /\ MaxEvents \in Nat

VARIABLES
    streams,     \* streamStorage: the streams that are open
    subscribers, \* timerSubscribers: subscribers[t] are the streams of timer t
    timers,      \* timers[s]: the timers of stream s
    readers,     \* the senders that hold the read lock of streamStorage
    writer,      \* the stream whose owner has, or waits for, its write lock
    channel,     \* channel[s]: the events that the owner of s has not received
    owner,       \* owner[s]: where the owner of stream s is
    pc,          \* pc[p]: where sender p is
    timer,       \* timer[p]: the timer of the event that p sends
    togo,        \* togo[p]: the copied subscribers that p has yet to serve
    target,      \* target[p]: the stream whose channel p waits for
    sent,        \* sent[p]: the number of the last event of p
    got,         \* history: got[s][p] is the last event of p put into s
    audience     \* history: the streams that stay subscribed while p sends

indexVars  == <<subscribers, timers>>
lockVars   == <<readers, writer>>
senderVars == <<pc, timer, togo, target, sent>>
vars == <<streams, indexVars, lockVars, channel, owner, senderVars, got, audience>>

Event == [sender : Sender, number : Nat]

OwnerStates == {"none", "opening", "open", "closing", "removed", "unlinked", "closed"}

TypeOK == /\ streams \subseteq Stream
          /\ subscribers \in [Timer -> SUBSET Stream]
          /\ timers \in [Stream -> SUBSET Timer]
          /\ readers \subseteq Sender
          /\ writer \in Stream \cup {NoStream}
          /\ channel \in [Stream -> Seq(Event)]
          /\ \A s \in Stream : Len(channel[s]) <= Capacity
          /\ owner \in [Stream -> OwnerStates]
          /\ pc \in [Sender -> {"idle", "called", "copied", "sending"}]
          /\ timer \in [Sender -> Timer]
          /\ togo \in [Sender -> SUBSET Stream]
          /\ target \in [Sender -> Stream \cup {NoStream}]
          /\ sent \in [Sender -> Nat]
          /\ got \in [Stream -> [Sender -> Nat]]
          /\ audience \in [Sender -> SUBSET Stream]

Init == /\ streams = {}
        /\ subscribers = [t \in Timer |-> {}]
        /\ timers = [s \in Stream |-> {}]
        /\ readers = {}
        /\ writer = NoStream
        /\ channel = [s \in Stream |-> <<>>]
        /\ owner = [s \in Stream |-> "none"]
        /\ pc = [p \in Sender |-> "idle"]
        /\ timer \in [Sender -> Timer]
        /\ togo = [p \in Sender |-> {}]
        /\ target = [p \in Sender |-> NoStream]
        /\ sent = [p \in Sender |-> 0]
        /\ got = [s \in Stream |-> [p \in Sender |-> 0]]
        /\ audience = [p \in Sender |-> {}]

-----------------------------------------------------------------------------
(* EventHandler.Send *)

SenderAt(p, from, to) == pc[p] = from /\ pc' = [pc EXCEPT ![p] = to]

Call(p, t) ==
    /\ SenderAt(p, "idle", "called")
    /\ sent[p] < MaxEvents
    /\ sent' = [sent EXCEPT ![p] = @ + 1]
    /\ timer' = [timer EXCEPT ![p] = t]
    /\ audience' = [audience EXCEPT ![p] = {s \in subscribers[t] : owner[s] = "open"}]
    /\ UNCHANGED <<readers, togo, target, channel, got>>

CopySubscribers(p) ==
    /\ SenderAt(p, "called", "copied")
    /\ togo' = [togo EXCEPT ![p] = subscribers[timer[p]]]
    /\ UNCHANGED <<readers, timer, target, sent, channel, got, audience>>

RLock(p) ==
    /\ SenderAt(p, "copied", "sending")
    /\ writer = NoStream
    /\ readers' = readers \cup {p}
    /\ UNCHANGED <<timer, togo, target, sent, channel, got, audience>>

\* The next stream, in any order; one that is not stored any more is left out.
NextTarget(p, s) ==
    /\ pc[p] = "sending"
    /\ target[p] = NoStream
    /\ s \in togo[p]
    /\ togo' = [togo EXCEPT ![p] = @ \ {s}]
    /\ target' = [target EXCEPT ![p] = IF s \in streams THEN s ELSE NoStream]
    /\ UNCHANGED <<pc, readers, timer, sent, channel, got, audience>>

Put(p, s) ==
    /\ channel' = [channel EXCEPT ![s] = Append(@, [sender |-> p, number |-> sent[p]])]
    /\ got' = [got EXCEPT ![s][p] = sent[p]]

\* Variant: a full channel is passed over.
DeliverOrDrop(p) ==
    /\ target[p] # NoStream
    /\ IF Len(channel[target[p]]) < Capacity THEN Put(p, target[p])
                                             ELSE UNCHANGED <<channel, got>>
    /\ target' = [target EXCEPT ![p] = NoStream]
    /\ UNCHANGED <<pc, readers, timer, togo, sent, audience>>

\* The sender waits until the channel has room.
Deliver(p) ==
    /\ target[p] # NoStream
    /\ Len(channel[target[p]]) < Capacity
    /\ Put(p, target[p])
    /\ target' = [target EXCEPT ![p] = NoStream]
    /\ UNCHANGED <<pc, readers, timer, togo, sent, audience>>

Served(p) == togo[p] = {} /\ target[p] = NoStream

\* Variant: an early return, when there is nobody to serve, keeps the lock.
RUnlockUnlessHeard(p) ==
    /\ SenderAt(p, "sending", "idle")
    /\ Served(p)
    /\ readers' = IF audience[p] = {} THEN readers ELSE readers \ {p}
    /\ UNCHANGED <<timer, togo, target, sent, channel, got, audience>>

RUnlock(p) ==
    /\ SenderAt(p, "sending", "idle")
    /\ Served(p)
    /\ readers' = readers \ {p}
    /\ UNCHANGED <<timer, togo, target, sent, channel, got, audience>>

GoOnSending(p) == \/ CopySubscribers(p)
                  \/ RLock(p)
                  \/ \E s \in Stream : NextTarget(p, s)
                  \/ Deliver(p)
                  \/ RUnlock(p)

SenderFrame == UNCHANGED <<streams, indexVars, writer, owner>>

SenderStep(p) == /\ (\E t \in Timer : Call(p, t)) \/ GoOnSending(p)
                 /\ SenderFrame

-----------------------------------------------------------------------------
(* The owner of a stream: TimerWS, and the methods it calls *)

OwnerAt(s, from, to) == owner[s] = from /\ owner' = [owner EXCEPT ![s] = to]

\* The streams that leave the audience of every event about one of ts.
NoLongerHears(s, ts) ==
    audience' = [p \in Sender |-> IF timer[p] \in ts THEN audience[p] \ {s} ELSE audience[p]]

Open(s) == /\ OwnerAt(s, "none", "opening")
           /\ UNCHANGED <<streams, indexVars, writer, channel, audience>>

Lock(s) == /\ owner[s] \in {"opening", "closing"}
           /\ writer = NoStream
           /\ writer' = s
           /\ UNCHANGED <<streams, indexVars, channel, owner, audience>>

Locked(s) == writer = s /\ readers = {}

NewStream(s) ==
    /\ OwnerAt(s, "opening", "open")
    /\ Locked(s)
    /\ streams' = streams \cup {s}
    /\ writer' = NoStream
    /\ UNCHANGED <<indexVars, channel, audience>>

Subscribe(s, ts) ==
    /\ owner[s] = "open"
    /\ subscribers' = [t \in Timer |->
                          IF t \in ts THEN subscribers[t] \cup {s} ELSE subscribers[t]]
    /\ timers' = [timers EXCEPT ![s] = @ \cup ts]
    /\ UNCHANGED <<streams, writer, channel, owner, audience>>

\* Variant: the stream's own index forgets the timers, the common one does not.
UnsubscribeHalf(s, ts) ==
    /\ owner[s] = "open"
    /\ timers' = [timers EXCEPT ![s] = @ \ ts]
    /\ NoLongerHears(s, ts)
    /\ UNCHANGED <<streams, subscribers, writer, channel, owner>>

Unsubscribe(s, ts) ==
    /\ owner[s] = "open"
    /\ subscribers' = [t \in Timer |->
                          IF t \in ts THEN subscribers[t] \ {s} ELSE subscribers[t]]
    /\ timers' = [timers EXCEPT ![s] = @ \ ts]
    /\ NoLongerHears(s, ts)
    /\ UNCHANGED <<streams, writer, channel, owner>>

Receive(s) ==
    /\ owner[s] = "open"
    /\ channel[s] # <<>>
    /\ channel' = [channel EXCEPT ![s] = Tail(@)]
    /\ UNCHANGED <<streams, indexVars, writer, owner, audience>>

\* The loop ends: nobody receives any more, and Close is called.
Leave(s) ==
    /\ OwnerAt(s, "open", "closing")
    /\ NoLongerHears(s, Timer)
    /\ UNCHANGED <<streams, indexVars, writer, channel>>

\* Variant: the write lock is not released.
RemoveKeepsLock(s) ==
    /\ OwnerAt(s, "closing", "removed")
    /\ Locked(s)
    /\ streams' = streams \ {s}
    /\ UNCHANGED <<indexVars, writer, channel, audience>>

\* Variant: a read lock is taken, which does not wait for the senders.
RemoveReadLocked(s) ==
    /\ OwnerAt(s, "closing", "removed")
    /\ writer = s
    /\ streams' = streams \ {s}
    /\ writer' = NoStream
    /\ UNCHANGED <<indexVars, channel, audience>>

Remove(s) ==
    /\ OwnerAt(s, "closing", "removed")
    /\ Locked(s)
    /\ streams' = streams \ {s}
    /\ writer' = NoStream
    /\ UNCHANGED <<indexVars, channel, audience>>

Unlink(s) ==
    /\ OwnerAt(s, "removed", "unlinked")
    /\ subscribers' = [t \in Timer |->
                          IF t \in timers[s] THEN subscribers[t] \ {s} ELSE subscribers[t]]
    /\ timers' = [timers EXCEPT ![s] = {}]
    /\ UNCHANGED <<streams, writer, channel, audience>>

CloseChannel(s) ==
    /\ OwnerAt(s, "unlinked", "closed")
    /\ UNCHANGED <<streams, indexVars, writer, channel, audience>>

GoOnOwning(s) == \/ Lock(s)
                 \/ NewStream(s)
                 \/ Receive(s)
                 \/ Remove(s)
                 \/ Unlink(s)
                 \/ CloseChannel(s)

OwnerFrame == UNCHANGED <<readers, senderVars, got>>

OwnerStep(s) == /\ \/ Open(s)
                   \/ \E ts \in SUBSET Timer : Subscribe(s, ts) \/ Unsubscribe(s, ts)
                   \/ Leave(s)
                   \/ GoOnOwning(s)
                /\ OwnerFrame

-----------------------------------------------------------------------------

Next == \/ \E p \in Sender : SenderStep(p)
        \/ \E s \in Stream : OwnerStep(s)

Spec == Init /\ [][Next]_vars

\* Goroutines run; a Go RWMutex lets the waiting readers in before the next
\* writer, its writers queue at a Mutex that starves nobody, and the senders
\* that wait for a channel are served in turn.  A loop that has not ended
\* receives what is in its channel.  Nobody has to send, to come or to leave.
Fairness == /\ \A p \in Sender : SF_vars(GoOnSending(p) /\ SenderFrame)
            /\ \A s \in Stream : SF_vars(GoOnOwning(s) /\ OwnerFrame)

FairSpec == Spec /\ Fairness

-----------------------------------------------------------------------------
(* Properties *)

\* The two indexes agree, and whoever has closed a stream has left no trace of
\* it in either: Close finds all subscriptions in the stream's own index.
Linked ==
    \A s \in Stream :
        /\ \A t \in Timer : s \in subscribers[t] <=> t \in timers[s]
        /\ owner[s] \in {"none", "opening", "unlinked", "closed"} => timers[s] = {}

\* No sender waits for a channel that may be closed under it: the send would
\* panic.
SendsToOpen == \A p \in Sender : target[p] # NoStream => owner[target[p]] \in {"open", "closing"}

\* An event reaches every stream that is subscribed from the call of Send to
\* its end, whatever other streams do meanwhile.
Delivered ==
    [][\A p \in Sender :
          pc[p] = "sending" /\ pc'[p] = "idle" =>
              \A s \in audience[p] : got[s][p] = sent[p]]_vars

\* A stream is sent the events of one sender in their order, and none twice.
InOrder ==
    [][\A s \in Stream :
          Len(channel'[s]) > Len(channel[s]) =>
              LET event == channel'[s][Len(channel'[s])] IN
              event.number > got[s][event.sender]]_vars

\* A sender waits for a stream that its owner is about to close, and the owner
\* for the sender.
Wedged == \E p \in Sender : /\ target[p] # NoStream
                            /\ owner[target[p]] = "closing"
                            /\ Len(channel[target[p]]) = Capacity

\* A Send ends, unless some sender and some owner wait for each other.
SendEnds == \A p \in Sender : pc[p] = "called" ~> pc[p] = "idle" \/ Wedged

\* So does NewStream, and so does a Close.
OpenAndCloseEnd ==
    \A s \in Stream : /\ owner[s] = "opening" ~> owner[s] # "opening" \/ Wedged
                      /\ owner[s] = "closing" ~> owner[s] = "closed" \/ Wedged
=============================================================================
