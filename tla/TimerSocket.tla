----------------------------- MODULE TimerSocket -----------------------------
(***************************************************************************)
(* A websocket of timerapi, internal/transport/ws/timersocket: the loop of *)
(* TimerWS, which owns an event stream and a notification stream and sends *)
(* to the client what comes out of them, and the goroutine that reads what *)
(* the client sends.  EventStream and NotificationStream have the insides  *)
(* of the two streams; here each is its channel and the lock that a sender *)
(* holds while it waits for room and that the loop needs to open and close *)
(* it.  One loop reads both: what stops one stream may stop the other.     *)
(*                                                                         *)
(* The events are about one timer, and every client is told of its end.    *)
(***************************************************************************)
EXTENDS Naturals, Sequences

CONSTANTS
    Socket,                \* the websockets
    Unreliable,            \* those whose client may stop reading, or be cut off
    EventCapacity,         \* capacity of an event stream, 20 in the code
    NotificationCapacity,  \* capacity of a notification stream, 10 in the code
    ReadLimit,             \* failed reads that make gorilla/websocket panic, 1000
    MaxFrames,             \* bound: frames that a client sends
    MaxEvents,             \* bound: events sent
    MaxNotifications       \* bound: notifications sent

ASSUME UnreliableAssumption == Unreliable \subseteq Socket
ASSUME BoundAssumption == /\ EventCapacity \in Nat
                          /\ NotificationCapacity \in Nat
                          /\ ReadLimit \in Nat \ {0, 1}
                          /\ MaxFrames \in Nat
                          /\ MaxEvents \in Nat
                          /\ MaxNotifications \in Nat

VARIABLES
    loop,        \* loop[s]: where TimerWS is
    reader,      \* reader[s]: where the goroutine of WSReadStream is
    held,        \* held[s]: the message that the goroutine hands to the loop
    cancelled,   \* cancelled[s]: the context was cancelled
    mu,          \* mu[s]: who may write to the connection
    conn,        \* conn[s]: the connection as the application finds it
    stalled,     \* stalled[s]: the client does not read
    inbox,       \* inbox[s]: the frames that the client has sent
    frames,      \* frames[s]: how many it has sent
    reads,       \* reads[s]: reads that have failed for good
    subscribed,  \* subscribed[s]: the event stream is subscribed to the timer
    events,      \* events[s]: how many events are in the stream
    notes,       \* notes[s]: how many notifications are in the stream
    eventTo,     \* the streams that a Send of an event, with the lock held, has to serve
    noteTo,      \* the same for a notification
    eventsSent, notesSent,
    panicked,    \* TRUE iff the process has ended
    asked        \* history: what the client wants, by the messages read so far

clientVars == <<conn, stalled, inbox, frames>>
readerVars == <<reader, held, cancelled, reads, asked>>
senderVars == <<eventTo, noteTo, eventsSent, notesSent>>
streamVars == <<events, notes>>
vars == <<loop, mu, subscribed, panicked, clientVars, readerVars, senderVars, streamVars>>

Messages == {"subscribe", "unsubscribe", "other"}
Frames == Messages \cup {"malformed", "close"}

\* Variant: the streams are closed in the order in which they are opened.
DeferredInOrder == <<"close events", "close notifications", "close connection", "done">>

\* The deferred calls, in the order in which they run.
Deferred == <<"close notifications", "close events", "close connection", "done">>

Opening == {"none", "new events", "new notifications"}
Running == {"select", "write", "writing"}
Closing == {Deferred[i] : i \in 1..4}

TypeOK == /\ loop \in [Socket -> Opening \cup Running \cup Closing]
          /\ reader \in [Socket -> {"none", "check", "reading", "handing", "closing",
                                    "answering", "ended"}]
          /\ held \in [Socket -> Messages]
          /\ cancelled \in [Socket -> BOOLEAN]
          /\ mu \in [Socket -> {"free", "loop", "reader"}]
          /\ conn \in [Socket -> {"open", "eof", "broken", "closed"}]
          /\ stalled \in [Socket -> BOOLEAN]
          /\ inbox \in [Socket -> Seq(Frames)]
          /\ frames \in [Socket -> Nat]
          /\ reads \in [Socket -> 0..ReadLimit]
          /\ subscribed \in [Socket -> BOOLEAN]
          /\ events \in [Socket -> 0..EventCapacity]
          /\ notes \in [Socket -> 0..NotificationCapacity]
          /\ eventTo \subseteq Socket
          /\ noteTo \subseteq Socket
          /\ eventsSent \in Nat
          /\ notesSent \in Nat
          /\ panicked \in BOOLEAN
          /\ asked \in [Socket -> BOOLEAN]

Init == /\ loop = [s \in Socket |-> "none"]
        /\ reader = [s \in Socket |-> "none"]
        /\ held = [s \in Socket |-> "other"]
        /\ cancelled = [s \in Socket |-> FALSE]
        /\ mu = [s \in Socket |-> "free"]
        /\ conn = [s \in Socket |-> "open"]
        /\ stalled = [s \in Socket |-> FALSE]
        /\ inbox = [s \in Socket |-> <<>>]
        /\ frames = [s \in Socket |-> 0]
        /\ reads = [s \in Socket |-> 0]
        /\ subscribed = [s \in Socket |-> FALSE]
        /\ events = [s \in Socket |-> 0]
        /\ notes = [s \in Socket |-> 0]
        /\ eventTo = {}
        /\ noteTo = {}
        /\ eventsSent = 0
        /\ notesSent = 0
        /\ panicked = FALSE
        /\ asked = [s \in Socket |-> FALSE]

-----------------------------------------------------------------------------
(* TimerWS *)

LoopAt(s, from, to) == loop[s] = from /\ loop' = [loop EXCEPT ![s] = to]

Upgrade(s) ==
    /\ LoopAt(s, "none", "new events")
    /\ UNCHANGED <<mu, subscribed, readerVars, streamVars, conn>>

\* The write lock of the event streams: nobody may be sending.
NewStream(s) ==
    /\ LoopAt(s, "new events", "new notifications")
    /\ eventTo = {}
    /\ UNCHANGED <<mu, subscribed, readerVars, streamVars, conn>>

\* The mutex of the notifications; then the reader is started.
NewUserStream(s) ==
    /\ LoopAt(s, "new notifications", "select")
    /\ noteTo = {}
    /\ reader' = [reader EXCEPT ![s] = "check"]
    /\ UNCHANGED <<mu, subscribed, held, cancelled, reads, asked, streamVars, conn>>

\* Variant: only the context ends the loop.
LeaveIfCancelled(s) ==
    /\ LoopAt(s, "select", Deferred[1])
    /\ cancelled[s]
    /\ UNCHANGED <<mu, subscribed, readerVars, streamVars, conn>>

\* The context is done, or the reader has closed its channel.
Leave(s) ==
    /\ LoopAt(s, "select", Deferred[1])
    /\ cancelled[s] \/ reader[s] = "ended"
    /\ UNCHANGED <<mu, subscribed, readerVars, streamVars, conn>>

\* What the client's wish b is after message m.
Applied(m, b) == m = "subscribe" \/ (m = "other" /\ b)

TakeMessage(s) ==
    /\ LoopAt(s, "select", "select")
    /\ reader[s] = "handing"
    /\ reader' = [reader EXCEPT ![s] = "check"]
    /\ subscribed' = [subscribed EXCEPT ![s] = Applied(held[s], @)]
    /\ UNCHANGED <<mu, held, cancelled, reads, asked, streamVars, conn>>

TakeEvent(s) ==
    /\ LoopAt(s, "select", "write")
    /\ events[s] > 0
    /\ events' = [events EXCEPT ![s] = @ - 1]
    /\ UNCHANGED <<mu, subscribed, readerVars, notes, conn>>

TakeNotification(s) ==
    /\ LoopAt(s, "select", "write")
    /\ notes[s] > 0
    /\ notes' = [notes EXCEPT ![s] = @ - 1]
    /\ UNCHANGED <<mu, subscribed, readerVars, events, conn>>

LockToWrite(s) ==
    /\ LoopAt(s, "write", "writing")
    /\ mu[s] = "free"
    /\ mu' = [mu EXCEPT ![s] = "loop"]
    /\ UNCHANGED <<subscribed, readerVars, streamVars, conn>>

\* No deadline is set: a write waits while the client does not read.
Writes(s) == ~stalled[s] \/ conn[s] # "open"

\* Variant: a write that fails ends the loop.
WriteOrLeave(s) ==
    /\ LoopAt(s, "writing", IF conn[s] = "open" THEN "select" ELSE Deferred[1])
    /\ Writes(s)
    /\ mu' = [mu EXCEPT ![s] = "free"]
    /\ UNCHANGED <<subscribed, readerVars, streamVars, conn>>

\* An error is ignored.
Write(s) ==
    /\ LoopAt(s, "writing", "select")
    /\ Writes(s)
    /\ mu' = [mu EXCEPT ![s] = "free"]
    /\ UNCHANGED <<subscribed, readerVars, streamVars, conn>>

\* The i-th deferred call has returned.
Returns(s, i) == LoopAt(s, Deferred[i], Deferred[i + 1])

CloseNotifications(s) ==
    /\ loop[s] = "close notifications"
    /\ \E i \in 1..3 : Returns(s, i)
    /\ noteTo = {}
    /\ UNCHANGED <<mu, subscribed, readerVars, streamVars, conn>>

CloseEvents(s) ==
    /\ loop[s] = "close events"
    /\ \E i \in 1..3 : Returns(s, i)
    /\ eventTo = {}
    /\ subscribed' = [subscribed EXCEPT ![s] = FALSE]
    /\ UNCHANGED <<mu, readerVars, streamVars, conn>>

CloseConnection(s) ==
    /\ loop[s] = "close connection"
    /\ \E i \in 1..3 : Returns(s, i)
    /\ conn' = [conn EXCEPT ![s] = "closed"]
    /\ UNCHANGED <<mu, subscribed, readerVars, streamVars>>

LoopStep(s) ==
    /\ ~panicked
    /\ \/ Upgrade(s) \/ NewStream(s) \/ NewUserStream(s)
       \/ Leave(s) \/ TakeMessage(s) \/ TakeEvent(s) \/ TakeNotification(s)
       \/ LockToWrite(s) \/ Write(s)
       \/ CloseNotifications(s) \/ CloseEvents(s) \/ CloseConnection(s)
    /\ UNCHANGED <<stalled, inbox, frames, senderVars, panicked>>

-----------------------------------------------------------------------------
(* WSReadStream, and the close handler, which runs inside of ReadJSON *)

ReaderAt(s, from, to) == reader[s] = from /\ reader' = [reader EXCEPT ![s] = to]

\* Variant: the context is not looked at.
CheckNothing(s) ==
    /\ ReaderAt(s, "check", "reading")
    /\ UNCHANGED <<mu, held, cancelled, inbox, reads, panicked, asked>>

\* Ending closes the channel to the loop.
Check(s) ==
    /\ ReaderAt(s, "check", IF cancelled[s] THEN "ended" ELSE "reading")
    /\ UNCHANGED <<mu, held, cancelled, inbox, reads, panicked, asked>>

NextFrame(s) == /\ conn[s] \in {"open", "eof"}
                /\ reads[s] = 0
                /\ inbox[s] # <<>>
                /\ inbox' = [inbox EXCEPT ![s] = Tail(@)]

\* Variant: the loop is not waited for when it is busy.
ReadMessageOrDrop(s) ==
    /\ ReaderAt(s, "reading", IF loop[s] = "select" THEN "handing" ELSE "check")
    /\ NextFrame(s)
    /\ Head(inbox[s]) \in Messages
    /\ held' = [held EXCEPT ![s] = Head(inbox[s])]
    /\ asked' = [asked EXCEPT ![s] = Applied(Head(inbox[s]), @)]
    /\ UNCHANGED <<mu, cancelled, reads, panicked>>

\* The channel to the loop has no room: the goroutine waits until it is taken.
ReadMessage(s) ==
    /\ ReaderAt(s, "reading", "handing")
    /\ NextFrame(s)
    /\ Head(inbox[s]) \in Messages
    /\ held' = [held EXCEPT ![s] = Head(inbox[s])]
    /\ asked' = [asked EXCEPT ![s] = Applied(Head(inbox[s]), @)]
    /\ UNCHANGED <<mu, cancelled, reads, panicked>>

\* What is not JSON, or has an id that is none, is passed over.
ReadMalformed(s) ==
    /\ ReaderAt(s, "reading", "check")
    /\ NextFrame(s)
    /\ Head(inbox[s]) = "malformed"
    /\ UNCHANGED <<mu, held, cancelled, reads, panicked, asked>>

ReadClose(s) ==
    /\ ReaderAt(s, "reading", "closing")
    /\ NextFrame(s)
    /\ Head(inbox[s]) = "close"
    /\ UNCHANGED <<mu, held, cancelled, reads, panicked, asked>>

\* Variant: the mutex is not taken.
AnswerUnlocked(s) ==
    /\ ReaderAt(s, "closing", "answering")
    /\ mu' = [mu EXCEPT ![s] = "reader"]
    /\ UNCHANGED <<held, cancelled, inbox, reads, panicked, asked>>

LockToAnswer(s) ==
    /\ ReaderAt(s, "closing", "answering")
    /\ mu[s] = "free"
    /\ mu' = [mu EXCEPT ![s] = "reader"]
    /\ UNCHANGED <<held, cancelled, inbox, reads, panicked, asked>>

\* The handler passes the code of the frame for the type of its message, which
\* WriteMessage refuses; ReadJSON returns that error and not a CloseError.
Answer(s) ==
    /\ ReaderAt(s, "answering", "check")
    /\ mu' = [mu EXCEPT ![s] = "free"]
    /\ cancelled' = [cancelled EXCEPT ![s] = TRUE]
    /\ reads' = [reads EXCEPT ![s] = 1]
    /\ UNCHANGED <<held, inbox, panicked, asked>>

\* The end of the connection is a CloseError.
ReadEof(s) ==
    /\ ReaderAt(s, "reading", "ended")
    /\ conn[s] = "eof"
    /\ reads[s] = 0
    /\ inbox[s] = <<>>
    /\ UNCHANGED <<mu, held, cancelled, inbox, reads, panicked, asked>>

\* Any other error is tried again, until gorilla/websocket panics.
ReadFails(s) ==
    /\ ReaderAt(s, "reading", "check")
    /\ conn[s] \in {"broken", "closed"} \/ reads[s] > 0
    /\ reads' = [reads EXCEPT ![s] = @ + 1]
    /\ panicked' = (reads'[s] = ReadLimit)
    /\ UNCHANGED <<mu, held, cancelled, inbox, asked>>

ReaderStep(s) ==
    /\ ~panicked
    /\ \/ Check(s) \/ ReadMessage(s) \/ ReadMalformed(s) \/ ReadEof(s) \/ ReadFails(s)
       \/ ReadClose(s) \/ LockToAnswer(s) \/ Answer(s)
    /\ UNCHANGED <<loop, subscribed, conn, stalled, frames, senderVars, streamVars>>

-----------------------------------------------------------------------------
(* The client *)

Send(s, f) ==
    /\ frames[s] < MaxFrames
    /\ \A i \in DOMAIN inbox[s] : inbox[s][i] # "close"
    /\ frames' = [frames EXCEPT ![s] = @ + 1]
    /\ inbox' = [inbox EXCEPT ![s] = Append(@, f)]
    /\ UNCHANGED <<conn, stalled>>

Hangup(s) ==
    /\ conn' = [conn EXCEPT ![s] = "eof"]
    /\ UNCHANGED <<stalled, inbox, frames>>

Break(s) ==
    /\ s \in Unreliable
    /\ conn' = [conn EXCEPT ![s] = "broken"]
    /\ UNCHANGED <<stalled, inbox, frames>>

Stall(s) ==
    /\ s \in Unreliable
    /\ stalled' = [stalled EXCEPT ![s] = TRUE]
    /\ UNCHANGED <<conn, inbox, frames>>

ClientStep(s) ==
    /\ ~panicked
    /\ loop[s] # "none" /\ conn[s] = "open"
    /\ (\E f \in Frames : Send(s, f)) \/ Hangup(s) \/ Break(s) \/ Stall(s)
    /\ UNCHANGED <<loop, mu, subscribed, panicked, readerVars, senderVars, streamVars>>

-----------------------------------------------------------------------------
(* The senders: a request with its event, and a goroutine of a notification *)

\* Whether the loop of s is not beyond the deferred call.
NotBeyond(s, call) ==
    \/ loop[s] \in Running
    \/ \E i \in 1..3 : \E j \in i..3 : loop[s] = Deferred[i] /\ call = Deferred[j]

SendEvent ==
    /\ eventTo = {}
    /\ eventsSent < MaxEvents
    /\ eventsSent' = eventsSent + 1
    /\ eventTo' = {s \in Socket : NotBeyond(s, "close events") /\ subscribed[s]}
    /\ UNCHANGED <<noteTo, notesSent, streamVars>>

DeliverEvent(s) ==
    /\ s \in eventTo
    /\ events[s] < EventCapacity
    /\ events' = [events EXCEPT ![s] = @ + 1]
    /\ eventTo' = eventTo \ {s}
    /\ UNCHANGED <<noteTo, eventsSent, notesSent, notes>>

SendNotification ==
    /\ noteTo = {}
    /\ notesSent < MaxNotifications
    /\ notesSent' = notesSent + 1
    /\ noteTo' = {s \in Socket : NotBeyond(s, "close notifications")}
    /\ UNCHANGED <<eventTo, eventsSent, streamVars>>

DeliverNotification(s) ==
    /\ s \in noteTo
    /\ notes[s] < NotificationCapacity
    /\ notes' = [notes EXCEPT ![s] = @ + 1]
    /\ noteTo' = noteTo \ {s}
    /\ UNCHANGED <<eventTo, eventsSent, notesSent, events>>

Others == <<loop, mu, subscribed, panicked, clientVars, readerVars>>

EventDelivery == /\ ~panicked
                 /\ \E s \in Socket : DeliverEvent(s)
                 /\ UNCHANGED Others

NoteDelivery == /\ ~panicked
                /\ \E s \in Socket : DeliverNotification(s)
                /\ UNCHANGED Others

SenderStep == \/ ~panicked /\ UNCHANGED Others /\ (SendEvent \/ SendNotification)
              \/ EventDelivery \/ NoteDelivery

-----------------------------------------------------------------------------
Next == \/ \E s \in Socket : LoopStep(s) \/ ReaderStep(s) \/ ClientStep(s)
        \/ SenderStep

Spec == Init /\ [][Next]_vars

\* Goroutines run, and a goroutine that waits for a lock gets it; a client need
\* not do anything.
Fairness == /\ \A s \in Socket : SF_vars(LoopStep(s)) /\ SF_vars(ReaderStep(s))
            /\ SF_vars(EventDelivery) /\ SF_vars(NoteDelivery)

FairSpec == Spec /\ Fairness

-----------------------------------------------------------------------------
(* Properties *)

\* The loop and the close handler, which runs in the other goroutine, never
\* write to the connection at the same time: gorilla/websocket allows one
\* writer (socket.go, mu).
OneWriter == \A s \in Socket : ~(loop[s] = "writing" /\ reader[s] = "answering")

\* What the event stream is subscribed to follows the client's messages one by
\* one: none is lost or overtaken between the goroutine that reads and the
\* loop, however busy the loop is, up to the moment when it leaves.
FollowsClient ==
    \A s \in Socket : loop[s] \in Running /\ reader[s] # "handing" => (subscribed[s] <=> asked[s])

\* When the loop has left, the goroutine that reads has ended or is about to:
\* it is not left waiting for somebody to take its message, nor for a frame of
\* a connection that is about to be closed (WSReadStream).
ReaderNotLeft ==
    \A s \in Socket : loop[s] \in Closing =>
        reader[s] = "ended" \/ (reader[s] = "check" /\ cancelled[s])

\* Reading after an error, which ends in a panic of the whole application,
\* happens on a connection that was cut off, and never after a close frame or
\* because the loop has closed the connection.
RereadsOnlyBroken ==
    /\ \A s \in Socket : reads[s] > 1 => conn[s] = "broken"
    /\ panicked => \E s \in Socket : conn[s] = "broken"

\* A loop waits for the mutex of the notifications while their sender waits,
\* with the mutex, for room in the loop's own channel.
NotesWedged ==
    \E s \in noteTo : loop[s] = "close notifications" /\ notes[s] = NotificationCapacity

\* The same with the lock of the events.
EventsWedged ==
    \E s \in eventTo : loop[s] = "close events" /\ events[s] = EventCapacity

SomeStalled == \E s \in Socket : stalled[s]

\* The notifications go on when the events do not: a notification is put into
\* all streams unless a client does not read, the application has panicked, or
\* the notifications are wedged themselves.  That the events are wedged is no
\* reason: the notification stream is closed first (the order of the defers).
NotificationsGoOn == noteTo # {} ~> noteTo = {} \/ NotesWedged \/ SomeStalled \/ panicked

\* When a client closes or hangs up, both streams and the connection are closed
\* and both goroutines end, with the same exceptions and when the events are
\* wedged.
SocketEnds ==
    \A s \in Socket : conn[s] = "eof" \/ reader[s] = "closing" ~>
        \/ loop[s] = "done" /\ reader[s] = "ended"
        \/ NotesWedged \/ EventsWedged \/ SomeStalled \/ panicked
=============================================================================
