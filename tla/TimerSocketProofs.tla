-------------------------- MODULE TimerSocketProofs --------------------------
(***************************************************************************)
(* Proofs about TimerSocket, for any number of websockets and any limits.  *)
(***************************************************************************)
EXTENDS TimerSocket, TLAPS

\* The two goroutines of one websocket.
Sound(s) ==
    /\ mu[s] = "loop" <=> loop[s] = "writing"
    /\ mu[s] = "reader" <=> reader[s] = "answering"
    /\ reader[s] = "none" <=> loop[s] \in Opening
    /\ cancelled[s] => reader[s] \in {"check", "ended"}
    /\ loop[s] \in Closing => reader[s] = "ended" \/ (reader[s] = "check" /\ cancelled[s])
    /\ conn[s] = "closed" => loop[s] = "done"
    /\ ~panicked => reads[s] < ReadLimit

\* What the client wants is what the stream is subscribed to, but for the
\* message that is being handed over.
Following(s) ==
    loop[s] \notin Closing =>
        /\ reader[s] = "handing" => (asked[s] <=> Applied(held[s], subscribed[s]))
        /\ reader[s] # "handing" => (asked[s] <=> subscribed[s])

\* A read has failed because of a close frame, once, or of a broken connection.
Failing(s) ==
    reads[s] > 0 =>
        \/ cancelled[s] /\ reads[s] = 1
        \/ ~cancelled[s] /\ conn[s] = "broken" /\ reader[s] \in {"check", "reading"}

Panic == panicked => \E s \in Socket : conn[s] = "broken"

IInv == /\ TypeOK
        /\ \A s \in Socket : Sound(s) /\ Following(s) /\ Failing(s)
        /\ Panic

-----------------------------------------------------------------------------

\* The labels of TimerWS, and which follows which at the end.
LEMMA Labels ==
    /\ Closing = {"close notifications", "close events", "close connection", "done"}
    /\ Deferred[1] = "close notifications"
    /\ Deferred[2] = "close events"
    /\ Deferred[3] = "close connection"
    /\ Deferred[4] = "done"
<1>1. /\ Deferred[1] = "close notifications"
      /\ Deferred[2] = "close events"
      /\ Deferred[3] = "close connection"
      /\ Deferred[4] = "done"
  BY DEF Deferred
<1>2. Closing = {Deferred[1], Deferred[2], Deferred[3], Deferred[4]}
  <2>1. 1..4 = {1, 2, 3, 4}  OBVIOUS
  <2>q. QED  BY <2>1, Zenon DEF Closing
<1>q. QED  BY <1>1, <1>2

LEMMA Returning ==
    ASSUME NEW s \in Socket
    PROVE  /\ CloseNotifications(s) => LoopAt(s, "close notifications", "close events")
           /\ CloseEvents(s) => LoopAt(s, "close events", "close connection")
           /\ CloseConnection(s) => LoopAt(s, "close connection", "done")
<1>1. ASSUME NEW i \in 1..3, Returns(s, i)
      PROVE  \/ LoopAt(s, "close notifications", "close events")
             \/ LoopAt(s, "close events", "close connection")
             \/ LoopAt(s, "close connection", "done")
  <2>1. CASE i = 1
    <3>1. LoopAt(s, Deferred[1], Deferred[2])  BY <1>1, <2>1 DEF Returns
    <3>q. QED  BY <3>1, Labels
  <2>2. CASE i = 2
    <3>1. LoopAt(s, Deferred[2], Deferred[3])  BY <1>1, <2>2 DEF Returns
    <3>q. QED  BY <3>1, Labels
  <2>3. CASE i = 3
    <3>1. LoopAt(s, Deferred[3], Deferred[4])  BY <1>1, <2>3 DEF Returns
    <3>q. QED  BY <3>1, Labels
  <2>4. i = 1 \/ i = 2 \/ i = 3  OBVIOUS
  <2>q. QED  BY <2>1, <2>2, <2>3, <2>4, Zenon
<1>q. QED  BY <1>1 DEF CloseNotifications, CloseEvents, CloseConnection, LoopAt

LEMMA InitOK == Init => IInv
<1> SUFFICES ASSUME Init PROVE IInv
  OBVIOUS
<1>1. TypeOK
  <2>1. /\ loop \in [Socket -> Opening \cup Running \cup Closing]
        /\ reader \in [Socket -> {"none", "check", "reading", "handing", "closing",
                                  "answering", "ended"}]
        /\ held \in [Socket -> Messages]
        /\ mu \in [Socket -> {"free", "loop", "reader"}]
        /\ conn \in [Socket -> {"open", "eof", "broken", "closed"}]
    BY DEF Init, Opening, Messages
  <2>2. /\ cancelled \in [Socket -> BOOLEAN] /\ stalled \in [Socket -> BOOLEAN]
        /\ subscribed \in [Socket -> BOOLEAN] /\ asked \in [Socket -> BOOLEAN]
        /\ panicked \in BOOLEAN
    BY DEF Init
  <2>3. /\ frames \in [Socket -> Nat] /\ reads \in [Socket -> 0..ReadLimit]
        /\ events \in [Socket -> 0..EventCapacity]
        /\ notes \in [Socket -> 0..NotificationCapacity]
        /\ eventsSent \in Nat /\ notesSent \in Nat
    BY BoundAssumption DEF Init
  <2>4. inbox \in [Socket -> Seq(Frames)]
    BY DEF Init
  <2>q. QED  BY <2>1, <2>2, <2>3, <2>4 DEF TypeOK, Init
<1>2. ASSUME NEW s \in Socket  PROVE Sound(s) /\ Following(s) /\ Failing(s)
  <2>1. /\ loop[s] = "none" /\ reader[s] = "none" /\ mu[s] = "free" /\ conn[s] = "open"
        /\ reads[s] = 0
    BY DEF Init
  <2>2. ~cancelled[s] /\ ~asked[s] /\ ~subscribed[s] /\ ~panicked
    BY DEF Init
  <2>3. 0 < ReadLimit  BY BoundAssumption
  <2>4. Sound(s)
    <3>1. loop[s] \in Opening /\ loop[s] \notin Closing  BY <2>1, Labels DEF Opening
    <3>q. QED  BY <2>1, <2>2, <2>3, <3>1 DEF Sound
  <2>5. Following(s)  BY <2>1, <2>2 DEF Following
  <2>6. Failing(s)  BY <2>1 DEF Failing
  <2>q. QED  BY <2>4, <2>5, <2>6
<1>3. Panic  BY DEF Init, Panic
<1>q. QED  BY <1>1, <1>2, <1>3 DEF IInv

-----------------------------------------------------------------------------
(* TimerWS *)

LEMMA LoopTypes == ASSUME TypeOK, NEW s \in Socket, LoopStep(s) PROVE TypeOK'
<1>1. loop' \in [Socket -> Opening \cup Running \cup Closing]
  <2>1. \E l \in Opening \cup Running \cup Closing : loop' = [loop EXCEPT ![s] = l]
    BY Labels, Returning DEF LoopStep, LoopAt, Upgrade, NewStream, NewUserStream, Leave,
       TakeMessage, TakeEvent, TakeNotification, LockToWrite, Write, Opening, Running
  <2>q. QED  BY <2>1 DEF TypeOK
<1>2. reader' \in [Socket -> {"none", "check", "reading", "handing", "closing",
                              "answering", "ended"}]
  BY DEF TypeOK, LoopStep, LoopAt, Upgrade, NewStream, NewUserStream, Leave, TakeMessage,
     TakeEvent, TakeNotification, LockToWrite, Write, CloseNotifications, CloseEvents,
     CloseConnection, readerVars
<1>3. /\ mu' \in [Socket -> {"free", "loop", "reader"}]
      /\ subscribed' \in [Socket -> BOOLEAN]
      /\ conn' \in [Socket -> {"open", "eof", "broken", "closed"}]
  BY DEF TypeOK, LoopStep, Upgrade, NewStream, NewUserStream, Leave, TakeMessage, Applied,
     TakeEvent, TakeNotification, LockToWrite, Write, CloseNotifications, CloseEvents,
     CloseConnection
<1>4. /\ events' \in [Socket -> 0..EventCapacity]
      /\ notes' \in [Socket -> 0..NotificationCapacity]
  <2>1. CASE TakeEvent(s)
    BY <2>1, BoundAssumption DEF TypeOK, TakeEvent
  <2>2. CASE TakeNotification(s)
    BY <2>2, BoundAssumption DEF TypeOK, TakeNotification
  <2>3. CASE UNCHANGED streamVars
    BY <2>3 DEF TypeOK, streamVars
  <2>q. QED
    BY <2>1, <2>2, <2>3 DEF LoopStep, Upgrade, NewStream, NewUserStream, Leave, TakeMessage,
       LockToWrite, Write, CloseNotifications, CloseEvents, CloseConnection
<1>5. UNCHANGED <<held, cancelled, reads, asked, stalled, inbox, frames, senderVars, panicked>>
  BY DEF LoopStep, Upgrade, NewStream, NewUserStream, Leave, TakeMessage,
     TakeEvent, TakeNotification, LockToWrite, Write, CloseNotifications, CloseEvents,
     CloseConnection, readerVars
<1>q. QED  BY <1>1, <1>2, <1>3, <1>4, <1>5 DEF TypeOK, senderVars

LEMMA LoopSound == ASSUME IInv, NEW s \in Socket, LoopStep(s) PROVE IInv'
<1>1. TypeOK'  BY LoopTypes DEF IInv
<1>2. Panic'
  BY DEF IInv, Panic, LoopStep
<1>3. ASSUME NEW u \in Socket, u # s
      PROVE  Sound(u)' /\ Following(u)' /\ Failing(u)'
  <2>1. /\ loop'[u] = loop[u] /\ reader'[u] = reader[u] /\ mu'[u] = mu[u]
        /\ subscribed'[u] = subscribed[u] /\ conn'[u] = conn[u]
        /\ UNCHANGED <<held, cancelled, reads, asked, panicked>>
    BY <1>3 DEF IInv, TypeOK, LoopStep, LoopAt, Upgrade, NewStream, NewUserStream, Leave,
       TakeMessage, TakeEvent, TakeNotification, LockToWrite, Write, CloseNotifications,
       CloseEvents, CloseConnection, Returns, readerVars
  <2>q. QED  BY <2>1 DEF IInv, Sound, Following, Failing
<1>4. Sound(s)' /\ Following(s)' /\ Failing(s)'
  <2>0. TypeOK /\ Sound(s) /\ Following(s) /\ Failing(s)  BY DEF IInv
  <2>1. CASE Upgrade(s) \/ NewStream(s)
    <3>1. /\ loop[s] \in {"none", "new events"}
          /\ loop'[s] \in {"new events", "new notifications"}
          /\ UNCHANGED <<mu, reader, held, cancelled, reads, asked, subscribed, conn, panicked>>
      BY <2>0, <2>1 DEF LoopStep, Upgrade, NewStream, LoopAt, TypeOK, readerVars
    <3>2. /\ loop[s] \in Opening /\ loop'[s] \in Opening
          /\ loop[s] \notin Closing /\ loop'[s] \notin Closing
          /\ loop[s] \notin {"writing", "done"} /\ loop'[s] \notin {"writing", "done"}
      BY <3>1, Labels DEF Opening
    <3>q. QED  BY <2>0, <3>1, <3>2 DEF Sound, Following, Failing
  <2>2. CASE NewUserStream(s)
    <3>1. /\ loop[s] = "new notifications" /\ loop'[s] = "select" /\ reader'[s] = "check"
          /\ UNCHANGED <<mu, held, cancelled, reads, asked, subscribed, conn, panicked>>
      BY <2>0, <2>2 DEF LoopStep, NewUserStream, LoopAt, TypeOK
    <3>2. /\ loop[s] \in Opening /\ loop'[s] \notin Opening
          /\ loop[s] \notin Closing /\ loop'[s] \notin Closing
          /\ loop[s] \notin {"writing", "done"} /\ loop'[s] \notin {"writing", "done"}
      BY <3>1, Labels DEF Opening
    <3>q. QED  BY <2>0, <3>1, <3>2 DEF Sound, Following, Failing
  <2>3. CASE Leave(s)
    <3>1. /\ loop[s] = "select" /\ loop'[s] = "close notifications"
          /\ cancelled[s] \/ reader[s] = "ended"
          /\ UNCHANGED <<mu, reader, held, cancelled, reads, asked, subscribed, conn, panicked>>
      BY <2>0, <2>3, Labels DEF LoopStep, Leave, LoopAt, TypeOK, readerVars
    <3>2. /\ loop[s] \notin Opening /\ loop'[s] \notin Opening
          /\ loop[s] \notin Closing /\ loop'[s] \in Closing
          /\ loop[s] \notin {"writing", "done"} /\ loop'[s] \notin {"writing", "done"}
      BY <3>1, Labels DEF Opening
    <3>q. QED  BY <2>0, <3>1, <3>2 DEF Sound, Following, Failing
  <2>4. CASE TakeMessage(s)
    BY <2>0, <2>4, Labels DEF LoopStep, TakeMessage, LoopAt, TypeOK, Sound, Following, Failing,
       Opening
  <2>5. CASE TakeEvent(s) \/ TakeNotification(s)
    BY <2>0, <2>5, Labels DEF LoopStep, TakeEvent, TakeNotification, LoopAt, TypeOK, Sound,
       Following, Failing, Opening, readerVars
  <2>6. CASE LockToWrite(s) \/ Write(s)
    <3>1. /\ loop[s] \in {"write", "writing"} /\ loop'[s] \in {"writing", "select"}
          /\ loop[s] = "write" => mu[s] = "free" /\ mu'[s] = "loop" /\ loop'[s] = "writing"
          /\ loop[s] = "writing" => mu'[s] = "free" /\ loop'[s] = "select"
          /\ UNCHANGED <<reader, held, cancelled, reads, asked, subscribed, conn, panicked>>
      BY <2>0, <2>6 DEF LoopStep, LockToWrite, Write, LoopAt, TypeOK, readerVars
    <3>2. /\ loop[s] \notin Closing /\ loop'[s] \notin Closing
          /\ loop[s] \notin Opening /\ loop'[s] \notin Opening /\ loop'[s] # "done"
          /\ loop[s] # "done"
      BY <3>1, Labels DEF Opening
    <3>3. mu'[s] = "loop" <=> loop'[s] = "writing"  BY <3>1
    <3>4. mu'[s] = "reader" <=> reader'[s] = "answering"  BY <2>0, <3>1 DEF Sound
    <3>q. QED  BY <2>0, <3>1, <3>2, <3>3, <3>4 DEF Sound, Following, Failing
  <2>7. CASE CloseNotifications(s) \/ CloseEvents(s) \/ CloseConnection(s)
    <3>1. /\ loop[s] \in Closing /\ loop'[s] \in Closing
          /\ loop[s] # "done" /\ loop'[s] # "writing" /\ loop[s] # "writing"
      <4>1. \/ LoopAt(s, "close notifications", "close events")
            \/ LoopAt(s, "close events", "close connection")
            \/ LoopAt(s, "close connection", "done")
        BY <2>7, Returning
      <4>2. \/ loop[s] = "close notifications" /\ loop'[s] = "close events"
            \/ loop[s] = "close events" /\ loop'[s] = "close connection"
            \/ loop[s] = "close connection" /\ loop'[s] = "done"
        BY <2>0, <4>1 DEF LoopAt, TypeOK
      <4>q. QED  BY <4>2, Labels
    <3>2. UNCHANGED <<mu, reader, held, cancelled, reads, asked, panicked>>
      BY <2>7 DEF LoopStep, CloseNotifications, CloseEvents, CloseConnection, readerVars
    <3>3. conn'[s] = conn[s] \/ (conn'[s] = "closed" /\ loop'[s] = "done")
      <4>1. CASE CloseNotifications(s) \/ CloseEvents(s)
        BY <4>1 DEF CloseNotifications, CloseEvents
      <4>2. CASE CloseConnection(s)
        <5>1. LoopAt(s, "close connection", "done")  BY <4>2, Returning
        <5>2. conn' = [conn EXCEPT ![s] = "closed"]  BY <4>2 DEF CloseConnection
        <5>q. QED  BY <2>0, <5>1, <5>2 DEF LoopAt, TypeOK
      <4>q. QED  BY <2>7, <4>1, <4>2
    <3>4. loop[s] \notin Opening /\ loop'[s] \notin Opening
      BY <3>1, Labels DEF Opening
    <3>q. QED  BY <2>0, <3>1, <3>2, <3>3, <3>4 DEF Sound, Following, Failing
  <2>q. QED  BY <2>1, <2>2, <2>3, <2>4, <2>5, <2>6, <2>7 DEF LoopStep
<1>q. QED  BY <1>1, <1>2, <1>3, <1>4 DEF IInv

-----------------------------------------------------------------------------
(* WSReadStream *)

LEMMA ReaderTypes ==
    ASSUME TypeOK, NEW s \in Socket, Sound(s), ReaderStep(s)
    PROVE  TypeOK'
<1>0. ReadLimit \in Nat \ {0, 1}  BY BoundAssumption
<1>1. reader' \in [Socket -> {"none", "check", "reading", "handing", "closing",
                              "answering", "ended"}]
  <2>1. \E l \in {"check", "reading", "handing", "closing", "answering", "ended"} :
           reader' = [reader EXCEPT ![s] = l]
    BY DEF ReaderStep, ReaderAt, Check, ReadMessage, ReadMalformed, ReadClose, LockToAnswer,
       Answer, ReadEof, ReadFails
  <2>q. QED  BY <2>1 DEF TypeOK
<1>2. /\ mu' \in [Socket -> {"free", "loop", "reader"}]
      /\ cancelled' \in [Socket -> BOOLEAN]
      /\ held' \in [Socket -> Messages]
      /\ asked' \in [Socket -> BOOLEAN]
  BY DEF TypeOK, ReaderStep, Check, ReadMessage, ReadMalformed, ReadClose, Applied,
     LockToAnswer, Answer, ReadEof, ReadFails
<1>3. inbox' \in [Socket -> Seq(Frames)]
  <2>1. inbox' = inbox \/ (inbox[s] # <<>> /\ inbox' = [inbox EXCEPT ![s] = Tail(@)])
    BY DEF ReaderStep, Check, ReadMessage, ReadMalformed, ReadClose, NextFrame,
       LockToAnswer, Answer, ReadEof, ReadFails
  <2>2. inbox[s] # <<>> => Tail(inbox[s]) \in Seq(Frames)
    BY DEF TypeOK
  <2>q. QED  BY <2>1, <2>2 DEF TypeOK
<1>4. reads' \in [Socket -> 0..ReadLimit] /\ panicked' \in BOOLEAN
  <2>1. CASE ReadFails(s)
    <3>1. reads[s] \in 0..ReadLimit /\ reads[s] < ReadLimit
      BY DEF TypeOK, Sound, ReaderStep
    <3>2. reads[s] + 1 \in 0..ReadLimit  BY <3>1, <1>0
    <3>q. QED  BY <2>1, <3>2 DEF ReadFails, TypeOK
  <2>2. CASE Answer(s)
    BY <2>2, <1>0 DEF Answer, TypeOK
  <2>3. CASE UNCHANGED <<reads, panicked>>
    BY <2>3 DEF TypeOK
  <2>q. QED
    BY <2>1, <2>2, <2>3 DEF ReaderStep, Check, ReadMessage, ReadMalformed, ReadClose,
       LockToAnswer, ReadEof
<1>5. UNCHANGED <<loop, subscribed, conn, stalled, frames, senderVars, streamVars>>
  BY DEF ReaderStep
<1>q. QED  BY <1>1, <1>2, <1>3, <1>4, <1>5 DEF TypeOK, senderVars, streamVars

LEMMA ReaderSound == ASSUME IInv, NEW s \in Socket, ReaderStep(s) PROVE IInv'
<1>0. TypeOK /\ Sound(s) /\ Following(s) /\ Failing(s) /\ ReadLimit \in Nat \ {0, 1}
  BY BoundAssumption DEF IInv
<1>1. TypeOK'  BY <1>0, ReaderTypes
<1>2. ASSUME NEW u \in Socket, u # s
      PROVE  Sound(u)' /\ Following(u)' /\ Failing(u)'
  <2>1. /\ reader'[u] = reader[u] /\ mu'[u] = mu[u] /\ held'[u] = held[u]
        /\ cancelled'[u] = cancelled[u] /\ reads'[u] = reads[u] /\ asked'[u] = asked[u]
        /\ UNCHANGED <<loop, subscribed, conn>> /\ ~panicked
    BY <1>2, <1>0 DEF TypeOK, ReaderStep, ReaderAt, Check, ReadMessage, ReadMalformed, ReadClose,
       LockToAnswer, Answer, ReadEof, ReadFails
  <2>q. QED  BY <2>1 DEF IInv, Sound, Following, Failing
<1>3. Sound(s)' /\ Following(s)' /\ Failing(s)' /\ (panicked' => conn'[s] = "broken")
  <2>1. CASE Check(s)
    BY <1>0, <2>1, Labels DEF ReaderStep, Check, ReaderAt, TypeOK, Sound, Following, Failing
  <2>2. CASE ReadMessage(s)
    <3>1. /\ reader[s] = "reading" /\ reader'[s] = "handing" /\ reads[s] = 0
          /\ UNCHANGED <<mu, cancelled, reads, panicked, loop, subscribed, conn>>
          /\ ~panicked
      BY <1>0, <2>2 DEF ReaderStep, ReadMessage, NextFrame, ReaderAt, TypeOK
    <3>2. asked'[s] = Applied(held'[s], asked[s])
      BY <1>0, <2>2 DEF ReadMessage, TypeOK
    <3>3. ~cancelled[s] /\ loop[s] \notin Closing
      BY <1>0, <3>1 DEF Sound
    <3>4. Following(s)'
      <4>1. asked[s] <=> subscribed[s]  BY <1>0, <3>1, <3>3 DEF Following
      <4>2. asked'[s] <=> Applied(held'[s], subscribed[s])  BY <3>2, <4>1 DEF Applied
      <4>q. QED  BY <3>1, <4>2 DEF Following
    <3>5. Sound(s)'  BY <1>0, <3>1, <3>3 DEF Sound
    <3>q. QED  BY <1>0, <3>1, <3>4, <3>5 DEF Failing
  <2>3. CASE ReadMalformed(s) \/ ReadClose(s) \/ ReadEof(s)
    <3>1. /\ reader[s] = "reading" /\ reader'[s] \in {"check", "closing", "ended"}
          /\ reads[s] = 0
          /\ UNCHANGED <<mu, held, cancelled, reads, panicked, asked, loop, subscribed, conn>>
          /\ ~panicked
      BY <1>0, <2>3 DEF ReaderStep, ReadMalformed, ReadClose, ReadEof, NextFrame, ReaderAt, TypeOK
    <3>2. ~cancelled[s] /\ loop[s] \notin Closing
      BY <1>0, <3>1 DEF Sound
    <3>q. QED  BY <1>0, <3>1, <3>2 DEF Sound, Following, Failing
  <2>4. CASE LockToAnswer(s)
    BY <1>0, <2>4, Labels DEF ReaderStep, LockToAnswer, ReaderAt, TypeOK, Sound, Following, Failing
  <2>5. CASE Answer(s)
    <3>1. /\ reader[s] = "answering" /\ reader'[s] = "check"
          /\ mu'[s] = "free" /\ cancelled'[s] /\ reads'[s] = 1
          /\ UNCHANGED <<held, panicked, asked, loop, subscribed, conn>>
          /\ ~panicked
      BY <1>0, <2>5 DEF ReaderStep, Answer, ReaderAt, TypeOK
    <3>2. loop[s] \notin Closing /\ loop[s] # "writing" /\ loop[s] \notin Opening
      BY <1>0, <3>1 DEF Sound
    <3>3. 1 < ReadLimit  BY <1>0
    <3>q. QED  BY <1>0, <3>1, <3>2, <3>3 DEF Sound, Following, Failing
  <2>6. CASE ReadFails(s)
    <3>1. /\ reader[s] = "reading" /\ reader'[s] = "check"
          /\ reads[s] \in Nat /\ reads'[s] = reads[s] + 1
          /\ conn[s] \in {"broken", "closed"} \/ reads[s] > 0
          /\ UNCHANGED <<mu, held, cancelled, asked, loop, subscribed, conn>>
          /\ ~panicked
      BY <1>0, <2>6 DEF ReaderStep, ReadFails, ReaderAt, TypeOK
    <3>2. ~cancelled[s] /\ loop[s] \notin Closing
      BY <1>0, <3>1 DEF Sound
    <3>3. conn[s] = "broken"
      BY <1>0, <3>1, <3>2, Labels DEF Sound, Failing
    <3>4. ~panicked' => reads'[s] < ReadLimit
      <4>1. reads'[s] = ReadLimit => panicked'  BY <2>6 DEF ReadFails
      <4>2. reads[s] < ReadLimit  BY <1>0, <3>1 DEF Sound
      <4>q. QED  BY <1>0, <3>1, <4>1, <4>2
    <3>q. QED  BY <1>0, <3>1, <3>2, <3>3, <3>4 DEF Sound, Following, Failing
  <2>q. QED  BY <2>1, <2>2, <2>3, <2>4, <2>5, <2>6 DEF ReaderStep
<1>4. Panic'  BY <1>3 DEF Panic
<1>q. QED  BY <1>1, <1>2, <1>3, <1>4 DEF IInv

-----------------------------------------------------------------------------
(* The client and the senders *)

LEMMA ClientSound == ASSUME IInv, NEW s \in Socket, ClientStep(s) PROVE IInv'
<1>0. TypeOK  BY DEF IInv
<1>1. /\ conn' \in [Socket -> {"open", "eof", "broken", "closed"}]
      /\ stalled' \in [Socket -> BOOLEAN]
      /\ inbox' \in [Socket -> Seq(Frames)]
      /\ frames' \in [Socket -> Nat]
  <2>1. CASE \E f \in Frames : Send(s, f)
    <3>1. PICK f \in Frames : Send(s, f)  BY <2>1
    <3>2. Append(inbox[s], f) \in Seq(Frames)  BY <1>0 DEF TypeOK
    <3>3. inbox' \in [Socket -> Seq(Frames)]  BY <1>0, <3>1, <3>2 DEF Send, TypeOK
    <3>4. frames' \in [Socket -> Nat]  BY <1>0, <3>1 DEF Send, TypeOK
    <3>q. QED  BY <1>0, <3>1, <3>3, <3>4 DEF Send, TypeOK
  <2>2. CASE Hangup(s) \/ Break(s) \/ Stall(s)
    BY <1>0, <2>2 DEF TypeOK, Hangup, Break, Stall
  <2>q. QED  BY <2>1, <2>2 DEF ClientStep
<1>2. /\ UNCHANGED <<loop, mu, subscribed, panicked, reader, held, cancelled, reads, asked,
                     eventTo, noteTo, eventsSent, notesSent, events, notes>>
      /\ ~panicked
  BY DEF ClientStep, readerVars, senderVars, streamVars
<1>3. TypeOK'  BY <1>0, <1>1, <1>2 DEF TypeOK
<1>4. \A u \in Socket : conn[u] # "open" => conn'[u] = conn[u]
  BY <1>0 DEF TypeOK, ClientStep, Send, Hangup, Break, Stall
<1>5. \A u \in Socket : conn'[u] = "closed" => conn[u] = "closed"
  BY <1>0 DEF TypeOK, ClientStep, Send, Hangup, Break, Stall
<1>6. ASSUME NEW u \in Socket  PROVE Sound(u)' /\ Following(u)' /\ Failing(u)'
  <2>1. Sound(u) /\ Following(u) /\ Failing(u)  BY DEF IInv
  <2>2. conn[u] = "broken" => conn'[u] = "broken"  BY <1>4
  <2>q. QED  BY <2>1, <2>2, <1>2, <1>5 DEF Sound, Following, Failing
<1>7. Panic'  BY <1>2 DEF Panic
<1>q. QED  BY <1>3, <1>6, <1>7 DEF IInv

LEMMA SenderSound == ASSUME IInv, SenderStep PROVE IInv'
<1>0. TypeOK  BY DEF IInv
<1>1. UNCHANGED Others
  BY DEF SenderStep, EventDelivery, NoteDelivery
<1>2. /\ events' \in [Socket -> 0..EventCapacity]
      /\ notes' \in [Socket -> 0..NotificationCapacity]
      /\ eventTo' \subseteq Socket /\ noteTo' \subseteq Socket
      /\ eventsSent' \in Nat /\ notesSent' \in Nat
  <2>1. CASE SendEvent
    <3>0. eventsSent \in Nat /\ eventsSent' = eventsSent + 1
      BY <1>0, <2>1 DEF TypeOK, SendEvent
    <3>1. eventsSent' \in Nat  BY <3>0
    <3>q. QED  BY <1>0, <2>1, <3>1 DEF TypeOK, SendEvent, streamVars
  <2>2. CASE SendNotification
    <3>0. notesSent \in Nat /\ notesSent' = notesSent + 1
      BY <1>0, <2>2 DEF TypeOK, SendNotification
    <3>1. notesSent' \in Nat  BY <3>0
    <3>q. QED  BY <1>0, <2>2, <3>1 DEF TypeOK, SendNotification, streamVars
  <2>3. CASE EventDelivery
    BY <1>0, <2>3, BoundAssumption DEF TypeOK, EventDelivery, DeliverEvent
  <2>4. CASE NoteDelivery
    BY <1>0, <2>4, BoundAssumption DEF TypeOK, NoteDelivery, DeliverNotification
  <2>q. QED  BY <2>1, <2>2, <2>3, <2>4 DEF SenderStep
<1>3. TypeOK'
  BY <1>0, <1>1, <1>2 DEF TypeOK, Others, clientVars, readerVars
<1>q. QED
  BY <1>1, <1>3 DEF IInv, Sound, Following, Failing, Panic, Others, clientVars, readerVars

LEMMA Invariance == Spec => []IInv
<1>1. IInv /\ [Next]_vars => IInv'
  <2> SUFFICES ASSUME IInv, [Next]_vars PROVE IInv'
    OBVIOUS
  <2>1. CASE UNCHANGED vars
    BY <2>1 DEF vars, clientVars, readerVars, senderVars, streamVars, IInv, TypeOK, Sound,
       Following, Failing, Panic
  <2>2. CASE Next
    BY <2>2, LoopSound, ReaderSound, ClientSound, SenderSound DEF Next
  <2>q. QED  BY <2>1, <2>2
<1>q. QED  BY <1>1, InitOK, PTL DEF Spec

-----------------------------------------------------------------------------

\* Every variable keeps its type: no stream holds more than its channel has room
\* for, and no connection is read more often than it takes to panic.
THEOREM TypeCorrect == Spec => []TypeOK
<1>1. IInv => TypeOK  BY DEF IInv
<1>q. QED  BY <1>1, Invariance, PTL

\* The loop and the close handler never write at the same time.
THEOREM WritesAlone == Spec => []OneWriter
<1>1. IInv => OneWriter  BY DEF IInv, Sound, OneWriter
<1>q. QED  BY <1>1, Invariance, PTL

\* The subscriptions of a websocket follow the messages of its client.
THEOREM SubscriptionsFollow == Spec => []FollowsClient
<1>1. IInv => FollowsClient
  BY Labels DEF IInv, Following, FollowsClient, Running
<1>q. QED  BY <1>1, Invariance, PTL

\* The goroutine that reads a websocket ends with its loop.
THEOREM ReaderEndsToo == Spec => []ReaderNotLeft
<1>1. IInv => ReaderNotLeft  BY DEF IInv, Sound, ReaderNotLeft
<1>q. QED  BY <1>1, Invariance, PTL

\* Only a connection that was cut off is read again after an error.
THEOREM RereadsBroken == Spec => []RereadsOnlyBroken
<1>1. IInv => RereadsOnlyBroken
  <2> SUFFICES ASSUME IInv PROVE RereadsOnlyBroken
    OBVIOUS
  <2>1. ASSUME NEW s \in Socket, reads[s] > 1 PROVE conn[s] = "broken"
    <3>1. reads[s] \in Nat /\ Failing(s)  BY BoundAssumption DEF IInv, TypeOK
    <3>q. QED  BY <2>1, <3>1 DEF Failing
  <2>q. QED  BY <2>1 DEF IInv, Panic, RereadsOnlyBroken
<1>q. QED  BY <1>1, Invariance, PTL
=============================================================================
