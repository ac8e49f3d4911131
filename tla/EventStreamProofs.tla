------------------------- MODULE EventStreamProofs --------------------------
(***************************************************************************)
(* Theorems about the event streams, for every set of timers, streams and  *)
(* senders, every capacity and any number of events.                       *)
(***************************************************************************)
EXTENDS EventStream, TLAPS

\* What a send and a receipt do to a channel.
LEMMA PutAndTake ==
    ASSUME NEW c \in Seq(Event), NEW e \in Event
    PROVE  /\ Append(c, e) \in Seq(Event)
           /\ Len(c) \in Nat
           /\ Len(Append(c, e)) = Len(c) + 1
           /\ Append(c, e)[Len(c) + 1] = e
           /\ c # <<>> => Tail(c) \in Seq(Event) /\ Len(Tail(c)) = Len(c) - 1
OBVIOUS

-----------------------------------------------------------------------------
(* The inductive invariant *)

\* Who is stored, and who holds the read lock and serves which stream.
Holding ==
    /\ \A s \in Stream : s \in streams <=> owner[s] \in {"open", "closing"}
    /\ \A p \in Sender : p \in readers <=> pc[p] = "sending"
    /\ \A p \in Sender : target[p] # NoStream => p \in readers /\ target[p] \in streams

\* What a sender has yet to serve has not had its event; and the streams that
\* stay subscribed are open, subscribed, and served or yet to be served.
Serving ==
    \A p \in Sender :
        /\ \A s \in Stream : got[s][p] <= sent[p]
        /\ pc[p] \in {"called", "copied"} => \A s \in Stream : got[s][p] < sent[p]
        /\ pc[p] = "sending" =>
              \A s \in Stream : s \in togo[p] \/ s = target[p] => got[s][p] < sent[p]
        /\ target[p] \notin togo[p]

Hearing ==
    \A p \in Sender : \A s \in audience[p] :
        /\ owner[s] = "open"
        /\ s \in subscribers[timer[p]]
        /\ pc[p] = "copied" => s \in togo[p]
        /\ pc[p] = "sending" => s \in togo[p] \/ s = target[p] \/ got[s][p] = sent[p]

IInv == TypeOK /\ Linked /\ Holding /\ Serving /\ Hearing

LEMMA InitInv == Init => IInv
<1> SUFFICES ASSUME Init PROVE IInv
    OBVIOUS
<1>1. TypeOK
    <2>1. \A s \in Stream : Len(channel[s]) <= Capacity
        BY BoundsAssumption DEF Init
    <2>2. QED
        BY <2>1 DEF Init, TypeOK, OwnerStates
<1>2. Linked
    BY DEF Init, Linked
<1>3. Holding /\ Serving /\ Hearing
    BY NoStreamAssumption DEF Init, Holding, Serving, Hearing
<1>4. QED
    BY <1>1, <1>2, <1>3 DEF IInv

-----------------------------------------------------------------------------
(* The types *)

LEMMA TypeAfterDeliver ==
    ASSUME TypeOK, NEW p \in Sender, Deliver(p), SenderFrame
    PROVE  TypeOK'
<1> DEFINE s == target[p]
           e == [sender |-> p, number |-> sent[p]]
<1>1. s \in Stream /\ e \in Event
    BY DEF Deliver, TypeOK, Event
<1>2. /\ channel' = [channel EXCEPT ![s] = Append(@, e)]
      /\ Len(channel[s]) < Capacity
      /\ got' = [got EXCEPT ![s][p] = sent[p]]
    BY DEF Deliver, Put
<1>3. channel[s] \in Seq(Event)
    BY <1>1 DEF TypeOK
<1>4. /\ Append(channel[s], e) \in Seq(Event)
      /\ Len(Append(channel[s], e)) = Len(channel[s]) + 1
      /\ Len(channel[s]) \in Nat
    BY <1>1, <1>3, PutAndTake
<1>5. sent[p] \in Nat /\ got[s] \in [Sender -> Nat]
    BY <1>1 DEF TypeOK
<1>6. target' = [target EXCEPT ![p] = NoStream]
    BY DEF Deliver
<1> HIDE DEF s, e
<1>7. channel' \in [Stream -> Seq(Event)]
    BY <1>1, <1>2, <1>4 DEF TypeOK
<1>8. \A r \in Stream : Len(channel'[r]) <= Capacity
    <2> SUFFICES ASSUME NEW r \in Stream PROVE Len(channel'[r]) <= Capacity
        OBVIOUS
    <2>1. CASE r = s
        <3>1. channel'[r] = Append(channel[s], e)
            BY <1>1, <1>2, <2>1 DEF TypeOK
        <3>2. QED
            BY <1>2, <1>4, <3>1, BoundsAssumption
    <2>2. CASE r # s
        BY <1>1, <1>2, <2>2 DEF TypeOK
    <2>3. QED
        BY <2>1, <2>2
<1>9. got' \in [Stream -> [Sender -> Nat]]
    BY <1>1, <1>2, <1>5 DEF TypeOK
<1>10. target' \in [Sender -> Stream \cup {NoStream}]
    BY <1>6 DEF TypeOK
<1>11. QED
    BY <1>7, <1>8, <1>9, <1>10 DEF TypeOK, Deliver, SenderFrame, indexVars

LEMMA TypeAfterSender ==
    ASSUME TypeOK, NEW p \in Sender, SenderStep(p)
    PROVE  TypeOK'
<1>0. SenderFrame
    BY DEF SenderStep
<1>1. ASSUME NEW t \in Timer, Call(p, t) PROVE TypeOK'
    <2>1. /\ pc' \in [Sender -> {"idle", "called", "copied", "sending"}]
          /\ sent' \in [Sender -> Nat]
          /\ timer' \in [Sender -> Timer]
          /\ audience' \in [Sender -> SUBSET Stream]
        BY <1>1 DEF Call, SenderAt, TypeOK
    <2>2. QED
        BY <1>0, <1>1, <2>1 DEF Call, SenderFrame, TypeOK, indexVars
<1>2. CASE CopySubscribers(p)
    BY <1>0, <1>2 DEF CopySubscribers, SenderAt, SenderFrame, TypeOK, indexVars
<1>3. CASE RLock(p)
    BY <1>0, <1>3 DEF RLock, SenderAt, SenderFrame, TypeOK, indexVars
<1>4. ASSUME NEW s \in Stream, NextTarget(p, s) PROVE TypeOK'
    BY <1>0, <1>4 DEF NextTarget, SenderFrame, TypeOK, indexVars
<1>5. CASE Deliver(p)
    BY <1>0, <1>5, TypeAfterDeliver
<1>6. CASE RUnlock(p)
    BY <1>0, <1>6 DEF RUnlock, SenderAt, SenderFrame, TypeOK, indexVars
<1>7. QED
    BY <1>1, <1>2, <1>3, <1>4, <1>5, <1>6 DEF SenderStep, GoOnSending

LEMMA TypeAfterReceive ==
    ASSUME TypeOK, NEW s \in Stream, Receive(s), OwnerFrame
    PROVE  TypeOK'
<1>1. /\ channel' = [channel EXCEPT ![s] = Tail(@)]
      /\ channel[s] # <<>>
      /\ channel[s] \in Seq(Event)
    BY DEF Receive, TypeOK
<1>2. /\ Tail(channel[s]) \in Seq(Event)
      /\ Len(Tail(channel[s])) = Len(channel[s]) - 1
      /\ Len(channel[s]) \in Nat
    BY <1>1
<1>3. channel' \in [Stream -> Seq(Event)]
    BY <1>1, <1>2 DEF TypeOK
<1>4. \A r \in Stream : Len(channel'[r]) <= Capacity
    <2> SUFFICES ASSUME NEW r \in Stream PROVE Len(channel'[r]) <= Capacity
        OBVIOUS
    <2>1. CASE r = s
        <3>1. channel'[r] = Tail(channel[s]) /\ Len(channel[s]) <= Capacity
            BY <1>1, <2>1 DEF TypeOK
        <3>2. QED
            BY <1>2, <3>1, BoundsAssumption
    <2>2. CASE r # s
        BY <1>1, <2>2 DEF TypeOK
    <2>3. QED
        BY <2>1, <2>2
<1>5. QED
    BY <1>3, <1>4 DEF Receive, OwnerFrame, senderVars, indexVars, TypeOK

LEMMA TypeAfterOwner ==
    ASSUME TypeOK, NEW s \in Stream, OwnerStep(s)
    PROVE  TypeOK'
<1>0. OwnerFrame
    BY DEF OwnerStep
<1>1. CASE Receive(s)
    BY <1>0, <1>1, TypeAfterReceive
<1>2. CASE Open(s) \/ CloseChannel(s) \/ Lock(s)
    BY <1>0, <1>2 DEF Open, CloseChannel, Lock, OwnerAt, OwnerFrame, TypeOK, OwnerStates,
                      senderVars, indexVars
<1>3. CASE NewStream(s) \/ Remove(s)
    BY <1>0, <1>3 DEF NewStream, Remove, OwnerAt, OwnerFrame, TypeOK, OwnerStates,
                      senderVars, indexVars
<1>4. ASSUME NEW ts \in SUBSET Timer, Subscribe(s, ts) \/ Unsubscribe(s, ts)
      PROVE  TypeOK'
    <2>1. subscribers' \in [Timer -> SUBSET Stream]
        <3>1. CASE Subscribe(s, ts)
            BY <3>1 DEF Subscribe, TypeOK
        <3>2. CASE Unsubscribe(s, ts)
            BY <3>2 DEF Unsubscribe, TypeOK
        <3>3. QED
            BY <1>4, <3>1, <3>2
    <2>2. timers' \in [Stream -> SUBSET Timer]
        <3>1. timers[s] \cup ts \in SUBSET Timer /\ timers[s] \ ts \in SUBSET Timer
            BY DEF TypeOK
        <3>2. \/ timers' = [timers EXCEPT ![s] = timers[s] \cup ts]
              \/ timers' = [timers EXCEPT ![s] = timers[s] \ ts]
            BY <1>4 DEF Subscribe, Unsubscribe
        <3>3. QED
            BY <3>1, <3>2 DEF TypeOK
    <2>3. audience' \in [Sender -> SUBSET Stream]
        <3>1. CASE Subscribe(s, ts)
            BY <3>1 DEF Subscribe, TypeOK
        <3>2. CASE Unsubscribe(s, ts)
            BY <3>2 DEF Unsubscribe, NoLongerHears, TypeOK
        <3>3. QED
            BY <1>4, <3>1, <3>2
    <2>4. UNCHANGED <<streams, writer, channel, owner>>
        BY <1>4 DEF Subscribe, Unsubscribe
    <2>5. UNCHANGED <<readers, pc, timer, togo, target, sent, got>>
        BY <1>0 DEF OwnerFrame, senderVars
    <2>6. QED
        BY <2>1, <2>2, <2>3, <2>4, <2>5 DEF TypeOK
<1>5. CASE Leave(s)
    BY <1>0, <1>5 DEF Leave, NoLongerHears, OwnerAt, OwnerFrame, TypeOK, OwnerStates,
                      senderVars, indexVars
<1>6. CASE Unlink(s)
    BY <1>0, <1>6 DEF Unlink, OwnerAt, OwnerFrame, TypeOK, OwnerStates, senderVars, indexVars
<1>7. QED
    BY <1>1, <1>2, <1>3, <1>4, <1>5, <1>6 DEF OwnerStep, GoOnOwning

LEMMA TypeKept == ASSUME TypeOK, [Next]_vars PROVE TypeOK'
<1>1. CASE UNCHANGED vars
    BY <1>1 DEF TypeOK, vars, indexVars, lockVars, senderVars
<1>2. CASE Next
    BY <1>2, TypeAfterSender, TypeAfterOwner DEF Next
<1>3. QED
    BY <1>1, <1>2

-----------------------------------------------------------------------------
(* The indexes of the subscriptions *)

LEMMA LinkedKept == ASSUME TypeOK, Linked, [Next]_vars PROVE Linked'
<1>1. CASE UNCHANGED vars
    BY <1>1 DEF Linked, vars, indexVars
<1>2. ASSUME NEW p \in Sender, SenderStep(p) PROVE Linked'
    BY <1>2 DEF Linked, SenderStep, SenderFrame, indexVars
<1>3. ASSUME NEW s \in Stream, OwnerStep(s) PROVE Linked'
    <2>1. CASE Open(s) \/ Leave(s)
        BY <2>1 DEF Open, Leave, OwnerAt, Linked, TypeOK, indexVars
    <2>2. CASE Lock(s) \/ Receive(s)
        BY <2>2 DEF Lock, Receive, Linked, TypeOK, indexVars
    <2>3. CASE NewStream(s) \/ Remove(s)
        BY <2>3 DEF NewStream, Remove, OwnerAt, Linked, TypeOK, indexVars
    <2>4. ASSUME NEW ts \in SUBSET Timer, Subscribe(s, ts) \/ Unsubscribe(s, ts)
          PROVE  Linked'
        <3>1. CASE Subscribe(s, ts)
            <4>1. /\ \A t \in Timer : subscribers'[t] =
                        IF t \in ts THEN subscribers[t] \cup {s} ELSE subscribers[t]
                  /\ \A r \in Stream : timers'[r] = IF r = s THEN timers[r] \cup ts ELSE timers[r]
                  /\ owner' = owner /\ owner[s] = "open"
                BY <3>1 DEF Subscribe, TypeOK
            <4>2. \A r \in Stream : \A t \in Timer : r \in subscribers'[t] <=> t \in timers'[r]
                <5> SUFFICES ASSUME NEW r \in Stream, NEW t \in Timer
                             PROVE  r \in subscribers'[t] <=> t \in timers'[r]
                    OBVIOUS
                <5>1. r \in subscribers'[t] <=> r \in subscribers[t] \/ (r = s /\ t \in ts)
                    BY <4>1
                <5>2. t \in timers'[r] <=> t \in timers[r] \/ (r = s /\ t \in ts)
                    BY <4>1
                <5>3. QED
                    BY <5>1, <5>2 DEF Linked
            <4>3. \A r \in Stream : owner[r] # "open" => timers'[r] = timers[r]
                BY <4>1
            <4>4. QED
                BY <4>1, <4>2, <4>3 DEF Linked
        <3>2. CASE Unsubscribe(s, ts)
            <4>1. /\ \A t \in Timer : subscribers'[t] =
                        IF t \in ts THEN subscribers[t] \ {s} ELSE subscribers[t]
                  /\ \A r \in Stream : timers'[r] = IF r = s THEN timers[r] \ ts ELSE timers[r]
                  /\ owner' = owner /\ owner[s] = "open"
                BY <3>2 DEF Unsubscribe, TypeOK
            <4>2. \A r \in Stream : \A t \in Timer : r \in subscribers'[t] <=> t \in timers'[r]
                <5> SUFFICES ASSUME NEW r \in Stream, NEW t \in Timer
                             PROVE  r \in subscribers'[t] <=> t \in timers'[r]
                    OBVIOUS
                <5>1. r \in subscribers'[t] <=> r \in subscribers[t] /\ ~(r = s /\ t \in ts)
                    BY <4>1
                <5>2. t \in timers'[r] <=> t \in timers[r] /\ ~(r = s /\ t \in ts)
                    BY <4>1
                <5>3. QED
                    BY <5>1, <5>2 DEF Linked
            <4>3. \A r \in Stream : owner[r] # "open" => timers'[r] = timers[r]
                BY <4>1
            <4>4. QED
                BY <4>1, <4>2, <4>3 DEF Linked
        <3>3. QED
            BY <2>4, <3>1, <3>2
    <2>5. CASE Unlink(s)
        <3>1. /\ \A t \in Timer : subscribers'[t] =
                    IF t \in timers[s] THEN subscribers[t] \ {s} ELSE subscribers[t]
              /\ \A r \in Stream : timers'[r] = IF r = s THEN {} ELSE timers[r]
              /\ \A r \in Stream : owner'[r] = IF r = s THEN "unlinked" ELSE owner[r]
            BY <2>5 DEF Unlink, OwnerAt, TypeOK
        <3>2. \A r \in Stream : \A t \in Timer : r \in subscribers'[t] <=> t \in timers'[r]
            <4> SUFFICES ASSUME NEW r \in Stream, NEW t \in Timer
                         PROVE  r \in subscribers'[t] <=> t \in timers'[r]
                OBVIOUS
            <4>1. r \in subscribers'[t] <=> r \in subscribers[t] /\ ~(r = s /\ t \in timers[s])
                BY <3>1
            <4>2. t \in timers'[r] <=> t \in timers[r] /\ r # s
                BY <3>1
            <4>3. QED
                BY <4>1, <4>2 DEF Linked
        <3>3. QED
            BY <3>1, <3>2 DEF Linked
    <2>6. CASE CloseChannel(s)
        BY <2>6 DEF CloseChannel, OwnerAt, Linked, TypeOK, indexVars
    <2>7. QED
        BY <1>3, <2>1, <2>2, <2>3, <2>4, <2>5, <2>6 DEF OwnerStep, GoOnOwning
<1>4. QED
    BY <1>1, <1>2, <1>3 DEF Next

-----------------------------------------------------------------------------
(* The lock of the stored streams *)

LEMMA HoldingKept == ASSUME IInv, [Next]_vars PROVE Holding'
<1>0. TypeOK /\ Holding
    BY DEF IInv
<1>1. CASE UNCHANGED vars
    BY <1>0, <1>1 DEF Holding, vars, lockVars, senderVars
<1>2. ASSUME NEW p \in Sender, SenderStep(p) PROVE Holding'
    <2>0. UNCHANGED <<streams, owner>>
        BY <1>2 DEF SenderStep, SenderFrame
    <2>1. ASSUME NEW t \in Timer, Call(p, t) PROVE Holding'
        BY <1>0, <2>0, <2>1 DEF Call, SenderAt, Holding, TypeOK
    <2>2. CASE CopySubscribers(p)
        BY <1>0, <2>0, <2>2 DEF CopySubscribers, SenderAt, Holding, TypeOK
    <2>3. CASE RLock(p)
        BY <1>0, <2>0, <2>3 DEF RLock, SenderAt, Holding, TypeOK
    <2>4. ASSUME NEW s \in Stream, NextTarget(p, s) PROVE Holding'
        BY <1>0, <2>0, <2>4 DEF NextTarget, Holding, TypeOK
    <2>5. CASE Deliver(p)
        BY <1>0, <2>0, <2>5 DEF Deliver, Holding, TypeOK
    <2>6. CASE RUnlock(p)
        BY <1>0, <2>0, <2>6 DEF RUnlock, SenderAt, Served, Holding, TypeOK
    <2>7. QED
        BY <1>2, <2>1, <2>2, <2>3, <2>4, <2>5, <2>6 DEF SenderStep, GoOnSending
<1>3. ASSUME NEW s \in Stream, OwnerStep(s) PROVE Holding'
    <2>0. UNCHANGED <<readers, pc, target>>
        BY <1>3 DEF OwnerStep, OwnerFrame, senderVars
    <2>1. CASE Open(s) \/ Leave(s) \/ Unlink(s) \/ CloseChannel(s)
        BY <1>0, <2>0, <2>1 DEF Open, Leave, Unlink, CloseChannel, OwnerAt, Holding, TypeOK
    <2>2. CASE Lock(s) \/ Receive(s)
        BY <1>0, <2>0, <2>2 DEF Lock, Receive, Holding
    <2>3. ASSUME NEW ts \in SUBSET Timer, Subscribe(s, ts) \/ Unsubscribe(s, ts)
          PROVE  Holding'
        BY <1>0, <2>0, <2>3 DEF Subscribe, Unsubscribe, Holding
    <2>4. CASE NewStream(s)
        BY <1>0, <2>0, <2>4 DEF NewStream, OwnerAt, Holding, TypeOK
    <2>5. CASE Remove(s)
        <3>1. \A p \in Sender : target[p] = NoStream
            BY <1>0, <2>5 DEF Remove, Locked, Holding
        <3>2. QED
            BY <1>0, <2>0, <2>5, <3>1 DEF Remove, OwnerAt, Holding, TypeOK
    <2>6. QED
        BY <1>3, <2>1, <2>2, <2>3, <2>4, <2>5 DEF OwnerStep, GoOnOwning
<1>4. QED
    BY <1>1, <1>2, <1>3 DEF Next

-----------------------------------------------------------------------------
(* What senders have served *)

LEMMA ServingKept == ASSUME IInv, [Next]_vars PROVE Serving'
<1>0. TypeOK /\ Serving
    BY DEF IInv
<1>1. CASE UNCHANGED <<senderVars, got>>
    BY <1>0, <1>1 DEF Serving, senderVars
<1>2. ASSUME NEW p \in Sender, SenderStep(p) PROVE Serving'
    <2>0. /\ sent \in [Sender -> Nat]
          /\ got \in [Stream -> [Sender -> Nat]]
        BY <1>0 DEF TypeOK
    <2>1. ASSUME NEW t \in Timer, Call(p, t) PROVE Serving'
        BY <1>0, <2>0, <2>1 DEF Call, SenderAt, Serving, TypeOK
    <2>2. CASE CopySubscribers(p)
        <3>1. target[p] = NoStream
            BY <2>2 DEF CopySubscribers, SenderAt, Holding, IInv
        <3>2. togo'[p] \subseteq Stream
            BY <1>0, <2>2 DEF CopySubscribers, TypeOK
        <3>3. QED
            BY <1>0, <2>0, <2>2, <3>1, <3>2, NoStreamAssumption
            DEF CopySubscribers, SenderAt, Serving, TypeOK
    <2>3. CASE RLock(p)
        BY <1>0, <2>0, <2>3 DEF RLock, SenderAt, Serving, TypeOK, Holding, IInv
    <2>4. ASSUME NEW s \in Stream, NextTarget(p, s) PROVE Serving'
        BY <1>0, <2>0, <2>4, NoStreamAssumption DEF NextTarget, Serving, TypeOK
    <2>5. CASE Deliver(p)
        <3>1. /\ target[p] \in Stream
              /\ UNCHANGED <<pc, togo, sent>>
              /\ target' = [target EXCEPT ![p] = NoStream]
              /\ got' = [got EXCEPT ![target[p]][p] = sent[p]]
            BY <1>0, <2>5 DEF Deliver, Put, TypeOK
        <3>2. pc[p] = "sending"
            BY <2>5, <3>1 DEF Deliver, Holding, IInv
        <3>3. \A s \in Stream : \A q \in Sender :
                 got'[s][q] = IF s = target[p] /\ q = p THEN sent[p] ELSE got[s][q]
            BY <2>0, <3>1
        <3>4. \A q \in Sender : target'[q] = IF q = p THEN NoStream ELSE target[q]
            BY <1>0, <3>1 DEF TypeOK
        <3>5. \A q \in Sender : togo[q] \subseteq Stream /\ sent[q] \in Nat
            BY <1>0 DEF TypeOK
        <3>6. QED
            BY <1>0, <3>1, <3>2, <3>3, <3>4, <3>5, NoStreamAssumption DEF Serving
    <2>6. CASE RUnlock(p)
        BY <1>0, <2>0, <2>6 DEF RUnlock, SenderAt, Serving, TypeOK
    <2>7. QED
        BY <1>2, <2>1, <2>2, <2>3, <2>4, <2>5, <2>6 DEF SenderStep, GoOnSending
<1>3. ASSUME NEW s \in Stream, OwnerStep(s) PROVE Serving'
    BY <1>1, <1>3 DEF OwnerStep, OwnerFrame
<1>4. QED
    BY <1>1, <1>2, <1>3 DEF Next, vars

-----------------------------------------------------------------------------
(* Who hears an event *)

LEMMA HearingKept == ASSUME IInv, [Next]_vars PROVE Hearing'
<1>0. TypeOK /\ Hearing /\ Holding
    BY DEF IInv
<1>1. CASE UNCHANGED vars
    BY <1>0, <1>1 DEF Hearing, vars, indexVars, lockVars, senderVars
<1>2. ASSUME NEW p \in Sender, SenderStep(p) PROVE Hearing'
    <2>0. UNCHANGED <<owner, subscribers>>
        BY <1>2 DEF SenderStep, SenderFrame, indexVars
    <2>1. ASSUME NEW t \in Timer, Call(p, t) PROVE Hearing'
        BY <1>0, <2>0, <2>1 DEF Call, SenderAt, Hearing, TypeOK
    <2>2. CASE CopySubscribers(p)
        BY <1>0, <2>0, <2>2 DEF CopySubscribers, SenderAt, Hearing, TypeOK
    <2>3. CASE RLock(p)
        BY <1>0, <2>0, <2>3 DEF RLock, SenderAt, Hearing, TypeOK
    <2>4. ASSUME NEW s \in Stream, NextTarget(p, s) PROVE Hearing'
        <3>1. s \in audience[p] => s \in streams
            BY <1>0, <2>4 DEF Hearing, Holding
        <3>2. pc[p] # "copied"
            BY <2>4 DEF NextTarget
        <3>3. \A r \in audience[p] : r # NoStream
            BY <1>0, NoStreamAssumption DEF TypeOK
        <3>4. QED
            BY <1>0, <2>0, <2>4, <3>1, <3>2, <3>3 DEF NextTarget, Hearing, TypeOK
    <2>5. CASE Deliver(p)
        <3>1. /\ target[p] \in Stream
              /\ UNCHANGED <<pc, togo, sent, timer, audience>>
              /\ target' = [target EXCEPT ![p] = NoStream]
              /\ got' = [got EXCEPT ![target[p]][p] = sent[p]]
            BY <1>0, <2>5 DEF Deliver, Put, TypeOK
        <3>2. \A s \in Stream : \A q \in Sender :
                 got'[s][q] = IF s = target[p] /\ q = p THEN sent[p] ELSE got[s][q]
            BY <1>0, <3>1 DEF TypeOK
        <3>3. \A q \in Sender : target'[q] = IF q = p THEN NoStream ELSE target[q]
            BY <1>0, <3>1 DEF TypeOK
        <3>4. \A q \in Sender : audience[q] \subseteq Stream
            BY <1>0 DEF TypeOK
        <3>5. QED
            BY <1>0, <2>0, <3>1, <3>2, <3>3, <3>4 DEF Hearing
    <2>6. CASE RUnlock(p)
        BY <1>0, <2>0, <2>6 DEF RUnlock, SenderAt, Hearing, TypeOK
    <2>7. QED
        BY <1>2, <2>1, <2>2, <2>3, <2>4, <2>5, <2>6 DEF SenderStep, GoOnSending
<1>3. ASSUME NEW s \in Stream, OwnerStep(s) PROVE Hearing'
    <2>0. UNCHANGED <<pc, timer, togo, target, sent, got>>
        BY <1>3 DEF OwnerStep, OwnerFrame, senderVars
    <2>1. CASE Open(s) \/ NewStream(s) \/ Remove(s) \/ CloseChannel(s)
        BY <1>0, <2>0, <2>1 DEF Open, NewStream, Remove, CloseChannel, OwnerAt, Hearing,
                                TypeOK, indexVars
    <2>2. CASE Lock(s) \/ Receive(s)
        BY <1>0, <2>0, <2>2 DEF Lock, Receive, Hearing, indexVars
    <2>3. ASSUME NEW ts \in SUBSET Timer, Subscribe(s, ts) PROVE Hearing'
        <3>1. /\ \A t \in Timer : subscribers[t] \subseteq subscribers'[t]
              /\ UNCHANGED <<owner, audience>>
            BY <2>3 DEF Subscribe
        <3>2. QED
            BY <1>0, <2>0, <3>1 DEF Hearing, TypeOK
    <2>4. ASSUME NEW ts \in SUBSET Timer, Unsubscribe(s, ts) PROVE Hearing'
        <3>1. /\ \A t \in Timer : subscribers'[t] =
                        IF t \in ts THEN subscribers[t] \ {s} ELSE subscribers[t]
              /\ \A p \in Sender :
                    audience'[p] = IF timer[p] \in ts THEN audience[p] \ {s} ELSE audience[p]
              /\ owner' = owner
            BY <2>4 DEF Unsubscribe, NoLongerHears
        <3>2. \A p \in Sender : timer[p] \in Timer
            BY <1>0 DEF TypeOK
        <3>3. QED
            BY <1>0, <2>0, <3>1, <3>2 DEF Hearing
    <2>5. CASE Leave(s)
        <3>1. /\ \A p \in Sender : audience'[p] = audience[p] \ {s}
              /\ \A r \in Stream : r # s => owner'[r] = owner[r]
              /\ subscribers' = subscribers
            BY <1>0, <2>5 DEF Leave, NoLongerHears, OwnerAt, TypeOK, indexVars
        <3>2. \A q \in Sender : audience[q] \subseteq Stream
            BY <1>0 DEF TypeOK
        <3>3. QED
            BY <1>0, <2>0, <3>1, <3>2 DEF Hearing
    <2>6. CASE Unlink(s)
        <3>1. /\ \A t \in Timer : subscribers[t] \subseteq subscribers'[t] \cup {s}
              /\ \A r \in Stream : r # s => owner'[r] = owner[r]
              /\ owner[s] # "open"
              /\ audience' = audience
            BY <1>0, <2>6 DEF Unlink, OwnerAt, TypeOK
        <3>2. \A q \in Sender : audience[q] \subseteq Stream /\ timer[q] \in Timer
            BY <1>0 DEF TypeOK
        <3>3. QED
            BY <1>0, <2>0, <3>1, <3>2 DEF Hearing
    <2>7. QED
        BY <1>3, <2>1, <2>2, <2>3, <2>4, <2>5, <2>6 DEF OwnerStep, GoOnOwning
<1>4. QED
    BY <1>1, <1>2, <1>3 DEF Next

-----------------------------------------------------------------------------
(* The theorems *)

THEOREM Invariance == Spec => []IInv
<1>1. IInv /\ [Next]_vars => IInv'
    BY TypeKept, LinkedKept, HoldingKept, ServingKept, HearingKept DEF IInv
<1>2. QED
    BY <1>1, InitInv, PTL DEF Spec

\* Every variable of the event streams keeps its type, and no channel holds
\* more events than its capacity.
THEOREM TypeCorrect == Spec => []TypeOK
<1>1. IInv => TypeOK
    BY DEF IInv
<1>2. QED
    BY <1>1, Invariance, PTL

\* Subscribe, Unsubscribe and Close keep the two indexes together, and a closed
\* stream has left both.
THEOREM IndexesLinked == Spec => []Linked
<1>1. IInv => Linked
    BY DEF IInv
<1>2. QED
    BY <1>1, Invariance, PTL

\* Send never puts an event into a channel that Close has closed.
THEOREM NoSendOnClosed == Spec => []SendsToOpen
<1>1. IInv => SendsToOpen
    BY DEF IInv, Holding, SendsToOpen, TypeOK
<1>2. QED
    BY <1>1, Invariance, PTL

\* When Send returns, every stream that was open and subscribed all the time
\* has been given the event.
THEOREM SubscribersServed == Spec => Delivered
<1>1. ASSUME IInv, [Next]_vars
      PROVE  [\A p \in Sender : pc[p] = "sending" /\ pc'[p] = "idle" =>
                 \A s \in audience[p] : got[s][p] = sent[p]]_vars
    <2> SUFFICES ASSUME Next, NEW p \in Sender, pc[p] = "sending", pc'[p] = "idle",
                        NEW s \in audience[p]
                 PROVE  got[s][p] = sent[p]
        BY <1>1
    <2>1. Served(p)
        <3>1. PICK q \in Sender : SenderStep(q)
            BY DEF Next, OwnerStep, OwnerFrame, senderVars
        <3>2. pc \in [Sender -> {"idle", "called", "copied", "sending"}]
            BY <1>1 DEF IInv, TypeOK
        <3>3. RUnlock(q) /\ q = p
            BY <3>1, <3>2 DEF SenderStep, GoOnSending, Call, CopySubscribers, RLock,
                              NextTarget, Deliver, RUnlock, SenderAt
        <3>4. QED
            BY <3>3 DEF RUnlock
    <2>2. s # NoStream
        BY <1>1, NoStreamAssumption DEF IInv, TypeOK
    <2>3. QED
        BY <1>1, <2>1, <2>2 DEF IInv, Hearing, Served
<1>2. QED
    BY <1>1, Invariance, PTL DEF Spec, Delivered

\* A sender's events are put into a channel in their order, each at most once.
THEOREM EventsInOrder == Spec => InOrder
<1>1. ASSUME IInv, [Next]_vars
      PROVE  [\A s \in Stream : Len(channel'[s]) > Len(channel[s]) =>
                 LET event == channel'[s][Len(channel'[s])] IN
                 event.number > got[s][event.sender]]_vars
    <2> SUFFICES ASSUME Next, NEW s \in Stream, Len(channel'[s]) > Len(channel[s])
                 PROVE  LET event == channel'[s][Len(channel'[s])] IN
                        event.number > got[s][event.sender]
        BY <1>1
    <2>0. TypeOK /\ Serving /\ Holding
        BY <1>1 DEF IInv
    <2>1. channel[s] \in Seq(Event) /\ Len(channel[s]) \in Nat
        BY <2>0 DEF TypeOK
    <2>2. channel'[s] # channel[s]
        BY <2>1
    <2>3. PICK p \in Sender : Deliver(p)
        <3>1. ASSUME NEW r \in Stream, OwnerStep(r) PROVE FALSE
            <4>1. CASE Receive(r)
                <5>1. channel'[s] = IF s = r THEN Tail(channel[r]) ELSE channel[s]
                    BY <2>0, <4>1 DEF Receive, TypeOK
                <5>2. s = r /\ channel[s] # <<>>
                    BY <2>2, <4>1, <5>1 DEF Receive
                <5>3. Len(Tail(channel[s])) = Len(channel[s]) - 1
                    BY <2>1, <5>2
                <5>4. QED
                    BY <2>1, <5>1, <5>2, <5>3
            <4>2. CASE ~Receive(r)
                BY <2>2, <3>1, <4>2 DEF OwnerStep, GoOnOwning, Open, Lock, NewStream, Subscribe,
                                        Unsubscribe, Leave, Remove, Unlink, CloseChannel
            <4>3. QED
                BY <4>1, <4>2
        <3>2. PICK p \in Sender : SenderStep(p)
            BY <3>1 DEF Next
        <3>3. Deliver(p)
            BY <2>2, <3>2 DEF SenderStep, GoOnSending, Call, CopySubscribers, RLock,
                              NextTarget, RUnlock
        <3>4. QED
            BY <3>3
    <2> DEFINE e == [sender |-> p, number |-> sent[p]]
    <2>4. target[p] \in Stream /\ e \in Event
        BY <2>0, <2>3 DEF Deliver, TypeOK, Event
    <2>5. channel'[s] = IF s = target[p] THEN Append(channel[s], e) ELSE channel[s]
        BY <2>0, <2>3, <2>4 DEF Deliver, Put, TypeOK
    <2>6. e.sender = p /\ e.number = sent[p]
        OBVIOUS
    <2> HIDE DEF e
    <2>7. s = target[p] /\ channel'[s] = Append(channel[s], e)
        BY <2>2, <2>5
    <2>8. channel'[s][Len(channel'[s])] = e
        BY <2>1, <2>4, <2>7, PutAndTake
    <2>9. pc[p] = "sending"
        BY <2>0, <2>3 DEF Deliver, Holding
    <2>10. got[s][p] < sent[p]
        BY <2>0, <2>7, <2>9 DEF Serving
    <2>11. QED
        BY <2>6, <2>8, <2>10
<1>2. QED
    BY <1>1, Invariance, PTL DEF Spec, InOrder

=============================================================================
