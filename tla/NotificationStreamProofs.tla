---------------------- MODULE NotificationStreamProofs ----------------------
(***************************************************************************)
(* Theorems about the notifications, for every set of timers, users,       *)
(* streams and goroutines, every capacity and any number of failing calls. *)
(***************************************************************************)
EXTENDS NotificationStream, TLAPS

\* What a send and a receipt do to a channel.
LEMMA AppendElements ==
    ASSUME NEW S, NEW c \in Seq(S), NEW e \in S
    PROVE  /\ Append(c, e) \in Seq(S)
           /\ Len(c) \in Nat
           /\ Len(Append(c, e)) = Len(c) + 1
           /\ DOMAIN Append(c, e) = DOMAIN c \cup {Len(c) + 1}
           /\ Len(c) + 1 \notin DOMAIN c
           /\ Append(c, e)[Len(c) + 1] = e
           /\ \A i \in DOMAIN c : Append(c, e)[i] = c[i]
OBVIOUS

LEMMA TailElements ==
    ASSUME NEW S, NEW c \in Seq(S), c # <<>>
    PROVE  /\ Tail(c) \in Seq(S)
           /\ Len(c) \in Nat
           /\ Len(Tail(c)) = Len(c) - 1
           /\ Head(c) \in S
           /\ \A i \in DOMAIN Tail(c) : i \in Nat /\ i + 1 \in DOMAIN c /\ Tail(c)[i] = c[i + 1]
OBVIOUS

-----------------------------------------------------------------------------
(* The inductive invariant *)

\* Where a goroutine holds the mutex, and whose streams it serves then.
Holding ==
    \A j \in Job :
        /\ pc[j] \in {"users", "services"} <=> mu = j
        /\ pc[j] \in {"lock", "users", "store"} => togo[j] \subseteq User
        /\ pc[j] \in {"idle", "read", "relock", "clear", "done"} => togo[j] = {}
        /\ pc[j] = "services" => togo[j] \subseteq serviceStreams
        /\ targets[j] # {} => pc[j] = "users"
        /\ \A s \in targets[j] : s \in subscribers[UserOf[s]]

\* Before a goroutine has the mutex it has told nobody and found nobody offline;
\* then every user is waiting, being served, told or offline, and only one of it.
Apart ==
    \A j \in Job :
        /\ pc[j] \in {"idle", "read", "lock"} => offline[j] = {} /\ given[j] = {}
        /\ pc[j] = "users" => offline[j] \cap togo[j] = {}
        /\ \A s \in targets[j] : UserOf[s] \notin offline[j] /\ UserOf[s] \notin togo[j]
        /\ \A s \in Stream : \A i \in DOMAIN channel[s] :
              channel[s][i] = j => /\ pc[j] \notin {"idle", "read", "lock"}
                                   /\ pc[j] = "users" => UserOf[s] \notin togo[j]

\* What is left to be told, in every phase, when no call has failed.
LeftToTell(j) ==
    /\ pc[j] \in {"idle", "read", "lock", "users"} => refused[j] = {}
    /\ pc[j] = "lock" =>
          audience[j] = {u \in togo[j] : ~Skips(j, u)}
    /\ pc[j] = "users" =>
          /\ given[j] \cup offline[j] \subseteq audience[j]
          /\ \A s \in targets[j] : UserOf[s] \in audience[j]
          /\ \A u \in togo[j] : u \in audience[j] <=> ~Skips(j, u)
          /\ \A u \in audience[j] : \/ u \in given[j] \cup offline[j] \cup togo[j]
                                    \/ \E s \in targets[j] : UserOf[s] = u
    /\ pc[j] = "store" =>
          /\ given[j] \cup refused[j] \cup togo[j] = audience[j]
          /\ refused[j] \cup togo[j] \subseteq offline[j]
    /\ pc[j] = "relock" =>
          /\ given[j] \cup refused[j] = audience[j]
          /\ refused[j] \subseteq offline[j]
    /\ pc[j] = "services" =>
          /\ given[j] \cap User \subseteq audience[j]
          /\ audience[j] \ refused[j] \subseteq given[j]
          /\ refused[j] \subseteq offline[j]
          /\ offline[j] # {} => serviceStreams \subseteq given[j] \cup togo[j]

Telling == faults = 0 => \A j \in Job : LeftToTell(j)

IInv == TypeOK /\ Listening /\ Holding /\ Apart /\ ToldOnce /\ Telling

LEMMA InitInv == Init => IInv
<1> SUFFICES ASSUME Init PROVE IInv
    OBVIOUS
<1>1. TypeOK
    <2>1. /\ Len(queue) <= QueueCapacity
          /\ \A s \in Stream : Len(channel[s]) <= Capacity
          /\ \A b \in Service : Len(serviceChannel[b]) <= ServiceCapacity
        BY BoundsAssumption DEF Init
    <2>2. stored \in [Timer -> [User -> Kinds \cup {"none"}]]
        BY DEF Init
    <2>3. QED
        BY <2>1, <2>2 DEF Init, TypeOK, ReaderStates, Kinds
<1>2. Listening
    BY DEF Init, Listening
<1>3. Holding /\ Apart /\ Telling
    BY DistinctAssumption DEF Init, Holding, Apart, Telling, LeftToTell
<1>4. ToldOnce
    BY DEF Init, ToldOnce
<1>5. QED
    BY <1>1, <1>2, <1>3, <1>4 DEF IInv

-----------------------------------------------------------------------------
(* The types *)

\* The parts of the type invariant that change together.
JobTypes == /\ pc \in [Job -> {"idle", "read", "lock", "users", "store", "relock",
                               "services", "clear", "done"}]
            /\ kind \in [Job -> Kinds]
            /\ timer \in [Job -> Timer]
            /\ togo \in [Job -> SUBSET (User \cup Service)]
            /\ targets \in [Job -> SUBSET Stream]
            /\ offline \in [Job -> SUBSET User]
            /\ audience \in [Job -> SUBSET User]
            /\ given \in [Job -> SUBSET (User \cup Service)]
            /\ refused \in [Job -> SUBSET User]

WorldTypes == /\ cached \in [Timer -> SUBSET User]
              /\ stored \in [Timer -> [User -> Kinds \cup {"none"}]]
              /\ mu \in Job \cup {Free}
              /\ subscribers \in [User -> SUBSET Stream]
              /\ reader \in [Stream -> ReaderStates]
              /\ serviceStreams \subseteq Service
              /\ serviceReader \in [Service -> ReaderStates]
              /\ faults \in Nat

ChannelTypes == /\ queue \in Seq(Timer)
                /\ Len(queue) <= QueueCapacity
                /\ channel \in [Stream -> Seq(Job)]
                /\ \A s \in Stream : Len(channel[s]) <= Capacity
                /\ serviceChannel \in [Service -> Seq(Job)]
                /\ \A b \in Service : Len(serviceChannel[b]) <= ServiceCapacity

LEMMA TypesAreParts == TypeOK <=> JobTypes /\ WorldTypes /\ ChannelTypes
BY DEF TypeOK, JobTypes, WorldTypes, ChannelTypes

LEMMA JobTypesKept == ASSUME TypeOK, [Next]_vars PROVE JobTypes'
<1>0. JobTypes
    BY TypesAreParts
<1>1. CASE UNCHANGED jobVars
    BY <1>0, <1>1 DEF JobTypes, jobVars
<1>2. ASSUME NEW j \in Job, HandleDelete(j) PROVE JobTypes'
    <2>1. Head(queue) \in Timer
        BY <1>2 DEF TypeOK, HandleDelete
    <2>2. QED
        BY <1>0, <1>2, <2>1 DEF HandleDelete, Spawn, JobTypes, Kinds
<1>3. ASSUME NEW j \in Job, NEW t \in Timer, HandleTick(j, t) PROVE JobTypes'
    BY <1>0, <1>3 DEF HandleTick, Spawn, JobTypes, Kinds
<1>4. ASSUME NEW j \in Job, GoOn(j) PROVE JobTypes'
    <2>1. CASE ReadSubscribers(j)
        <3>1. cached[timer[j]] \in SUBSET User
            BY DEF TypeOK
        <3>2. QED
            BY <1>0, <2>1, <3>1 DEF ReadSubscribers, JobAt, JobTypes
    <2>2. CASE Lock(j) \/ EndStore(j) \/ LastUnlock(j) \/ Clear(j)
        BY <1>0, <2>2 DEF Lock, EndStore, LastUnlock, Clear, JobAt, JobTypes
    <2>3. ASSUME NEW u \in User, NextUser(j, u) PROVE JobTypes'
        <3>1. subscribers[u] \in SUBSET Stream
            BY DEF TypeOK
        <3>2. QED
            BY <1>0, <2>3, <3>1 DEF NextUser, JobTypes
    <2>4. ASSUME NEW u \in User, InsertNotification(j, u) PROVE JobTypes'
        BY <1>0, <2>4 DEF InsertNotification, JobTypes
    <2>5. ASSUME NEW s \in Stream, Deliver(j, s) PROVE JobTypes'
        BY <1>0, <2>5, UserOfAssumption DEF Deliver, JobTypes
    <2>6. CASE Unlock(j)
        BY <1>0, <2>6 DEF Unlock, JobAt, JobTypes
    <2>7. CASE Relock(j)
        <3>1. serviceStreams \subseteq Service
            BY DEF TypeOK
        <3>2. QED
            BY <1>0, <2>7, <3>1 DEF Relock, JobAt, JobTypes
    <2>8. ASSUME NEW b \in Service, TellService(j, b) PROVE JobTypes'
        BY <1>0, <2>8 DEF TellService, JobTypes
    <2>9. QED
        BY <1>4, <2>1, <2>2, <2>3, <2>4, <2>5, <2>6, <2>7, <2>8 DEF GoOn
<1>5. QED
    BY <1>1, <1>2, <1>3, <1>4
    DEF Next, Send, OwnerStep, OwnerFrame, ServiceStep, ServiceFrame, UserStep, vars

LEMMA WorldTypesKept == ASSUME TypeOK, [Next]_vars PROVE WorldTypes'
<1>0. WorldTypes
    BY TypesAreParts
<1>1. CASE UNCHANGED vars
    BY <1>0, <1>1 DEF WorldTypes, vars, storeVars, userVars, serviceVars
<1>2. ASSUME NEW t \in Timer, Send(t) PROVE WorldTypes'
    BY <1>0, <1>2 DEF Send, WorldTypes, storeVars, userVars, serviceVars
<1>3. ASSUME NEW j \in Job, HandleDelete(j) \/ \E t \in Timer : HandleTick(j, t)
      PROVE  WorldTypes'
    BY <1>0, <1>3 DEF HandleDelete, HandleTick, Spawn, WorldTypes, storeVars, userVars, serviceVars
<1>4. ASSUME NEW j \in Job, GoOn(j) PROVE WorldTypes'
    <2>1. CASE ReadSubscribers(j)
        BY <1>0, <2>1 DEF ReadSubscribers, Fault, WorldTypes, storeVars, userVars, serviceVars
    <2>2. CASE Lock(j) \/ Unlock(j) \/ EndStore(j) \/ Relock(j) \/ LastUnlock(j)
        BY <1>0, <2>2 DEF Lock, Unlock, EndStore, Relock, LastUnlock, WorldTypes, storeVars,
                          userVars, serviceVars
    <2>3. ASSUME NEW u \in User, NextUser(j, u) PROVE WorldTypes'
        BY <1>0, <2>3 DEF NextUser, WorldTypes, storeVars, userVars, serviceVars
    <2>4. ASSUME NEW u \in User, InsertNotification(j, u) PROVE WorldTypes'
        <3>1. timer[j] \in Timer /\ kind[j] \in Kinds
            BY DEF TypeOK
        <3>2. stored' \in [Timer -> [User -> Kinds \cup {"none"}]]
            <4>1. \/ stored' = stored
                  \/ stored' = [stored EXCEPT ![timer[j]] = [stored[timer[j]] EXCEPT ![u] = kind[j]]]
                BY <2>4 DEF InsertNotification
            <4>2. stored[timer[j]] \in [User -> Kinds \cup {"none"}]
                BY <1>0, <3>1 DEF WorldTypes
            <4>3. [stored[timer[j]] EXCEPT ![u] = kind[j]] \in [User -> Kinds \cup {"none"}]
                BY <3>1, <4>2
            <4>4. QED
                BY <1>0, <3>1, <4>1, <4>3 DEF WorldTypes
        <3>3. faults' \in Nat
            BY <1>0, <2>4 DEF InsertNotification, Fault, WorldTypes
        <3>4. QED
            BY <1>0, <2>4, <3>2, <3>3 DEF InsertNotification, WorldTypes, userVars, serviceVars
    <2>5. ASSUME NEW s \in Stream, Deliver(j, s) PROVE WorldTypes'
        BY <1>0, <2>5 DEF Deliver, WorldTypes, storeVars, serviceVars
    <2>6. ASSUME NEW b \in Service, TellService(j, b) PROVE WorldTypes'
        BY <1>0, <2>6 DEF TellService, WorldTypes, storeVars, userVars
    <2>7. CASE Clear(j)
        <3>1. cached' \in [Timer -> SUBSET User]
            BY <1>0, <2>7 DEF Clear, WorldTypes
        <3>2. faults' \in Nat
            BY <1>0, <2>7 DEF Clear, Fault, WorldTypes
        <3>3. QED
            BY <1>0, <2>7, <3>1, <3>2 DEF Clear, WorldTypes, userVars, serviceVars
    <2>8. QED
        BY <1>4, <2>1, <2>2, <2>3, <2>4, <2>5, <2>6, <2>7 DEF GoOn
<1>5. ASSUME NEW s \in Stream, OwnerStep(s) PROVE WorldTypes'
    <2>1. subscribers' \in [User -> SUBSET Stream]
        BY <1>0, <1>5, UserOfAssumption
        DEF OwnerStep, NewUserStream, Receive, Leave, Close, WorldTypes
    <2>2. reader' \in [Stream -> ReaderStates] /\ mu' = mu
        BY <1>0, <1>5 DEF OwnerStep, NewUserStream, Receive, Leave, Close, ReaderAt,
                          ReaderStates, WorldTypes
    <2>3. QED
        BY <1>0, <1>5, <2>1, <2>2 DEF OwnerStep, OwnerFrame, WorldTypes, storeVars, serviceVars
<1>6. ASSUME NEW b \in Service, ServiceStep(b) PROVE WorldTypes'
    <2>1. serviceStreams' \subseteq Service /\ serviceReader' \in [Service -> ReaderStates]
        BY <1>0, <1>6 DEF ServiceStep, NewStream, ReceiveService, LeaveService, CloseService,
                          ServiceAt, ReaderStates, WorldTypes
    <2>2. QED
        BY <1>0, <1>6, <2>1 DEF ServiceStep, ServiceFrame, WorldTypes, storeVars, userVars
<1>7. ASSUME NEW u \in User, UserStep(u) PROVE WorldTypes'
    <2>1. cached' \in [Timer -> SUBSET User]
        BY <1>0, <1>7 DEF UserStep, CacheSubscribe, CacheUnsubscribe, DeleteUserNotifications,
                          WorldTypes
    <2>2. stored' \in [Timer -> [User -> Kinds \cup {"none"}]]
        BY <1>0, <1>7 DEF UserStep, CacheSubscribe, CacheUnsubscribe, DeleteUserNotifications,
                          WorldTypes
    <2>3. QED
        BY <1>0, <1>7, <2>1, <2>2 DEF UserStep, WorldTypes, userVars, serviceVars
<1>8. QED
    BY <1>1, <1>2, <1>3, <1>4, <1>5, <1>6, <1>7 DEF Next

\* One channel among several is appended to or loses its head.
LEMMA ChannelsBounded ==
    ASSUME NEW C, NEW S, NEW cap \in Nat, NEW chan \in [C -> Seq(S)],
           \A c \in C : Len(chan[c]) <= cap,
           NEW d \in C, NEW seq \in Seq(S), Len(seq) <= cap
    PROVE  /\ [chan EXCEPT ![d] = seq] \in [C -> Seq(S)]
           /\ \A c \in C : Len([chan EXCEPT ![d] = seq][c]) <= cap
<1>1. [chan EXCEPT ![d] = seq] \in [C -> Seq(S)]
    OBVIOUS
<1>2. \A c \in C : [chan EXCEPT ![d] = seq][c] = IF c = d THEN seq ELSE chan[c]
    OBVIOUS
<1>3. QED
    BY <1>1, <1>2

LEMMA ChannelTypesKept == ASSUME TypeOK, [Next]_vars PROVE ChannelTypes'
<1>0. ChannelTypes
    BY TypesAreParts
<1>1. CASE UNCHANGED <<queue, channel, serviceChannel>>
    BY <1>0, <1>1 DEF ChannelTypes
<1>2. ASSUME NEW t \in Timer, Send(t) PROVE ChannelTypes'
    <2>1. queue \in Seq(Timer) /\ Len(queue) < QueueCapacity /\ queue' = Append(queue, t)
        BY <1>0, <1>2 DEF Send, ChannelTypes
    <2>2. /\ queue' \in Seq(Timer)
          /\ Len(queue') = Len(queue) + 1
          /\ Len(queue) \in Nat
        BY <2>1, AppendElements
    <2>3. Len(queue') <= QueueCapacity
        BY <2>1, <2>2, BoundsAssumption
    <2>4. QED
        BY <1>0, <1>2, <2>2, <2>3 DEF Send, ChannelTypes, userVars, serviceVars
<1>3. ASSUME NEW j \in Job, HandleDelete(j) PROVE ChannelTypes'
    <2>1. queue \in Seq(Timer) /\ queue # <<>> /\ queue' = Tail(queue) /\ Len(queue) <= QueueCapacity
        BY <1>0, <1>3 DEF HandleDelete, ChannelTypes
    <2>2. queue' \in Seq(Timer) /\ Len(queue') = Len(queue) - 1 /\ Len(queue) \in Nat
        BY <2>1, TailElements
    <2>3. Len(queue') <= QueueCapacity
        BY <2>1, <2>2, BoundsAssumption
    <2>4. QED
        BY <1>0, <1>3, <2>2, <2>3 DEF HandleDelete, Spawn, ChannelTypes, userVars, serviceVars
<1>4. ASSUME NEW j \in Job, NEW s \in Stream, Deliver(j, s), queue' = queue PROVE ChannelTypes'
    <2>1. channel[s] \in Seq(Job) /\ Len(channel[s]) < Capacity
        BY <1>0, <1>4 DEF Deliver, ChannelTypes
    <2>2. /\ Append(channel[s], j) \in Seq(Job)
          /\ Len(Append(channel[s], j)) = Len(channel[s]) + 1
          /\ Len(channel[s]) \in Nat
        BY <2>1, AppendElements
    <2>3. Len(Append(channel[s], j)) <= Capacity
        BY <2>1, <2>2, BoundsAssumption
    <2>4. channel' = [channel EXCEPT ![s] = Append(channel[s], j)]
        BY <1>4 DEF Deliver
    <2>5. channel \in [Stream -> Seq(Job)] /\ \A r \in Stream : Len(channel[r]) <= Capacity
        BY <1>0 DEF ChannelTypes
    <2>6. channel' \in [Stream -> Seq(Job)] /\ \A r \in Stream : Len(channel'[r]) <= Capacity
        BY <2>2, <2>3, <2>4, <2>5, BoundsAssumption, ChannelsBounded
    <2>7. UNCHANGED serviceChannel
        BY <1>4 DEF Deliver, serviceVars
    <2>8. QED
        BY <1>0, <1>4, <2>6, <2>7 DEF ChannelTypes
<1>5. ASSUME NEW j \in Job, NEW b \in Service, TellService(j, b), queue' = queue PROVE ChannelTypes'
    <2>1. serviceChannel[b] \in Seq(Job) /\ Len(serviceChannel[b]) < ServiceCapacity
        BY <1>0, <1>5 DEF TellService, ChannelTypes
    <2>2. /\ Append(serviceChannel[b], j) \in Seq(Job)
          /\ Len(Append(serviceChannel[b], j)) = Len(serviceChannel[b]) + 1
          /\ Len(serviceChannel[b]) \in Nat
        BY <2>1, AppendElements
    <2>3. Len(Append(serviceChannel[b], j)) <= ServiceCapacity
        BY <2>1, <2>2, BoundsAssumption
    <2>4. serviceChannel' = [serviceChannel EXCEPT ![b] = Append(serviceChannel[b], j)]
        BY <1>5 DEF TellService
    <2>5. /\ serviceChannel \in [Service -> Seq(Job)]
          /\ \A r \in Service : Len(serviceChannel[r]) <= ServiceCapacity
        BY <1>0 DEF ChannelTypes
    <2>6. /\ serviceChannel' \in [Service -> Seq(Job)]
          /\ \A r \in Service : Len(serviceChannel'[r]) <= ServiceCapacity
        BY <2>2, <2>3, <2>4, <2>5, BoundsAssumption, ChannelsBounded
    <2>7. UNCHANGED channel
        BY <1>5 DEF TellService, userVars
    <2>8. QED
        BY <1>0, <1>5, <2>6, <2>7 DEF ChannelTypes
<1>6. ASSUME NEW s \in Stream, Receive(s), OwnerFrame PROVE ChannelTypes'
    <2>1. channel[s] \in Seq(Job) /\ channel[s] # <<>> /\ Len(channel[s]) <= Capacity
        BY <1>0, <1>6 DEF Receive, ChannelTypes
    <2>2. /\ Tail(channel[s]) \in Seq(Job)
          /\ Len(Tail(channel[s])) = Len(channel[s]) - 1
          /\ Len(channel[s]) \in Nat
        BY <2>1, TailElements
    <2>3. Len(Tail(channel[s])) <= Capacity
        BY <2>1, <2>2, BoundsAssumption
    <2>4. channel' = [channel EXCEPT ![s] = Tail(channel[s])]
        BY <1>6 DEF Receive
    <2>5. channel \in [Stream -> Seq(Job)] /\ \A r \in Stream : Len(channel[r]) <= Capacity
        BY <1>0 DEF ChannelTypes
    <2>6. channel' \in [Stream -> Seq(Job)] /\ \A r \in Stream : Len(channel'[r]) <= Capacity
        BY <2>2, <2>3, <2>4, <2>5, BoundsAssumption, ChannelsBounded
    <2>7. QED
        BY <1>0, <1>6, <2>6 DEF ChannelTypes, OwnerFrame, serviceVars
<1>7. ASSUME NEW b \in Service, ReceiveService(b), ServiceFrame PROVE ChannelTypes'
    <2>1. /\ serviceChannel[b] \in Seq(Job) /\ serviceChannel[b] # <<>>
          /\ Len(serviceChannel[b]) <= ServiceCapacity
        BY <1>0, <1>7 DEF ReceiveService, ChannelTypes
    <2>2. /\ Tail(serviceChannel[b]) \in Seq(Job)
          /\ Len(Tail(serviceChannel[b])) = Len(serviceChannel[b]) - 1
          /\ Len(serviceChannel[b]) \in Nat
        BY <2>1, TailElements
    <2>3. Len(Tail(serviceChannel[b])) <= ServiceCapacity
        BY <2>1, <2>2, BoundsAssumption
    <2>4. serviceChannel' = [serviceChannel EXCEPT ![b] = Tail(serviceChannel[b])]
        BY <1>7 DEF ReceiveService
    <2>5. /\ serviceChannel \in [Service -> Seq(Job)]
          /\ \A r \in Service : Len(serviceChannel[r]) <= ServiceCapacity
        BY <1>0 DEF ChannelTypes
    <2>6. /\ serviceChannel' \in [Service -> Seq(Job)]
          /\ \A r \in Service : Len(serviceChannel'[r]) <= ServiceCapacity
        BY <2>2, <2>3, <2>4, <2>5, BoundsAssumption, ChannelsBounded
    <2>7. QED
        BY <1>0, <1>7, <2>6 DEF ChannelTypes, ServiceFrame, userVars
<1>8. ASSUME NEW j \in Job, GoOn(j) PROVE ChannelTypes'
    <2>1. queue' = queue
        BY <1>8 DEF GoOn
    <2>2. CASE \/ \E s \in Stream : Deliver(j, s)
               \/ \E b \in Service : TellService(j, b)
        BY <1>4, <1>5, <2>1, <2>2
    <2>3. CASE ReadSubscribers(j) \/ Lock(j) \/ Unlock(j) \/ EndStore(j) \/ Relock(j)
                  \/ LastUnlock(j) \/ Clear(j)
        BY <1>1, <2>1, <2>3 DEF ReadSubscribers, Lock, Unlock, EndStore, Relock, LastUnlock, Clear,
                                userVars, serviceVars
    <2>4. ASSUME NEW u \in User, NextUser(j, u) \/ InsertNotification(j, u) PROVE ChannelTypes'
        BY <1>1, <2>1, <2>4 DEF NextUser, InsertNotification, userVars, serviceVars
    <2>5. QED
        BY <1>8, <2>2, <2>3, <2>4 DEF GoOn
<1>9. ASSUME NEW s \in Stream, OwnerStep(s) PROVE ChannelTypes'
    <2>1. CASE Receive(s)
        BY <1>6, <1>9, <2>1 DEF OwnerStep
    <2>2. CASE NewUserStream(s) \/ Leave(s) \/ Close(s)
        BY <1>1, <1>9, <2>2 DEF OwnerStep, OwnerFrame, NewUserStream, Leave, Close, serviceVars
    <2>3. QED
        BY <1>9, <2>1, <2>2 DEF OwnerStep
<1>10. ASSUME NEW b \in Service, ServiceStep(b) PROVE ChannelTypes'
    <2>1. CASE ReceiveService(b)
        BY <1>7, <1>10, <2>1 DEF ServiceStep
    <2>2. CASE NewStream(b) \/ LeaveService(b) \/ CloseService(b)
        BY <1>1, <1>10, <2>2 DEF ServiceStep, ServiceFrame, NewStream, LeaveService, CloseService,
                                 userVars
    <2>3. QED
        BY <1>10, <2>1, <2>2 DEF ServiceStep
<1>11. CASE \/ UNCHANGED vars
            \/ \E j \in Job, t \in Timer : HandleTick(j, t)
            \/ \E u \in User : UserStep(u)
    BY <1>1, <1>11 DEF vars, HandleTick, Spawn, UserStep, userVars, serviceVars
<1>12. QED
    BY <1>2, <1>3, <1>8, <1>9, <1>10, <1>11 DEF Next

LEMMA TypeKept == ASSUME TypeOK, [Next]_vars PROVE TypeOK'
<1>1. JobTypes' /\ WorldTypes' /\ ChannelTypes'
    BY JobTypesKept, WorldTypesKept, ChannelTypesKept
<1>2. QED
    BY <1>1 DEF TypeOK, JobTypes, WorldTypes, ChannelTypes

-----------------------------------------------------------------------------
(* The streams of the handler *)

LEMMA ListeningKept == ASSUME TypeOK, Listening, [Next]_vars PROVE Listening'
<1>1. CASE UNCHANGED <<subscribers, reader>>
    BY <1>1 DEF Listening
<1>2. ASSUME NEW s \in Stream, OwnerStep(s) PROVE Listening'
    <2>1. CASE Receive(s)
        BY <1>1, <2>1 DEF Receive
    <2>2. ASSUME NEW to, reader' = [reader EXCEPT ![s] = to], reader[s] \in {"open", "closing"},
                 to \in {"open", "closing"}, subscribers' = subscribers
          PROVE  Listening'
        BY <2>2 DEF Listening, TypeOK
    <2>3. CASE Leave(s)
        BY <2>2, <2>3 DEF Leave, ReaderAt
    <2>4. CASE NewUserStream(s)
        <3>1. /\ reader' = [reader EXCEPT ![s] = "open"]
              /\ subscribers' = [subscribers EXCEPT ![UserOf[s]] = @ \cup {s}]
              /\ UserOf[s] \in User
            BY <2>4, UserOfAssumption DEF NewUserStream, ReaderAt
        <3>2. \A u \in User : \A r \in Stream :
                 r \in subscribers'[u] <=> r \in subscribers[u] \/ (r = s /\ u = UserOf[s])
            BY <3>1 DEF TypeOK
        <3>3. \A r \in Stream : reader'[r] = IF r = s THEN "open" ELSE reader[r]
            BY <3>1 DEF TypeOK
        <3>4. \A u \in User : subscribers'[u] \subseteq Stream
            BY <3>1 DEF TypeOK
        <3>5. \A u \in User : \A r \in Stream :
                 r \in subscribers[u] <=> UserOf[r] = u /\ reader[r] \in {"open", "closing"}
            BY DEF Listening
        <3>6. \A u \in User : \A r \in Stream :
                 r \in subscribers'[u] <=> UserOf[r] = u /\ reader'[r] \in {"open", "closing"}
            BY <3>2, <3>3, <3>5
        <3>7. QED
            BY <3>4, <3>6 DEF Listening
    <2>5. CASE Close(s)
        <3>1. /\ reader' = [reader EXCEPT ![s] = "closed"]
              /\ subscribers' = [subscribers EXCEPT ![UserOf[s]] = @ \ {s}]
              /\ UserOf[s] \in User
            BY <2>5, UserOfAssumption DEF Close, ReaderAt
        <3>2. \A u \in User : \A r \in Stream :
                 r \in subscribers'[u] <=> r \in subscribers[u] /\ ~(r = s /\ u = UserOf[s])
            BY <3>1 DEF TypeOK
        <3>3. \A r \in Stream : reader'[r] = IF r = s THEN "closed" ELSE reader[r]
            BY <3>1 DEF TypeOK
        <3>4. \A u \in User : subscribers'[u] \subseteq Stream
            BY <3>1 DEF TypeOK
        <3>5. \A u \in User : \A r \in Stream :
                 r \in subscribers[u] <=> UserOf[r] = u /\ reader[r] \in {"open", "closing"}
            BY DEF Listening
        <3>6. \A u \in User : \A r \in Stream :
                 r \in subscribers'[u] <=> UserOf[r] = u /\ reader'[r] \in {"open", "closing"}
            BY <3>2, <3>3, <3>5
        <3>7. QED
            BY <3>4, <3>6 DEF Listening
    <2>6. QED
        BY <1>2, <2>1, <2>3, <2>4, <2>5 DEF OwnerStep
<1>3. ASSUME NEW j \in Job, GoOn(j) PROVE Listening'
    BY <1>1, <1>3 DEF GoOn, ReadSubscribers, Lock, NextUser, InsertNotification, Deliver, Unlock,
                      EndStore, Relock, TellService, LastUnlock, Clear, userVars
<1>4. QED
    BY <1>1, <1>2, <1>3 DEF Next, Send, HandleDelete, HandleTick, Spawn, ServiceStep,
                            ServiceFrame, UserStep, userVars, vars

-----------------------------------------------------------------------------
(* The mutex *)

\* Steps of the world: the goroutines stay, but for streams that come and go
\* while the mutex is free, and messages that are received.
LEMMA WorldSteps ==
    ASSUME [Next]_vars, ~(\E j \in Job : GoOn(j) \/ HandleDelete(j) \/ \E t \in Timer : HandleTick(j, t))
    PROVE  /\ UNCHANGED <<mu, jobVars, faults>>
           /\ mu = Free \/ UNCHANGED <<subscribers, serviceStreams>>
           /\ channel' = channel \/ \E s \in Stream : Receive(s)
<1>1. CASE UNCHANGED vars \/ \E t \in Timer : Send(t)
    BY <1>1 DEF vars, Send, userVars, serviceVars
<1>2. ASSUME NEW s \in Stream, OwnerStep(s)
      PROVE  /\ UNCHANGED <<mu, jobVars, faults>>
             /\ mu = Free \/ UNCHANGED <<subscribers, serviceStreams>>
             /\ channel' = channel \/ Receive(s)
    BY <1>2 DEF OwnerStep, OwnerFrame, NewUserStream, Receive, Leave, Close, serviceVars
<1>3. ASSUME NEW b \in Service, ServiceStep(b)
      PROVE  /\ UNCHANGED <<mu, jobVars, faults, channel>>
             /\ mu = Free \/ UNCHANGED <<subscribers, serviceStreams>>
    BY <1>3 DEF ServiceStep, ServiceFrame, NewStream, ReceiveService, LeaveService, CloseService,
                userVars
<1>4. ASSUME NEW u \in User, UserStep(u)
      PROVE  UNCHANGED <<mu, jobVars, faults, channel, subscribers, serviceStreams>>
    BY <1>4 DEF UserStep, userVars, serviceVars
<1>5. QED
    BY <1>1, <1>2, <1>3, <1>4 DEF Next

LEMMA HoldingKept == ASSUME IInv, [Next]_vars PROVE Holding'
<1>0. TypeOK /\ Holding /\ Listening /\ JobTypes
    BY TypesAreParts DEF IInv
<1>1. CASE ~(\E j \in Job : GoOn(j) \/ HandleDelete(j) \/ \E t \in Timer : HandleTick(j, t))
    <2>1. /\ UNCHANGED <<mu, pc, togo, targets>>
          /\ mu = Free \/ UNCHANGED <<subscribers, serviceStreams>>
        BY <1>1, WorldSteps DEF jobVars
    <2>2. ASSUME mu = Free, NEW j \in Job PROVE pc[j] \notin {"users", "services"} /\ targets[j] = {}
        BY <1>0, <2>2, DistinctAssumption DEF Holding
    <2>3. CASE mu = Free
        BY <1>0, <2>1, <2>2, <2>3 DEF Holding
    <2>4. CASE UNCHANGED <<subscribers, serviceStreams>>
        BY <1>0, <2>1, <2>4 DEF Holding
    <2>5. QED
        BY <2>1, <2>3, <2>4
<1>2. ASSUME NEW j \in Job, HandleDelete(j) \/ \E t \in Timer : HandleTick(j, t) PROVE Holding'
    BY <1>0, <1>2 DEF HandleDelete, HandleTick, Spawn, userVars, serviceVars, JobTypes, Holding
<1>3. ASSUME NEW j \in Job, GoOn(j) PROVE Holding'
    <2>1. CASE ReadSubscribers(j)
        <3>1. cached[timer[j]] \in SUBSET User
            BY <1>0 DEF TypeOK
        <3>2. /\ UNCHANGED <<mu, subscribers, serviceStreams, targets>>
              /\ pc[j] = "read"
              /\ \/ togo' = [togo EXCEPT ![j] = cached[timer[j]]] /\ pc' = [pc EXCEPT ![j] = "lock"]
                 \/ togo' = togo /\ pc' = [pc EXCEPT ![j] = "clear"]
            BY <2>1 DEF ReadSubscribers, JobAt, userVars, serviceVars
        <3>3. QED
            BY <1>0, <3>1, <3>2 DEF JobTypes, Holding
    <2>2. CASE Lock(j)
        BY <1>0, <2>2, DistinctAssumption DEF Lock, JobAt, userVars, serviceVars, JobTypes, Holding
    <2>3. ASSUME NEW u \in User, NextUser(j, u) PROVE Holding'
        <3>1. \A s \in subscribers[u] : s \in subscribers[UserOf[s]]
            BY <1>0 DEF Listening
        <3>2. QED
            BY <1>0, <2>3, <3>1 DEF NextUser, userVars, serviceVars, JobTypes, Holding
    <2>4. ASSUME NEW u \in User, InsertNotification(j, u) PROVE Holding'
        BY <1>0, <2>4 DEF InsertNotification, userVars, serviceVars, JobTypes, Holding
    <2>5. ASSUME NEW s \in Stream, Deliver(j, s) PROVE Holding'
        BY <1>0, <2>5 DEF Deliver, serviceVars, JobTypes, Holding
    <2>6. CASE Unlock(j)
        BY <1>0, <2>6, DistinctAssumption DEF Unlock, JobAt, userVars, serviceVars, JobTypes, Holding
    <2>7. CASE EndStore(j) \/ Clear(j)
        BY <1>0, <2>7 DEF EndStore, Clear, JobAt, userVars, serviceVars, JobTypes, Holding
    <2>8. CASE Relock(j)
        BY <1>0, <2>8, DistinctAssumption DEF Relock, JobAt, userVars, serviceVars, JobTypes, Holding
    <2>9. ASSUME NEW b \in Service, TellService(j, b) PROVE Holding'
        BY <1>0, <2>9 DEF TellService, userVars, JobTypes, Holding
    <2>10. CASE LastUnlock(j)
        BY <1>0, <2>10, DistinctAssumption DEF LastUnlock, JobAt, userVars, serviceVars, JobTypes, Holding
    <2>11. QED
        BY <1>3, <2>1, <2>2, <2>3, <2>4, <2>5, <2>6, <2>7, <2>8, <2>9, <2>10 DEF GoOn
<1>4. QED
    BY <1>1, <1>2, <1>3

-----------------------------------------------------------------------------
(* Who has been told, found offline, or is still to be told *)

\* A receipt moves the rest of its channel up by one place.
LEMMA ReceiptShifts ==
    ASSUME TypeOK, NEW s \in Stream, Receive(s)
    PROVE  /\ \A r \in Stream \ {s} : channel'[r] = channel[r]
           /\ \A i \in DOMAIN channel'[s] : /\ i \in Nat
                                            /\ i + 1 \in DOMAIN channel[s]
                                            /\ channel'[s][i] = channel[s][i + 1]
<1>1. channel \in [Stream -> Seq(Job)] /\ channel' = [channel EXCEPT ![s] = Tail(channel[s])]
    BY DEF TypeOK, Receive
<1>2. channel[s] \in Seq(Job) /\ channel[s] # <<>>
    BY <1>1 DEF Receive
<1>3. \A i \in DOMAIN Tail(channel[s]) :
         i \in Nat /\ i + 1 \in DOMAIN channel[s] /\ Tail(channel[s])[i] = channel[s][i + 1]
    BY <1>2, TailElements
<1>4. channel'[s] = Tail(channel[s]) /\ \A r \in Stream \ {s} : channel'[r] = channel[r]
    BY <1>1
<1>5. QED
    BY <1>3, <1>4

\* A delivery adds its notification behind the others.
LEMMA DeliveryAdds ==
    ASSUME TypeOK, NEW j \in Job, NEW s \in Stream, Deliver(j, s)
    PROVE  /\ \A r \in Stream \ {s} : channel'[r] = channel[r]
           /\ DOMAIN channel'[s] = DOMAIN channel[s] \cup {Len(channel[s]) + 1}
           /\ Len(channel[s]) + 1 \notin DOMAIN channel[s]
           /\ channel'[s][Len(channel[s]) + 1] = j
           /\ \A i \in DOMAIN channel[s] : channel'[s][i] = channel[s][i]
<1>1. channel \in [Stream -> Seq(Job)] /\ channel' = [channel EXCEPT ![s] = Append(channel[s], j)]
    BY DEF TypeOK, Deliver
<1>2. channel[s] \in Seq(Job)
    BY <1>1
<1>3. /\ DOMAIN Append(channel[s], j) = DOMAIN channel[s] \cup {Len(channel[s]) + 1}
      /\ Len(channel[s]) + 1 \notin DOMAIN channel[s]
      /\ Append(channel[s], j)[Len(channel[s]) + 1] = j
      /\ \A i \in DOMAIN channel[s] : Append(channel[s], j)[i] = channel[s][i]
    BY <1>2, AppendElements
<1>4. channel'[s] = Append(channel[s], j) /\ \A r \in Stream \ {s} : channel'[r] = channel[r]
    BY <1>1
<1>5. QED
    BY <1>3, <1>4

LEMMA ApartKept == ASSUME IInv, [Next]_vars PROVE Apart'
<1>0. JobTypes /\ Holding /\ Listening /\ Apart /\ TypeOK
    BY TypesAreParts DEF IInv
<1>1. CASE ~(\E j \in Job : GoOn(j) \/ HandleDelete(j) \/ \E t \in Timer : HandleTick(j, t))
    <2>1. /\ UNCHANGED <<pc, togo, targets, offline, given>>
          /\ channel' = channel \/ \E s \in Stream : Receive(s)
        BY <1>1, WorldSteps DEF jobVars
    <2>2. CASE channel' = channel
        BY <1>0, <2>1, <2>2 DEF Apart
    <2>3. ASSUME NEW s \in Stream, Receive(s) PROVE Apart'
        <3>1. /\ \A r \in Stream \ {s} : channel'[r] = channel[r]
              /\ \A i \in DOMAIN channel'[s] : /\ i + 1 \in DOMAIN channel[s]
                                               /\ channel'[s][i] = channel[s][i + 1]
            BY <1>0, <2>3, ReceiptShifts
        <3>2. QED
            BY <1>0, <2>1, <3>1 DEF Apart
    <2>4. QED
        BY <2>1, <2>2, <2>3
<1>2. ASSUME NEW j \in Job, HandleDelete(j) \/ \E t \in Timer : HandleTick(j, t) PROVE Apart'
    BY <1>0, <1>2 DEF HandleDelete, HandleTick, Spawn, userVars, JobTypes, Apart
<1>3. ASSUME NEW j \in Job, GoOn(j) PROVE Apart'
    <2>1. CASE ReadSubscribers(j)
        <3>1. /\ UNCHANGED <<channel, targets, offline, given>>
              /\ pc[j] = "read"
              /\ \E to \in {"lock", "clear"} : pc' = [pc EXCEPT ![j] = to]
              /\ \A k \in Job \ {j} : togo'[k] = togo[k]
            BY <1>0, <2>1 DEF ReadSubscribers, JobAt, userVars, JobTypes
        <3>2. targets[j] = {}
            BY <1>0, <3>1 DEF Holding
        <3>3. QED
            BY <1>0, <3>1, <3>2 DEF JobTypes, Apart
    <2>2. CASE Lock(j)
        BY <1>0, <2>2 DEF Lock, JobAt, userVars, JobTypes, Apart
    <2>3. ASSUME NEW u \in User, NextUser(j, u) PROVE Apart'
        <3>1. \A s \in subscribers[u] : s \in Stream /\ UserOf[s] = u
            BY <1>0 DEF Listening
        <3>2. QED
            BY <1>0, <2>3, <3>1 DEF NextUser, userVars, JobTypes, Apart
    <2>4. ASSUME NEW u \in User, InsertNotification(j, u) PROVE Apart'
        <3>1. targets[j] = {} /\ pc[j] = "store"
            BY <1>0, <2>4 DEF InsertNotification, Holding
        <3>2. QED
            BY <1>0, <2>4, <3>1 DEF InsertNotification, userVars, JobTypes, Apart
    <2>5. ASSUME NEW s \in Stream, Deliver(j, s) PROVE Apart'
        <3>1. /\ \A r \in Stream \ {s} : channel'[r] = channel[r]
              /\ DOMAIN channel'[s] = DOMAIN channel[s] \cup {Len(channel[s]) + 1}
              /\ channel'[s][Len(channel[s]) + 1] = j
              /\ \A i \in DOMAIN channel[s] : channel'[s][i] = channel[s][i]
            BY <1>0, <2>5, DeliveryAdds
        <3>2. /\ UNCHANGED <<pc, togo, offline>>
              /\ s \in targets[j]
              /\ \A k \in Job : targets'[k] \subseteq targets[k]
              /\ \A k \in Job \ {j} : given'[k] = given[k]
            BY <1>0, <2>5 DEF Deliver, JobTypes
        <3>3. pc[j] = "users" /\ UserOf[s] \notin togo[j]
            BY <1>0, <3>2 DEF Holding, Apart
        <3>4. QED
            BY <1>0, <3>1, <3>2, <3>3 DEF Apart
    <2>6. CASE Unlock(j)
        BY <1>0, <2>6 DEF Unlock, JobAt, userVars, JobTypes, Apart
    <2>7. CASE EndStore(j) \/ LastUnlock(j) \/ Clear(j)
        BY <1>0, <2>7 DEF EndStore, LastUnlock, Clear, JobAt, userVars, JobTypes, Apart
    <2>8. CASE Relock(j)
        <3>1. targets[j] = {}
            BY <1>0, <2>8 DEF Relock, JobAt, Holding
        <3>2. QED
            BY <1>0, <2>8, <3>1 DEF Relock, JobAt, userVars, JobTypes, Apart
    <2>9. ASSUME NEW b \in Service, TellService(j, b) PROVE Apart'
        <3>1. targets[j] = {}
            BY <1>0, <2>9 DEF TellService, Holding
        <3>2. QED
            BY <1>0, <2>9, <3>1 DEF TellService, userVars, JobTypes, Apart
    <2>10. QED
        BY <1>3, <2>1, <2>2, <2>3, <2>4, <2>5, <2>6, <2>7, <2>8, <2>9 DEF GoOn
<1>4. QED
    BY <1>1, <1>2, <1>3

LEMMA ToldOnceKept == ASSUME IInv, [Next]_vars PROVE ToldOnce'
<1>0. JobTypes /\ Listening /\ Holding /\ Apart /\ ToldOnce /\ TypeOK
    BY TypesAreParts DEF IInv
<1>1. CASE UNCHANGED <<channel, targets, offline>>
    BY <1>0, <1>1 DEF ToldOnce
<1>2. ASSUME NEW s \in Stream, Receive(s), OwnerFrame PROVE ToldOnce'
    <2>1. /\ \A r \in Stream \ {s} : channel'[r] = channel[r]
          /\ \A i \in DOMAIN channel'[s] : /\ i \in Nat
                                           /\ i + 1 \in DOMAIN channel[s]
                                           /\ channel'[s][i] = channel[s][i + 1]
        BY <1>0, <1>2, ReceiptShifts
    <2>2. UNCHANGED <<targets, offline>>
        BY <1>2 DEF OwnerFrame, jobVars
    <2>3. ASSUME NEW j \in Job, NEW i \in DOMAIN channel'[s], channel'[s][i] = j
          PROVE  /\ UserOf[s] \notin offline[j]
                 /\ s \notin targets[j]
                 /\ \A k \in DOMAIN channel'[s] : channel'[s][k] = j => k = i
        <3>1. i \in Nat /\ i + 1 \in DOMAIN channel[s] /\ channel[s][i + 1] = j
            BY <2>1, <2>3
        <3>2. /\ UserOf[s] \notin offline[j]
              /\ s \notin targets[j]
              /\ \A m \in DOMAIN channel[s] : channel[s][m] = j => m = i + 1
            BY <1>0, <3>1 DEF ToldOnce
        <3>3. ASSUME NEW k \in DOMAIN channel'[s], channel'[s][k] = j PROVE k = i
            <4>1. k \in Nat /\ k + 1 \in DOMAIN channel[s] /\ channel[s][k + 1] = j
                BY <2>1, <3>3
            <4>2. k + 1 = i + 1
                BY <3>2, <4>1
            <4>3. QED
                BY <3>1, <4>1, <4>2
        <3>4. QED
            BY <3>2, <3>3
    <2>4. QED
        BY <1>0, <2>1, <2>2, <2>3 DEF ToldOnce
<1>3. ASSUME NEW j \in Job, NEW u \in User, NextUser(j, u) PROVE ToldOnce'
    <2>1. \A s \in subscribers[u] : s \in Stream /\ UserOf[s] = u
        BY <1>0 DEF Listening
    <2>2. /\ channel' = channel
          /\ \A k \in Job \ {j} : targets'[k] = targets[k] /\ offline'[k] = offline[k]
          /\ \A s \in targets'[j] : s \in Stream /\ UserOf[s] = u
          /\ offline'[j] \subseteq offline[j] \cup {u}
          /\ pc[j] = "users" /\ u \in togo[j]
        BY <1>0, <1>3, <2>1 DEF NextUser, userVars, JobTypes
    <2>3. \A s \in Stream : \A i \in DOMAIN channel[s] : channel[s][i] = j => UserOf[s] # u
        BY <1>0, <2>2 DEF Apart
    <2>4. QED
        BY <1>0, <2>2, <2>3 DEF ToldOnce
<1>4. ASSUME NEW j \in Job, NEW s \in Stream, Deliver(j, s) PROVE ToldOnce'
    <2>1. /\ \A r \in Stream \ {s} : channel'[r] = channel[r]
          /\ DOMAIN channel'[s] = DOMAIN channel[s] \cup {Len(channel[s]) + 1}
          /\ Len(channel[s]) + 1 \notin DOMAIN channel[s]
          /\ channel'[s][Len(channel[s]) + 1] = j
          /\ \A i \in DOMAIN channel[s] : channel'[s][i] = channel[s][i]
        BY <1>0, <1>4, DeliveryAdds
    <2>2. /\ offline' = offline
          /\ s \in targets[j]
          /\ s \notin targets'[j]
          /\ \A k \in Job : targets'[k] \subseteq targets[k]
        BY <1>0, <1>4 DEF Deliver, JobTypes
    <2>3. /\ UserOf[s] \notin offline[j]
          /\ \A i \in DOMAIN channel[s] : channel[s][i] # j
        BY <1>0, <2>2 DEF Apart, ToldOnce
    <2>4. QED
        BY <1>0, <2>1, <2>2, <2>3 DEF ToldOnce
<1>5. ASSUME NEW j \in Job, GoOn(j) PROVE ToldOnce'
    <2>1. CASE ReadSubscribers(j) \/ Lock(j) \/ Unlock(j) \/ EndStore(j) \/ Relock(j)
                  \/ LastUnlock(j) \/ Clear(j)
        BY <1>1, <2>1 DEF ReadSubscribers, Lock, Unlock, EndStore, Relock, LastUnlock, Clear, userVars
    <2>2. ASSUME NEW u \in User, InsertNotification(j, u) PROVE ToldOnce'
        BY <1>1, <2>2 DEF InsertNotification, userVars
    <2>3. ASSUME NEW b \in Service, TellService(j, b) PROVE ToldOnce'
        BY <1>1, <2>3 DEF TellService, userVars
    <2>4. QED
        BY <1>3, <1>4, <1>5, <2>1, <2>2, <2>3 DEF GoOn
<1>6. ASSUME NEW s \in Stream, OwnerStep(s) PROVE ToldOnce'
    <2>1. CASE Receive(s)
        BY <1>2, <1>6, <2>1 DEF OwnerStep
    <2>2. CASE NewUserStream(s) \/ Leave(s) \/ Close(s)
        BY <1>1, <1>6, <2>2 DEF OwnerStep, OwnerFrame, NewUserStream, Leave, Close, jobVars
    <2>3. QED
        BY <1>6, <2>1, <2>2 DEF OwnerStep
<1>7. CASE \/ UNCHANGED vars
           \/ \E t \in Timer : Send(t)
           \/ \E j \in Job : HandleDelete(j)
           \/ \E j \in Job, t \in Timer : HandleTick(j, t)
           \/ \E b \in Service : ServiceStep(b)
           \/ \E u \in User : UserStep(u)
    BY <1>1, <1>7 DEF vars, Send, HandleDelete, HandleTick, Spawn, ServiceStep, ServiceFrame, UserStep,
                      userVars, jobVars
<1>8. QED
    BY <1>5, <1>6, <1>7 DEF Next

\* A goroutine changes nothing of another one.
LEMMA OthersStay ==
    ASSUME JobTypes, NEW j \in Job, GoOn(j), NEW k \in Job \ {j}
    PROVE  /\ pc'[k] = pc[k] /\ kind'[k] = kind[k] /\ timer'[k] = timer[k]
           /\ togo'[k] = togo[k] /\ targets'[k] = targets[k] /\ offline'[k] = offline[k]
           /\ audience'[k] = audience[k] /\ given'[k] = given[k] /\ refused'[k] = refused[k]
           /\ serviceStreams' = serviceStreams
<1>1. CASE ReadSubscribers(j) \/ Lock(j) \/ Unlock(j) \/ EndStore(j) \/ Relock(j)
              \/ LastUnlock(j) \/ Clear(j)
    BY <1>1 DEF ReadSubscribers, Lock, Unlock, EndStore, Relock, LastUnlock, Clear, JobAt,
                serviceVars, JobTypes
<1>2. ASSUME NEW u \in User, NextUser(j, u) \/ InsertNotification(j, u)
      PROVE  /\ pc'[k] = pc[k] /\ kind'[k] = kind[k] /\ timer'[k] = timer[k]
             /\ togo'[k] = togo[k] /\ targets'[k] = targets[k] /\ offline'[k] = offline[k]
             /\ audience'[k] = audience[k] /\ given'[k] = given[k] /\ refused'[k] = refused[k]
             /\ serviceStreams' = serviceStreams
    BY <1>2 DEF NextUser, InsertNotification, serviceVars, JobTypes
<1>3. CASE (\E s \in Stream : Deliver(j, s)) \/ (\E b \in Service : TellService(j, b))
    BY <1>3 DEF Deliver, TellService, serviceVars, JobTypes
<1>4. QED
    BY <1>1, <1>2, <1>3 DEF GoOn

\* The fault counter never returns to zero.
LEMMA FaultsStay == ASSUME TypeOK, [Next]_vars, faults' = 0 PROVE faults = 0
<1>1. faults \in Nat
    BY DEF TypeOK
<1>2. faults' = faults \/ faults' = faults + 1
    BY DEF Next, vars, Send, HandleDelete, HandleTick, Spawn, GoOn, ReadSubscribers, Lock, NextUser,
           InsertNotification, Deliver, Unlock, EndStore, Relock, TellService, LastUnlock, Clear,
           OwnerStep, OwnerFrame, ServiceStep, ServiceFrame, UserStep, Fault
<1>3. QED
    BY <1>1, <1>2

LEMMA TellingKept == ASSUME IInv, [Next]_vars PROVE Telling'
<1> SUFFICES ASSUME faults' = 0 PROVE (\A k \in Job : LeftToTell(k))'
    BY DEF Telling
<1>0. /\ TypeOK /\ JobTypes /\ Holding /\ Listening /\ Apart
      /\ faults = 0
      /\ \A k \in Job : LeftToTell(k)
    BY TypesAreParts, FaultsStay DEF IInv, Telling
<1>1. CASE ~(\E j \in Job : GoOn(j) \/ HandleDelete(j) \/ \E t \in Timer : HandleTick(j, t))
    <2>1. /\ UNCHANGED jobVars
          /\ mu = Free \/ UNCHANGED serviceStreams
        BY <1>1, WorldSteps
    <2>2. mu = Free => \A k \in Job : pc[k] # "services"
        BY <1>0, DistinctAssumption DEF Holding
    <2>3. QED
        BY <1>0, <2>1, <2>2 DEF jobVars, LeftToTell, Skips
<1>2. ASSUME NEW j \in Job, HandleDelete(j) \/ \E t \in Timer : HandleTick(j, t)
      PROVE  (\A k \in Job : LeftToTell(k))'
    <2>1. /\ pc[j] = "idle" /\ pc'[j] = "read"
          /\ \A k \in Job \ {j} : pc'[k] = pc[k] /\ kind'[k] = kind[k] /\ timer'[k] = timer[k]
          /\ UNCHANGED <<togo, targets, offline, audience, given, refused, serviceStreams>>
        BY <1>0, <1>2 DEF HandleDelete, HandleTick, Spawn, serviceVars, JobTypes
    <2>2. QED
        BY <1>0, <2>1 DEF LeftToTell, Skips
<1>3. ASSUME NEW j \in Job, GoOn(j) PROVE (\A k \in Job : LeftToTell(k))'
    <2>1. ASSUME NEW k \in Job \ {j} PROVE LeftToTell(k)'
        <3>1. /\ pc'[k] = pc[k] /\ kind'[k] = kind[k] /\ timer'[k] = timer[k]
              /\ togo'[k] = togo[k] /\ targets'[k] = targets[k] /\ offline'[k] = offline[k]
              /\ audience'[k] = audience[k] /\ given'[k] = given[k] /\ refused'[k] = refused[k]
              /\ serviceStreams' = serviceStreams
            BY <1>0, <1>3, OthersStay
        <3>2. LeftToTell(k)
            BY <1>0
        <3>3. QED
            BY <3>1, <3>2 DEF LeftToTell, Skips
    <2>2. LeftToTell(j)'
        <3>0. /\ LeftToTell(j)
              /\ pc[j] \in {"idle", "read", "lock"} => offline[j] = {} /\ given[j] = {}
              /\ pc[j] \in {"read", "lock", "users"} => refused[j] = {}
              /\ pc[j] # "users" => targets[j] = {}
              /\ pc[j] \in {"relock", "clear", "done"} => togo[j] = {}
              /\ audience[j] \subseteq User
            BY <1>0 DEF Apart, Holding, JobTypes, LeftToTell
        <3>1. CASE ReadSubscribers(j)
            <4>1. cached[timer[j]] \subseteq User
                BY <1>0 DEF TypeOK
            <4>2. /\ pc[j] = "read" /\ kind'[j] = kind[j] /\ timer'[j] = timer[j]
                  /\ refused' = refused
                  /\ \/ pc'[j] = "clear"
                     \/ /\ pc'[j] = "lock"
                        /\ togo'[j] = cached[timer[j]]
                        /\ audience'[j] = cached[timer[j]] \ (IF kind[j] = "delete"
                                                             THEN {CreatorOf[timer[j]]} ELSE {})
                BY <1>0, <3>1 DEF ReadSubscribers, JobAt, JobTypes
            <4>3. QED
                BY <3>0, <4>1, <4>2 DEF LeftToTell, Skips
        <3>2. CASE Lock(j)
            <4>1. /\ pc[j] = "lock" /\ pc'[j] = "users"
                  /\ UNCHANGED <<kind, timer, togo, targets, offline, audience, given, refused>>
                BY <1>0, <3>2 DEF Lock, JobAt, JobTypes
            <4>2. QED
                BY <3>0, <4>1 DEF LeftToTell, Skips
        <3>3. ASSUME NEW u \in User, NextUser(j, u) PROVE LeftToTell(j)'
            <4>1. \A s \in subscribers[u] : s \in Stream /\ UserOf[s] = u
                BY <1>0 DEF Listening
            <4>2. /\ pc[j] = "users" /\ targets[j] = {} /\ u \in togo[j]
                  /\ togo'[j] = togo[j] \ {u}
                  /\ UNCHANGED <<pc, kind, timer, audience, given, refused>>
                  /\ \/ Skips(j, u) /\ targets'[j] = {} /\ offline'[j] = offline[j]
                     \/ /\ ~Skips(j, u) /\ subscribers[u] # {}
                        /\ targets'[j] = subscribers[u] /\ offline'[j] = offline[j]
                     \/ ~Skips(j, u) /\ targets'[j] = {} /\ offline'[j] = offline[j] \cup {u}
                BY <1>0, <3>3 DEF NextUser, JobTypes
            <4>3. QED
                BY <3>0, <4>1, <4>2 DEF LeftToTell, Skips
        <3>4. ASSUME NEW u \in User, InsertNotification(j, u) PROVE LeftToTell(j)'
            <4>1. faults' = faults
                BY <1>0
            <4>2. /\ pc[j] = "store" /\ pc' = pc /\ u \in togo[j]
                  /\ togo'[j] = togo[j] \ {u}
                  /\ \/ given'[j] = given[j] \cup {u} /\ refused'[j] = refused[j]
                     \/ given'[j] = given[j] /\ refused'[j] = refused[j] \cup {u}
                  /\ UNCHANGED <<audience, offline>>
                BY <1>0, <3>4, <4>1 DEF InsertNotification, Fault, JobTypes
            <4>3. QED
                BY <3>0, <4>2 DEF LeftToTell
        <3>5. ASSUME NEW s \in Stream, Deliver(j, s) PROVE LeftToTell(j)'
            <4>1. /\ pc[j] = "users"
                  /\ s \in targets[j]
                  /\ targets'[j] = targets[j] \ {s}
                  /\ given'[j] = given[j] \cup {UserOf[s]}
                  /\ UNCHANGED <<pc, kind, timer, togo, offline, audience, refused>>
                BY <1>0, <3>0, <3>5 DEF Deliver, JobTypes
            <4>2. QED
                BY <3>0, <4>1 DEF LeftToTell, Skips
        <3>6. CASE Unlock(j)
            <4>1. /\ pc[j] = "users" /\ pc'[j] = "store"
                  /\ togo[j] = {} /\ targets[j] = {}
                  /\ togo'[j] = offline[j]
                  /\ UNCHANGED <<audience, given, offline, refused>>
                BY <1>0, <3>6 DEF Unlock, JobAt, JobTypes
            <4>2. QED
                BY <3>0, <4>1 DEF LeftToTell
        <3>7. CASE EndStore(j)
            <4>1. /\ pc[j] = "store" /\ pc'[j] = "relock"
                  /\ togo[j] = {}
                  /\ UNCHANGED <<audience, given, offline, refused>>
                BY <1>0, <3>7 DEF EndStore, JobAt, JobTypes
            <4>2. QED
                BY <3>0, <4>1 DEF LeftToTell
        <3>8. CASE Relock(j)
            <4>1. /\ pc[j] = "relock" /\ pc'[j] = "services"
                  /\ offline[j] # {} => togo'[j] = serviceStreams
                  /\ UNCHANGED <<audience, given, offline, refused, serviceStreams>>
                BY <1>0, <3>8 DEF Relock, JobAt, serviceVars, JobTypes
            <4>2. QED
                BY <3>0, <4>1 DEF LeftToTell
        <3>9. ASSUME NEW b \in Service, TellService(j, b) PROVE LeftToTell(j)'
            <4>1. /\ pc[j] = "services" /\ pc' = pc
                  /\ togo'[j] = togo[j] \ {b}
                  /\ given'[j] = given[j] \cup {b}
                  /\ UNCHANGED <<audience, offline, refused, serviceStreams>>
                  /\ b \notin User
                BY <1>0, <3>9, DistinctAssumption DEF TellService, JobTypes
            <4>2. QED
                BY <3>0, <4>1 DEF LeftToTell
        <3>10. CASE LastUnlock(j) \/ Clear(j)
            BY <1>0, <3>10 DEF LastUnlock, Clear, JobAt, JobTypes, LeftToTell
        <3>11. QED
            BY <1>3, <3>1, <3>2, <3>3, <3>4, <3>5, <3>6, <3>7, <3>8, <3>9, <3>10 DEF GoOn
    <2>3. QED
        BY <2>1, <2>2
<1>4. QED
    BY <1>1, <1>2, <1>3

-----------------------------------------------------------------------------
(* The theorems *)

THEOREM Invariance == Spec => []IInv
<1>1. Init => IInv
    BY InitInv
<1>2. IInv /\ [Next]_vars => IInv'
    BY TypeKept, ListeningKept, HoldingKept, ApartKept, ToldOnceKept, TellingKept DEF IInv
<1>3. QED
    BY <1>1, <1>2, PTL DEF Spec

\* The handler's maps and channels, the stores and the goroutines keep their
\* types, and no channel holds more than its capacity.
THEOREM TypeCorrect == Spec => []TypeOK
<1>1. IInv => TypeOK
    BY DEF IInv
<1>2. QED
    BY <1>1, Invariance, PTL

\* The streams that the handler finds under a user are those which he has opened
\* and not closed, whatever the goroutines do.
THEOREM StreamsListening == Spec => []Listening
<1>1. IInv => Listening
    BY DEF IInv
<1>2. QED
    BY <1>1, Invariance, PTL

\* A goroutine never sends to a closed channel: Close waits for the mutex, which
\* the goroutine holds from finding the stream to the last send.
THEOREM NoSendOnClosed == Spec => []SendsToOpen
<1>1. IInv => SendsToOpen
    <2> SUFFICES ASSUME IInv, NEW j \in Job, NEW s \in targets[j]
                 PROVE  reader[s] \in {"open", "closing"}
        BY DEF SendsToOpen
    <2>1. s \in Stream /\ s \in subscribers[UserOf[s]] /\ UserOf[s] \in User
        BY UserOfAssumption DEF IInv, TypeOK, Holding
    <2>2. QED
        BY <2>1 DEF IInv, Listening
<1>2. QED
    BY <1>1, Invariance, PTL

\* No stream is sent a notification twice, and nobody is told of it and counted
\* as offline as well.
THEOREM ToldOneWay == Spec => []ToldOnce
<1>1. IInv => ToldOnce
    BY DEF IInv
<1>2. QED
    BY <1>1, Invariance, PTL

\* While no call has failed, a goroutine that gives the mutex back for the last
\* time has told the subscribers and nobody else, except those whom it found
\* offline and whose INSERT the primary key of notifications refused, an older
\* notification of the timer being unread; and the service streams when it has to.
THEOREM SubscribersTold == Spec => EveryoneTold
<1>1. IInv /\ [Next]_vars =>
        [\A j \in Job :
          pc[j] = "services" /\ pc'[j] = "clear" /\ faults = 0 =>
              /\ given[j] \cap User \subseteq audience[j]
              /\ audience[j] \ refused[j] \subseteq given[j]
              /\ refused[j] \subseteq offline[j]
              /\ offline[j] # {} => serviceStreams \subseteq given[j]]_vars
    <2> SUFFICES ASSUME IInv, [Next]_vars, NEW j \in Job,
                        pc[j] = "services", pc'[j] = "clear", faults = 0
                 PROVE  /\ given[j] \cap User \subseteq audience[j]
                        /\ audience[j] \ refused[j] \subseteq given[j]
                        /\ refused[j] \subseteq offline[j]
                        /\ offline[j] # {} => serviceStreams \subseteq given[j]
        OBVIOUS
    <2>1. LeftToTell(j) /\ TypeOK /\ JobTypes
        BY TypesAreParts DEF IInv, Telling
    <2>2. togo[j] = {}
        <3>1. \E k \in Job : GoOn(k) \/ HandleDelete(k) \/ \E t \in Timer : HandleTick(k, t)
            BY WorldSteps DEF jobVars
        <3>2. ASSUME NEW k \in Job, HandleDelete(k) \/ \E t \in Timer : HandleTick(k, t) PROVE FALSE
            BY <2>1, <3>2 DEF HandleDelete, HandleTick, Spawn, JobTypes
        <3>3. PICK k \in Job : GoOn(k)
            BY <3>1, <3>2
        <3>4. k = j
            BY <2>1, <3>3, OthersStay
        <3>5. GoOn(j)
            BY <3>3, <3>4
        <3>6. LastUnlock(j)
            <4>1. ASSUME NEW u \in User PROVE ~NextUser(j, u) /\ ~InsertNotification(j, u)
                BY DEF NextUser, InsertNotification
            <4>2. ASSUME NEW s \in Stream, Deliver(j, s) PROVE FALSE
                BY <4>2 DEF Deliver
            <4>3. ASSUME NEW b \in Service, TellService(j, b) PROVE FALSE
                BY <4>3 DEF TellService
            <4>4. ~(ReadSubscribers(j) \/ Lock(j) \/ Unlock(j) \/ EndStore(j) \/ Relock(j) \/ Clear(j))
                BY <2>1 DEF ReadSubscribers, Lock, Unlock, EndStore, Relock, Clear, JobAt, JobTypes
            <4>5. QED
                BY <3>5, <4>1, <4>2, <4>3, <4>4 DEF GoOn
        <3>7. QED
            BY <3>6 DEF LastUnlock
    <2>3. QED
        BY <2>1, <2>2 DEF LeftToTell
<1>2. QED
    BY <1>1, Invariance, PTL DEF Spec, EveryoneTold

=============================================================================
