------------------------- MODULE NotificationStream -------------------------
(***************************************************************************)
(* The notifications that a timer has expired or was deleted,              *)
(* internal/domain/datastream/timernotificationstream.  Every notification *)
(* is handled by a goroutine of its own: under the handler's mutex it puts *)
(* the notification into the streams of the subscribers that are online,   *)
(* then stores it for the others, then tells the service streams, which is *)
(* where the bot listens, about those.  A stream belongs to a websocket.   *)
(* The channels are bounded, so a goroutine may wait with the mutex held;  *)
(* whoever opens or closes a stream needs the mutex.                       *)
(***************************************************************************)
EXTENDS Integers, Sequences

CONSTANTS
    Timer, User,
    CreatorOf,        \* the creator of each timer
    Countdown,        \* the countdown timers; the others are gone when they expire
    Stream,           \* the streams that NewUserStream returns
    UserOf,           \* the user of each stream
    Service,          \* the streams that NewStream returns
    Job,              \* the goroutines, each handles one notification
    Capacity,         \* capacity of a user's stream, 10 in the code
    ServiceCapacity,  \* capacity of a service stream, 100 in the code
    QueueCapacity,    \* capacity of the handler's channel, 1024 in the code
    Ops,              \* the requests that users make meanwhile
    MaxFaults         \* bound: calls that fail

Free == "free"

Kinds == {"expired", "delete"}

ASSUME CreatorAssumption == CreatorOf \in [Timer -> User]
ASSUME CountdownAssumption == Countdown \subseteq Timer
ASSUME UserOfAssumption == UserOf \in [Stream -> User]
ASSUME DistinctAssumption == Free \notin Job /\ User \cap Service = {}
ASSUME OpsAssumption == Ops \subseteq {"Subscribe", "Unsubscribe", "Delete"}
ASSUME BoundsAssumption == /\ Capacity \in Nat
                           /\ ServiceCapacity \in Nat
                           /\ QueueCapacity \in Nat
                           /\ MaxFaults \in Nat

VARIABLES
    cached,          \* Redis: cached[t] are the subscribers of timer t
    stored,          \* PostgreSQL: stored[t][u] is the unread notification, "none" or its type
    queue,           \* ch: the timers that have been deleted and not been handled
    mu,              \* the goroutine that waits or works with the mutex held, or Free
    subscribers,     \* subscribers[u]: the streams of user u
    channel,         \* channel[s]: the notifications, by their goroutines, not yet received
    reader,          \* reader[s]: where the owner of stream s is
    serviceStreams,  \* the service streams of the handler
    serviceChannel,  \* serviceChannel[b]: the same for the service streams
    serviceReader,   \* serviceReader[b]: where the reader of b is
    pc,              \* pc[j]: where goroutine j is
    kind, timer,     \* kind[j], timer[j]: its notification
    togo,            \* togo[j]: the users, later the streams, that j has to serve
    targets,         \* targets[j]: the streams of the user whom j is serving
    offline,         \* offline[j]: the users that j has found offline
    faults,          \* calls that have failed
    audience,        \* history: audience[j] are the users that j is to tell
    given,           \* history: given[j] are the users and service streams j has told
    refused          \* history: refused[j] are the users whose INSERT the key has refused

storeVars   == <<cached, stored>>
userVars    == <<subscribers, channel, reader>>
serviceVars == <<serviceStreams, serviceChannel, serviceReader>>
jobVars     == <<pc, kind, timer, togo, targets, offline, audience, given, refused>>
vars == <<storeVars, queue, mu, userVars, serviceVars, jobVars, faults>>

ReaderStates == {"none", "open", "closing", "closed"}

TypeOK == /\ cached \in [Timer -> SUBSET User]
          /\ stored \in [Timer -> [User -> Kinds \cup {"none"}]]
          /\ queue \in Seq(Timer)
          /\ Len(queue) <= QueueCapacity
          /\ mu \in Job \cup {Free}
          /\ subscribers \in [User -> SUBSET Stream]
          /\ channel \in [Stream -> Seq(Job)]
          /\ \A s \in Stream : Len(channel[s]) <= Capacity
          /\ reader \in [Stream -> ReaderStates]
          /\ serviceStreams \subseteq Service
          /\ serviceChannel \in [Service -> Seq(Job)]
          /\ \A b \in Service : Len(serviceChannel[b]) <= ServiceCapacity
          /\ serviceReader \in [Service -> ReaderStates]
          /\ pc \in [Job -> {"idle", "read", "lock", "users", "store", "relock",
                             "services", "clear", "done"}]
          /\ kind \in [Job -> Kinds]
          /\ timer \in [Job -> Timer]
          /\ togo \in [Job -> SUBSET (User \cup Service)]
          /\ targets \in [Job -> SUBSET Stream]
          /\ offline \in [Job -> SUBSET User]
          /\ faults \in Nat
          /\ audience \in [Job -> SUBSET User]
          /\ given \in [Job -> SUBSET (User \cup Service)]
          /\ refused \in [Job -> SUBSET User]

\* Invoke may have put any set of subscribers into the cache.
Init == /\ cached \in [Timer -> SUBSET User]
        /\ stored = [t \in Timer |-> [u \in User |-> "none"]]
        /\ queue = <<>>
        /\ mu = Free
        /\ subscribers = [u \in User |-> {}]
        /\ channel = [s \in Stream |-> <<>>]
        /\ reader = [s \in Stream |-> "none"]
        /\ serviceStreams = {}
        /\ serviceChannel = [b \in Service |-> <<>>]
        /\ serviceReader = [b \in Service |-> "none"]
        /\ pc = [j \in Job |-> "idle"]
        /\ kind = [j \in Job |-> "expired"]
        /\ timer \in [Job -> Timer]
        /\ togo = [j \in Job |-> {}]
        /\ targets = [j \in Job |-> {}]
        /\ offline = [j \in Job |-> {}]
        /\ faults = 0
        /\ audience = [j \in Job |-> {}]
        /\ given = [j \in Job |-> {}]
        /\ refused = [j \in Job |-> {}]

Fault == /\ faults < MaxFaults
         /\ faults' = faults + 1

-----------------------------------------------------------------------------
(* StreamHandler.Start *)

\* UseCase.Delete sends the notification; the sender waits while ch is full.
Send(t) ==
    /\ Len(queue) < QueueCapacity
    /\ queue' = Append(queue, t)
    /\ UNCHANGED <<storeVars, mu, userVars, serviceVars, jobVars, faults>>

Spawn(j, k, t) ==
    /\ pc[j] = "idle"
    /\ pc' = [pc EXCEPT ![j] = "read"]
    /\ kind' = [kind EXCEPT ![j] = k]
    /\ timer' = [timer EXCEPT ![j] = t]
    /\ UNCHANGED <<storeVars, mu, userVars, serviceVars, togo, targets, offline, audience, given, refused, faults>>

\* timerDelete is started for a notification of the channel.
HandleDelete(j) ==
    /\ queue # <<>>
    /\ queue' = Tail(queue)
    /\ Spawn(j, "delete", Head(queue))

\* timerExpired is started for a tick, and finds the timer.
HandleTick(j, t) ==
    /\ Spawn(j, "expired", t)
    /\ UNCHANGED queue

-----------------------------------------------------------------------------
(* StreamHandler.notification, run by goroutine j *)

JobAt(j, from, to) == pc[j] = from /\ pc' = [pc EXCEPT ![j] = to]

\* Without an answer of the cache, or without a key there, nobody is told.
ReadSubscribers(j) ==
    LET subs == cached[timer[j]]
        skip == IF kind[j] = "delete" THEN {CreatorOf[timer[j]]} ELSE {}
    IN
    /\ \/ /\ subs # {}
          /\ JobAt(j, "read", "lock")
          /\ togo' = [togo EXCEPT ![j] = subs]
          /\ audience' = [audience EXCEPT ![j] = subs \ skip]
          /\ UNCHANGED faults
       \/ /\ JobAt(j, "read", "clear")
          /\ (subs = {} /\ UNCHANGED faults) \/ Fault
          /\ UNCHANGED <<togo, audience>>
    /\ UNCHANGED <<storeVars, mu, userVars, serviceVars, kind, timer, targets, offline, given, refused>>

Lock(j) ==
    /\ JobAt(j, "lock", "users")
    /\ mu = Free
    /\ mu' = j
    /\ UNCHANGED <<storeVars, userVars, serviceVars, kind, timer, togo, targets, offline,
                   audience, given, refused, faults>>

\* The creator is not told that his timer is deleted: he has deleted it.
Skips(j, u) == kind[j] = "delete" /\ CreatorOf[timer[j]] = u

\* The next user, in any order.
NextUser(j, u) ==
    /\ pc[j] = "users"
    /\ targets[j] = {}
    /\ u \in togo[j]
    /\ togo' = [togo EXCEPT ![j] = @ \ {u}]
    /\ \/ /\ Skips(j, u)
          /\ UNCHANGED <<targets, offline>>
       \/ /\ ~Skips(j, u) /\ subscribers[u] # {}
          /\ targets' = [targets EXCEPT ![j] = subscribers[u]]
          /\ UNCHANGED offline
       \/ /\ ~Skips(j, u) /\ subscribers[u] = {}
          /\ offline' = [offline EXCEPT ![j] = @ \cup {u}]
          /\ UNCHANGED targets
    /\ UNCHANGED <<storeVars, mu, userVars, serviceVars, pc, kind, timer, audience, given, refused, faults>>

\* Variant: a full channel is passed over.
DeliverOrDrop(j, s) ==
    /\ s \in targets[j]
    /\ targets' = [targets EXCEPT ![j] = @ \ {s}]
    /\ IF Len(channel[s]) < Capacity
       THEN /\ channel' = [channel EXCEPT ![s] = Append(@, j)]
            /\ given' = [given EXCEPT ![j] = @ \cup {UserOf[s]}]
       ELSE UNCHANGED <<channel, given>>
    /\ UNCHANGED <<storeVars, mu, subscribers, reader, serviceVars, pc, kind, timer, togo,
                   offline, audience, refused, faults>>

\* Variant: the loop does not go on to the next stream.
DeliverAgain(j, s) ==
    /\ s \in targets[j]
    /\ Len(channel[s]) < Capacity
    /\ channel' = [channel EXCEPT ![s] = Append(@, j)]
    /\ given' = [given EXCEPT ![j] = @ \cup {UserOf[s]}]
    /\ UNCHANGED <<storeVars, mu, subscribers, reader, serviceVars, pc, kind, timer, togo,
                   targets, offline, audience, refused, faults>>

\* To the streams of a user in any order, each when its channel has room.
Deliver(j, s) ==
    /\ s \in targets[j]
    /\ Len(channel[s]) < Capacity
    /\ channel' = [channel EXCEPT ![s] = Append(@, j)]
    /\ targets' = [targets EXCEPT ![j] = @ \ {s}]
    /\ given' = [given EXCEPT ![j] = @ \cup {UserOf[s]}]
    /\ UNCHANGED <<storeVars, mu, subscribers, reader, serviceVars, pc, kind, timer, togo,
                   offline, audience, refused, faults>>

\* The mutex is given back; the offline users are next.
Unlock(j) ==
    /\ JobAt(j, "users", "store")
    /\ togo[j] = {} /\ targets[j] = {}
    /\ mu' = Free
    /\ togo' = [togo EXCEPT ![j] = offline[j]]
    /\ UNCHANGED <<storeVars, userVars, serviceVars, kind, timer, targets, offline, audience,
                   given, refused, faults>>

\* notifications has one row for a timer and a user: the primary key refuses
\* the INSERT of a second, of whatever type, and the error is ignored.
InsertNotification(j, u) ==
    /\ pc[j] = "store"
    /\ u \in togo[j]
    /\ togo' = [togo EXCEPT ![j] = @ \ {u}]
    /\ \/ /\ stored[timer[j]][u] = "none"
          /\ stored' = [stored EXCEPT ![timer[j]][u] = kind[j]]
          /\ given' = [given EXCEPT ![j] = @ \cup {u}]
          /\ UNCHANGED <<refused, faults>>
       \/ /\ stored[timer[j]][u] # "none"
          /\ refused' = [refused EXCEPT ![j] = @ \cup {u}]
          /\ UNCHANGED <<stored, given, faults>>
       \/ /\ Fault
          /\ UNCHANGED <<stored, given, refused>>
    /\ UNCHANGED <<cached, mu, userVars, serviceVars, pc, kind, timer, targets, offline, audience>>

EndStore(j) ==
    /\ JobAt(j, "store", "relock")
    /\ togo[j] = {}
    /\ UNCHANGED <<storeVars, mu, userVars, serviceVars, kind, timer, togo, targets, offline,
                   audience, given, refused, faults>>

\* The mutex once more; with nobody offline it is given back at once.
Relock(j) ==
    /\ JobAt(j, "relock", "services")
    /\ mu = Free
    /\ mu' = j
    /\ togo' = [togo EXCEPT ![j] = IF offline[j] = {} THEN {} ELSE serviceStreams]
    /\ UNCHANGED <<storeVars, userVars, serviceVars, kind, timer, targets, offline, audience,
                   given, refused, faults>>

TellService(j, b) ==
    /\ pc[j] = "services"
    /\ b \in togo[j]
    /\ Len(serviceChannel[b]) < ServiceCapacity
    /\ serviceChannel' = [serviceChannel EXCEPT ![b] = Append(@, j)]
    /\ togo' = [togo EXCEPT ![j] = @ \ {b}]
    /\ given' = [given EXCEPT ![j] = @ \cup {b}]
    /\ UNCHANGED <<storeVars, mu, userVars, serviceStreams, serviceReader, pc, kind, timer,
                   targets, offline, audience, refused, faults>>

\* Variant: the mutex is kept.
LastUnlockKeeps(j) ==
    /\ JobAt(j, "services", "clear")
    /\ togo[j] = {}
    /\ UNCHANGED <<storeVars, mu, userVars, serviceVars, kind, timer, togo, targets, offline,
                   audience, given, refused, faults>>

\* Variant: an early return, when nobody is offline, keeps the mutex.
LastUnlockIfOffline(j) ==
    /\ JobAt(j, "services", "clear")
    /\ togo[j] = {}
    /\ mu' = IF offline[j] = {} THEN mu ELSE Free
    /\ UNCHANGED <<storeVars, userVars, serviceVars, kind, timer, togo, targets, offline,
                   audience, given, refused, faults>>

LastUnlock(j) ==
    /\ JobAt(j, "services", "clear")
    /\ togo[j] = {}
    /\ mu' = Free
    /\ UNCHANGED <<storeVars, userVars, serviceVars, kind, timer, togo, targets, offline,
                   audience, given, refused, faults>>

\* timerDelete and clearExpiredTimer: the subscribers of a timer that is gone
\* leave the cache; what happens to its row is in TimerLifecycle.
Clear(j) ==
    /\ JobAt(j, "clear", "done")
    /\ \/ /\ cached' = IF kind[j] = "delete" \/ timer[j] \notin Countdown
                       THEN [cached EXCEPT ![timer[j]] = {}]
                       ELSE cached
          /\ UNCHANGED faults
       \/ Fault /\ UNCHANGED cached
    /\ UNCHANGED <<stored, mu, userVars, serviceVars, kind, timer, togo, targets, offline,
                   audience, given, refused>>

GoOn(j) == /\ \/ ReadSubscribers(j)
              \/ Lock(j)
              \/ \E u \in User : NextUser(j, u) \/ InsertNotification(j, u)
              \/ \E s \in Stream : Deliver(j, s)
              \/ Unlock(j)
              \/ EndStore(j)
              \/ Relock(j)
              \/ \E b \in Service : TellService(j, b)
              \/ LastUnlock(j)
              \/ Clear(j)
           /\ UNCHANGED queue

-----------------------------------------------------------------------------
(* The streams of the users, and the websockets that own them *)

ReaderAt(s, from, to) == reader[s] = from /\ reader' = [reader EXCEPT ![s] = to]

NewUserStream(s) ==
    /\ ReaderAt(s, "none", "open")
    /\ mu = Free
    /\ subscribers' = [subscribers EXCEPT ![UserOf[s]] = @ \cup {s}]
    /\ UNCHANGED <<mu, channel>>

Receive(s) ==
    /\ reader[s] = "open"
    /\ channel[s] # <<>>
    /\ channel' = [channel EXCEPT ![s] = Tail(@)]
    /\ UNCHANGED <<mu, subscribers, reader>>

\* The loop of the websocket has ended: nobody receives any more.
Leave(s) ==
    /\ ReaderAt(s, "open", "closing")
    /\ UNCHANGED <<mu, subscribers, channel>>

\* Variant: the mutex is not taken.
CloseUnlocked(s) ==
    /\ ReaderAt(s, "closing", "closed")
    /\ subscribers' = [subscribers EXCEPT ![UserOf[s]] = @ \ {s}]
    /\ UNCHANGED <<mu, channel>>

Close(s) ==
    /\ ReaderAt(s, "closing", "closed")
    /\ mu = Free
    /\ subscribers' = [subscribers EXCEPT ![UserOf[s]] = @ \ {s}]
    /\ UNCHANGED <<mu, channel>>

OwnerFrame == UNCHANGED <<storeVars, queue, serviceVars, jobVars, faults>>

OwnerStep(s) == /\ \/ NewUserStream(s)
                   \/ Receive(s)
                   \/ Leave(s)
                   \/ Close(s)
                /\ OwnerFrame

-----------------------------------------------------------------------------
(* The service streams, and the bot that reads one *)

ServiceAt(b, from, to) == serviceReader[b] = from /\ serviceReader' = [serviceReader EXCEPT ![b] = to]

NewStream(b) ==
    /\ ServiceAt(b, "none", "open")
    /\ mu = Free
    /\ serviceStreams' = serviceStreams \cup {b}
    /\ UNCHANGED serviceChannel

ReceiveService(b) ==
    /\ serviceReader[b] = "open"
    /\ serviceChannel[b] # <<>>
    /\ serviceChannel' = [serviceChannel EXCEPT ![b] = Tail(@)]
    /\ UNCHANGED <<serviceStreams, serviceReader>>

LeaveService(b) ==
    /\ ServiceAt(b, "open", "closing")
    /\ UNCHANGED <<serviceStreams, serviceChannel>>

\* The channel is not closed.
CloseService(b) ==
    /\ ServiceAt(b, "closing", "closed")
    /\ mu = Free
    /\ serviceStreams' = serviceStreams \ {b}
    /\ UNCHANGED serviceChannel

ServiceFrame == UNCHANGED <<storeVars, queue, mu, userVars, jobVars, faults>>

ServiceStep(b) == /\ \/ NewStream(b)
                     \/ ReceiveService(b)
                     \/ LeaveService(b)
                     \/ CloseService(b)
                  /\ ServiceFrame

-----------------------------------------------------------------------------
(* Requests of the users *)

\* The cache changes under the handler: Subscribe and Unsubscribe.
CacheSubscribe(t, u) ==
    /\ "Subscribe" \in Ops
    /\ cached' = [cached EXCEPT ![t] = @ \cup {u}]
    /\ UNCHANGED stored

CacheUnsubscribe(t, u) ==
    /\ "Unsubscribe" \in Ops
    /\ cached' = [cached EXCEPT ![t] = @ \ {u}]
    /\ UNCHANGED stored

\* A user has read the stored notifications, and deletes them all.
DeleteUserNotifications(u) ==
    /\ "Delete" \in Ops
    /\ stored' = [t \in Timer |-> [stored[t] EXCEPT ![u] = "none"]]
    /\ UNCHANGED cached

UserStep(u) == /\ \/ \E t \in Timer : CacheSubscribe(t, u) \/ CacheUnsubscribe(t, u)
                  \/ DeleteUserNotifications(u)
               /\ UNCHANGED <<queue, mu, userVars, serviceVars, jobVars, faults>>

-----------------------------------------------------------------------------

Next == \/ \E t \in Timer : Send(t)
        \/ \E j \in Job : HandleDelete(j)
        \/ \E j \in Job, t \in Timer : HandleTick(j, t)
        \/ \E j \in Job : GoOn(j)
        \/ \E s \in Stream : OwnerStep(s)
        \/ \E b \in Service : ServiceStep(b)
        \/ \E u \in User : UserStep(u)

Spec == Init /\ [][Next]_vars

\* Goroutines run, a sync.Mutex starves nobody and senders of a channel are
\* served in turn; a loop that has not ended receives what is in its channel.
\* Nobody has to come, to leave or to send.
Fairness == /\ \A j \in Job : SF_vars(GoOn(j))
            /\ \A s \in Stream : SF_vars((Receive(s) \/ Close(s)) /\ OwnerFrame)
            /\ \A b \in Service : SF_vars((ReceiveService(b) \/ CloseService(b)) /\ ServiceFrame)

FairSpec == Spec /\ Fairness

-----------------------------------------------------------------------------
(* Properties *)

\* The handler finds exactly the streams that have been opened and not closed,
\* under their users: a user is offline when all his streams are closed.
Listening ==
    \A u \in User : subscribers[u] =
        {s \in Stream : UserOf[s] = u /\ reader[s] \in {"open", "closing"}}

\* No goroutine sends to a channel that its owner has closed: it would panic.
SendsToOpen ==
    \A j \in Job : \A s \in targets[j] : reader[s] \in {"open", "closing"}

\* A stream is sent a notification once; and a user is either sent it or found
\* offline, not both.
ToldOnce ==
    \A j \in Job, s \in Stream : \A i \in DOMAIN channel[s] :
        channel[s][i] = j => /\ UserOf[s] \notin offline[j]
                             /\ s \notin targets[j]
                             /\ \A k \in DOMAIN channel[s] : channel[s][k] = j => k = i

\* When no call has failed, a goroutine has told all subscribers, in a stream
\* or in the table, except those offline ones for whom an older notification of
\* the timer lay unread, which the table keeps in place of this one
\* (OfflineIsStored is violated by it); and when somebody was offline every
\* service stream.  Nobody else was told, in particular not the creator who has
\* deleted the timer.
EveryoneTold ==
    [][\A j \in Job :
          pc[j] = "services" /\ pc'[j] = "clear" /\ faults = 0 =>
              /\ given[j] \cap User \subseteq audience[j]
              /\ audience[j] \ refused[j] \subseteq given[j]
              /\ refused[j] \subseteq offline[j]
              /\ offline[j] # {} => serviceStreams \subseteq given[j]]_vars

\* A subscriber who is offline finds the notification stored that he missed.
OfflineIsStored ==
    [][\A j \in Job : \A u \in togo[j] \ togo'[j] :
          pc[j] = "store" /\ faults' = faults => stored'[timer[j]][u] = kind[j]]_vars

\* The goroutine with the mutex waits for a channel that is full and that nobody
\* receives from any more.
Wedged ==
    \E j \in Job :
        \/ \E s \in targets[j] : reader[s] = "closing" /\ Len(channel[s]) = Capacity
        \/ /\ pc[j] = "services"
           /\ \E b \in togo[j] : /\ serviceReader[b] = "closing"
                                 /\ Len(serviceChannel[b]) = ServiceCapacity

\* A notification is handled to its end, or some goroutine is wedged.
NotificationEnds == \A j \in Job : pc[j] = "read" ~> pc[j] = "done" \/ Wedged

\* A websocket that leaves is closed, or some goroutine is wedged.
CloseEnds == \A s \in Stream : reader[s] = "closing" ~> reader[s] = "closed" \/ Wedged
=============================================================================
