------------------------------- MODULE Ticker -------------------------------
(***************************************************************************)
(* The in-process ticker, internal/timerservice/timerticker.  It keeps two *)
(* indexes of the same timers: from id to second, and from second to the   *)
(* list of ids.  Every tick starts a goroutine that reads the clock, takes *)
(* the ticker's mutex and sends the list of that second to all streams     *)
(* while it holds the mutex of the ticker and the mutex of the streams.    *)
(* The channel of a stream is bounded; its reader takes the mutex of the   *)
(* streams to unsubscribe.                                                 *)
(***************************************************************************)
EXTENDS Integers, Sequences

CONSTANTS
    Id,        \* the timers
    Stream,    \* the streams that NewStream returns
    Tick,      \* slots for the goroutines of Start
    Batches,   \* the arguments of AddManyTimers: lists of ids by second
    Readds,    \* TRUE iff AddManyTimers may be given ids that are registered
    Capacity,  \* capacity of a stream's channel, 100 in the code
    MaxListed, \* bound: AddManyTimers makes no list longer than this
    MaxTime    \* bound: the last second

Free == "free"
Closer == "closer"   \* the caller of Ticker.Close
Leaked == "leaked"   \* locked, and nobody will unlock it

Times == 1..MaxTime

ASSUME TickAssumption == {Free, Closer, Leaked} \cap Tick = {}
ASSUME BatchesAssumption == Batches \subseteq [Times -> Seq(Id)]
ASSUME BoundsAssumption == {Capacity, MaxListed, MaxTime} \subseteq Nat
ASSUME ReaddsAssumption == Readds \in BOOLEAN

VARIABLES
    clock,     \* wall clock, in seconds
    timers,    \* timers[id]: the second of id, 0 when the map has no such id
    endTime,   \* endTime[t]: the list of ids of second t
    keys,      \* the seconds that the map endTime has as keys
    mu,        \* holder of the ticker's mutex
    subMu,     \* holder of the mutex of the streams
    storage,   \* the streams that are subscribed; all others are closed
    channel,   \* channel[s]: the batches that s has not received yet
    reader,    \* reader[s]: what the owner of stream s is doing
    loop,      \* where the loop of Start is
    cancelled, \* TRUE once the context of Start is done
    tpc,       \* tpc[g]: where the goroutine g of Start is
    now,       \* now[g]: the second that g has read, 0 when it has none
    togo,      \* togo[g]: the streams that SendAll has yet to serve
    captured,  \* history: the seconds that some goroutine has read
    readded    \* history: ids given to AddManyTimers while registered

tableVars  == <<timers, endTime, keys, readded>>
streamVars == <<storage, channel, reader>>
loopVars   == <<loop, cancelled>>
tickVars   == <<tpc, now, togo, captured>>
vars == <<clock, mu, subMu, tableVars, streamVars, loopVars, tickVars>>

Listed(id, t) == \E i \in DOMAIN endTime[t] : endTime[t][i] = id

TypeOK == /\ clock \in Nat
          /\ timers \in [Id -> {0} \cup Times]
          /\ endTime \in [Times -> Seq(Id)]
          /\ keys \subseteq Times
          /\ \A t \in Times \ keys : endTime[t] = <<>>
          /\ mu \in {Free, Closer} \cup Tick
          /\ subMu \in {Free, Leaked} \cup Tick
          /\ storage \subseteq Stream
          /\ channel \in [Stream -> Seq(Seq(Id))]
          /\ \A s \in Stream : Len(channel[s]) <= Capacity
          /\ reader \in [Stream -> {"none", "reading", "closing", "closed"}]
          /\ loop \in {"none", "checking", "sleeping", "returned"}
          /\ cancelled \in BOOLEAN
          /\ tpc \in [Tick -> {"idle", "spawned", "captured", "locked", "sending"}]
          /\ now \in [Tick -> Nat]
          /\ togo \in [Tick -> SUBSET Stream]
          /\ captured \subseteq Nat
          /\ readded \subseteq Id

Init == /\ clock = 0
        /\ timers = [id \in Id |-> 0]
        /\ endTime = [t \in Times |-> <<>>]
        /\ keys = {}
        /\ mu = Free
        /\ subMu = Free
        /\ storage = {}
        /\ channel = [s \in Stream |-> <<>>]
        /\ reader = [s \in Stream |-> "none"]
        /\ loop = "none"
        /\ cancelled = FALSE
        /\ tpc = [g \in Tick |-> "idle"]
        /\ now = [g \in Tick |-> 0]
        /\ togo = [g \in Tick |-> {}]
        /\ captured = {}
        /\ readded = {}

-----------------------------------------------------------------------------
(* The table of timers: each operation holds the mutex from end to end *)

\* Variant: a second that has begun is taken.
AddTimerLate(id, end) ==
    /\ mu = Free
    /\ clock <= end
    /\ timers[id] = 0
    /\ timers' = [timers EXCEPT ![id] = end]
    /\ endTime' = [endTime EXCEPT ![end] = Append(@, id)]
    /\ keys' = keys \cup {end}
    /\ UNCHANGED readded

AddTimer(id, end) ==
    /\ mu = Free
    /\ clock < end
    /\ timers[id] = 0
    /\ timers' = [timers EXCEPT ![id] = end]
    /\ endTime' = [endTime EXCEPT ![end] = Append(@, id)]
    /\ keys' = keys \cup {end}
    /\ UNCHANGED readded

\* The seconds at which id is listed in a batch.
SecondsOf(batch, id) == {t \in Times : \E i \in DOMAIN batch[t] : batch[t][i] = id}

\* The ids of a batch that are new to the ticker and listed once.
FreshIn(batch, id) ==
    /\ timers[id] = 0
    /\ \A t, u \in Times : \A i \in DOMAIN batch[t], j \in DOMAIN batch[u] :
           batch[t][i] = id /\ batch[u][j] = id => t = u /\ i = j

\* Nothing keeps an id from being registered a second time.  An id that is
\* listed at several seconds gets the one that the map iteration yields last.
AddManyTimers(batch) ==
    LET stale == {id \in Id : SecondsOf(batch, id) # {} /\ ~FreshIn(batch, id)} IN
    /\ mu = Free
    /\ \A t \in Times : batch[t] # <<>> => clock < t
    /\ \A t \in Times : Len(endTime[t]) + Len(batch[t]) <= MaxListed
    /\ stale # {} => Readds
    /\ timers' \in [Id -> {0} \cup Times]
    /\ \A id \in Id : IF SecondsOf(batch, id) = {}
                      THEN timers'[id] = timers[id]
                      ELSE timers'[id] \in SecondsOf(batch, id)
    /\ endTime' = [t \in Times |-> endTime[t] \o batch[t]]
    /\ keys' = keys \cup {t \in Times : batch[t] # <<>>}
    /\ readded' = readded \cup stale

\* Variant: the last element is cut off, the i-th stays.
SwapOutLast(list, i) == SubSeq(list, 1, Len(list) - 1)

\* The i-th element is overwritten with the last, which is cut off.
SwapOut(list, i) == SubSeq([list EXCEPT ![i] = list[Len(list)]], 1, Len(list) - 1)

\* Variant: the list of the second is left alone.
RemoveTimerKeepsList(id) ==
    /\ mu = Free
    /\ timers[id] # 0
    /\ timers' = [timers EXCEPT ![id] = 0]
    /\ UNCHANGED <<endTime, keys, readded>>

\* The key of the second stays, also with an empty list.  When the id is not
\* in the list the code undoes the first assignment and changes nothing.
RemoveTimer(id) ==
    /\ mu = Free
    /\ timers[id] # 0
    /\ \E i \in DOMAIN endTime[timers[id]] :
          /\ endTime[timers[id]][i] = id
          /\ \A j \in 1..(i - 1) : endTime[timers[id]][j] # id
          /\ endTime' = [endTime EXCEPT ![timers[id]] = SwapOut(@, i)]
    /\ timers' = [timers EXCEPT ![id] = 0]
    /\ UNCHANGED <<keys, readded>>

TableStep == /\ \/ \E id \in Id, end \in Times : AddTimer(id, end)
                \/ \E batch \in Batches : AddManyTimers(batch)
                \/ \E id \in Id : RemoveTimer(id)
             /\ UNCHANGED <<clock, mu, subMu, streamVars, loopVars, tickVars>>

-----------------------------------------------------------------------------
(* Start and its goroutines *)

Loop(from, to) == loop = from /\ loop' = to

Start == /\ Loop("none", "checking")
         /\ UNCHANGED <<clock, mu, subMu, tableVars, streamVars, cancelled, tickVars>>

\* The context that Start was given is done.
Cancel == /\ loop # "none"
          /\ cancelled' = TRUE
          /\ UNCHANGED <<clock, mu, subMu, tableVars, streamVars, loop, tickVars>>

\* The context is looked at before the pause, not after it.
CheckContext ==
    /\ Loop("checking", IF cancelled THEN "returned" ELSE "sleeping")
    /\ UNCHANGED <<clock, mu, subMu, tableVars, streamVars, cancelled, tickVars>>

Spawn(g) == /\ Loop("sleeping", "checking")
            /\ tpc[g] = "idle"
            /\ tpc' = [tpc EXCEPT ![g] = "spawned"]
            /\ UNCHANGED <<mu, subMu, now, togo, captured, channel, tableVars>>

Capture(g) == /\ tpc[g] = "spawned"
              /\ tpc' = [tpc EXCEPT ![g] = "captured"]
              /\ now' = [now EXCEPT ![g] = clock]
              /\ captured' = captured \cup {clock}
              /\ UNCHANGED <<mu, subMu, togo, channel, tableVars>>

Return(g) == tpc' = [tpc EXCEPT ![g] = "idle"] /\ now' = [now EXCEPT ![g] = 0]

HoldTicker(g) == /\ mu' = g
                 /\ tpc' = [tpc EXCEPT ![g] = "locked"]
                 /\ UNCHANGED now

\* Variant: a tick that finds the mutex taken gives up.
LockTickerOrSkip(g) ==
    /\ tpc[g] = "captured"
    /\ IF mu = Free /\ now[g] \in keys THEN HoldTicker(g) ELSE Return(g) /\ UNCHANGED mu
    /\ UNCHANGED <<subMu, togo, captured, channel, tableVars>>

\* Variant: without timers for this second the goroutine returns at once.
LockTickerLeaks(g) ==
    /\ tpc[g] = "captured"
    /\ mu = Free
    /\ IF now[g] \in keys THEN HoldTicker(g) ELSE Return(g) /\ mu' = g
    /\ UNCHANGED <<subMu, togo, captured, channel, tableVars>>

\* Without timers for this second the mutex is released at once.
LockTicker(g) ==
    /\ tpc[g] = "captured"
    /\ mu = Free
    /\ IF now[g] \in keys THEN HoldTicker(g) ELSE Return(g) /\ UNCHANGED mu
    /\ UNCHANGED <<subMu, togo, captured, channel, tableVars>>

LockStreams(g) ==
    /\ tpc[g] = "locked"
    /\ subMu = Free
    /\ subMu' = g
    /\ togo' = [togo EXCEPT ![g] = storage]
    /\ tpc' = [tpc EXCEPT ![g] = "sending"]
    /\ UNCHANGED <<mu, now, captured, channel, tableVars>>

\* To the streams in any order: Go's range picks one and waits for it, which is
\* one of the behaviours here, and no property depends on the order.
Send(g, s) ==
    /\ tpc[g] = "sending"
    /\ s \in togo[g]
    /\ Len(channel[s]) < Capacity
    /\ channel' = [channel EXCEPT ![s] = Append(@, endTime[now[g]])]
    /\ togo' = [togo EXCEPT ![g] = @ \ {s}]
    /\ UNCHANGED <<mu, subMu, tpc, now, captured, tableVars>>

\* Variant: the second stays in the map.
FinishKeepsSecond(g) ==
    /\ tpc[g] = "sending"
    /\ togo[g] = {}
    /\ timers' = [id \in Id |-> IF Listed(id, now[g]) THEN 0 ELSE timers[id]]
    /\ subMu' = Free
    /\ mu' = Free
    /\ Return(g)
    /\ UNCHANGED <<endTime, keys, togo, captured, channel, readded>>

\* All streams are served: both mutexes are released, the timers forgotten.
Finish(g) ==
    /\ tpc[g] = "sending"
    /\ togo[g] = {}
    /\ timers' = [id \in Id |-> IF Listed(id, now[g]) THEN 0 ELSE timers[id]]
    /\ endTime' = [endTime EXCEPT ![now[g]] = <<>>]
    /\ keys' = keys \ {now[g]}
    /\ subMu' = Free
    /\ mu' = Free
    /\ Return(g)
    /\ UNCHANGED <<togo, captured, channel, readded>>

Sends(g) == \E s \in Stream : Send(g, s)

TickStep(g) == /\ \/ Spawn(g)
                  \/ /\ UNCHANGED loop
                     /\ \/ Capture(g)
                        \/ LockTicker(g)
                        \/ LockStreams(g)
                        \/ Sends(g)
                        \/ Finish(g)
               /\ UNCHANGED <<clock, storage, reader, cancelled>>

-----------------------------------------------------------------------------
(* Streams, and Ticker.Close *)

NewStream(s) ==
    /\ reader[s] = "none"
    /\ subMu = Free
    /\ storage' = storage \cup {s}
    /\ reader' = [reader EXCEPT ![s] = "reading"]
    /\ UNCHANGED <<channel, subMu>>

Receive(s) ==
    /\ reader[s] = "reading"
    /\ channel[s] # <<>>
    /\ channel' = [channel EXCEPT ![s] = Tail(@)]
    /\ UNCHANGED <<storage, reader, subMu>>

\* The reader has decided to close its stream and receives no more.
StopReading(s) ==
    /\ reader[s] = "reading"
    /\ reader' = [reader EXCEPT ![s] = "closing"]
    /\ UNCHANGED <<storage, channel, subMu>>

\* Variant: the mutex is not taken.
UnsubscribeUnlocked(s) ==
    /\ reader[s] = "closing"
    /\ reader' = [reader EXCEPT ![s] = "closed"]
    /\ storage' = storage \ {s}
    /\ UNCHANGED <<channel, subMu>>

\* A stream that is not subscribed any more returns with the mutex locked.
Unsubscribe(s) ==
    /\ reader[s] = "closing"
    /\ subMu = Free
    /\ subMu' = IF s \in storage THEN Free ELSE Leaked
    /\ storage' = storage \ {s}
    /\ reader' = [reader EXCEPT ![s] = "closed"]
    /\ UNCHANGED channel

StreamStep(s) == /\ \/ NewStream(s)
                    \/ Receive(s)
                    \/ StopReading(s)
                    \/ Unsubscribe(s)
                 /\ UNCHANGED <<clock, mu, tableVars, loopVars, tickVars>>

\* Ticker.Close: before Start there is no cancel function to call.
CloseTicker ==
    /\ loop # "none"
    /\ mu = Free
    /\ mu' = Closer
    /\ cancelled' = TRUE
    /\ timers' = [id \in Id |-> 0]
    /\ endTime' = [t \in Times |-> <<>>]
    /\ keys' = {}
    /\ UNCHANGED <<clock, subMu, readded, streamVars, loop, tickVars>>

CloseStreams ==
    /\ mu = Closer
    /\ subMu = Free
    /\ storage' = {}
    /\ mu' = Free
    /\ UNCHANGED <<clock, subMu, tableVars, channel, reader, loopVars, tickVars>>

Clock == /\ clock < MaxTime
         /\ clock' = clock + 1
         /\ UNCHANGED <<mu, subMu, tableVars, streamVars, loopVars, tickVars>>

-----------------------------------------------------------------------------

Next == \/ TableStep
        \/ Start
        \/ Cancel
        \/ CheckContext
        \/ \E g \in Tick : TickStep(g)
        \/ \E s \in Stream : StreamStep(s)
        \/ CloseTicker
        \/ CloseStreams
        \/ Clock

Spec == Init /\ [][Next]_vars

\* Goroutines run, Go's mutexes are handed over in the order of waiting once
\* somebody has waited for a millisecond, and a reader that reads goes on.
Fairness ==
    /\ \A g \in Tick : /\ WF_vars(Capture(g) /\ TickStep(g))
                       /\ SF_vars(LockTicker(g) /\ TickStep(g))
                       /\ SF_vars(LockStreams(g) /\ TickStep(g))
                       /\ WF_vars(Sends(g) /\ TickStep(g))
                       /\ WF_vars(Finish(g) /\ TickStep(g))
    /\ \A s \in Stream : /\ WF_vars(Receive(s) /\ StreamStep(s))
                         /\ SF_vars(Unsubscribe(s) /\ StreamStep(s))
    /\ WF_vars(CheckContext)
    /\ SF_vars(CloseStreams)

FairSpec == Spec /\ Fairness

-----------------------------------------------------------------------------
(* Properties *)

\* Whatever is registered is in the list of its second, also when AddManyTimers
\* registers ids again: RemoveTimer always finds what it looks for.
Indexed == \A id \in Id : timers[id] # 0 => Listed(id, timers[id])

\* Of the ids that were never registered twice, a list holds only those whose
\* second it is, each once: nothing fires that was removed.
NoGhost ==
    \A id \in Id \ readded, t \in Times : \A i \in DOMAIN endTime[t] :
        endTime[t][i] = id =>
            /\ timers[id] = t
            /\ \A j \in DOMAIN endTime[t] : endTime[t][j] = id => j = i

\* A stream is sent a timer only while the timer is registered, and not before
\* its second: no timer fires twice, early, or after RemoveTimer.
FiresRegistered ==
    [][\A s \in Stream :
          Len(channel'[s]) > Len(channel[s]) =>
              LET batch == channel'[s][Len(channel'[s])] IN
              \A i \in DOMAIN batch :
                  batch[i] \notin readded => timers[batch[i]] \in 1..clock]_vars

\* A timer is overdue only if no goroutine has read its second, or the one that
\* has read it is still on its way.
OverdueOnlyIfSkipped ==
    \A id \in Id :
        timers[id] # 0 /\ timers[id] \in captured =>
            \E g \in Tick : tpc[g] # "idle" /\ now[g] = timers[id]

\* SendAll never sends on a channel that was closed, which would panic.
SendsToOpen == \A g \in Tick : tpc[g] = "sending" => togo[g] \subseteq storage

\* The mutex of the streams is lost, or a stream that its reader is about to
\* close is full.
Wedged == \/ subMu = Leaked
          \/ \E s \in Stream : reader[s] = "closing" /\ Len(channel[s]) = Capacity

\* A tick ends, and with it its hold on the ticker, unless a stream that nobody
\* reads any more is full or was closed after the ticker.
TickEnds == \A g \in Tick : tpc[g] = "captured" ~> tpc[g] = "idle" \/ Wedged

\* The ticker is a timer service.
Table == INSTANCE TimerTable WITH
             entry <- [id \in Id |-> IF timers[id] = 0 THEN -1 ELSE timers[id]]

ImplementsTable == Table!TableSpec
=============================================================================
