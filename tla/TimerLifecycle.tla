--------------------------- MODULE TimerLifecycle ---------------------------
(***************************************************************************)
(* The life of one timer in timerapi: the requests of its creator (create, *)
(* delete, update, stop, start, reset) as sagas over three stores that no  *)
(* transaction joins, the expiry handlers that the timer service's ticks   *)
(* start, and a restart of the application.                                *)
(*                                                                         *)
(*   row      PostgreSQL, through internal/database/postgres/timerstorage  *)
(*   service  the entry of the external timer service                      *)
(*   cached   whether Redis holds the timer's set of subscribers           *)
(*                                                                         *)
(* A request reads the row once, then makes one call at a time; any other  *)
(* request, handler or tick may run between two calls.  A call that fails  *)
(* may or may not have taken effect (its answer was lost, or the thirty    *)
(* seconds of the request's context ran out).  A failed request runs the   *)
(* compensations registered so far, last first (pkg/saga); what those      *)
(* calls answer is ignored.                                                *)
(***************************************************************************)
EXTENDS TimerRow, TimerService, FiniteSets

CONSTANTS
    Req,          \* request slots: how many requests may be in progress at once
    Handler,      \* slots for the goroutines that handle a tick
    Ops,          \* the requests that the creator makes
    Types,        \* the types of timer that are created
    PauseSkew,    \* how far behind the server a client's pauseTime may be
    MinDuration,  \* MIN_TIMER_DURATION
    MaxTime,      \* bound: the last second of the clock and the latest end
    Durations,    \* bound: the durations an update may ask for
    LostAnswers,  \* TRUE iff a call that fails may have taken effect
    MaxFaults,    \* bound: calls that fail
    MaxCrashes    \* bound: restarts of the application

ASSUME OpsAssumption == Ops \subseteq {"Create", "Delete", "Update", "Stop", "Start", "Reset"}
ASSUME TypesAssumption == Types \subseteq TimerTypes
ASSUME SkewAssumption == PauseSkew \subseteq Int
ASSUME DurationsAssumption == Durations \subseteq Int
ASSUME BoundAssumption == /\ MinDuration \in Nat
                          /\ MaxTime \in Nat
                          /\ LostAnswers \in BOOLEAN
                          /\ MaxFaults \in Nat
                          /\ MaxCrashes \in Nat

VARIABLES
    row,      \* the timer in PostgreSQL
    cached,   \* TRUE iff Redis has the key of the timer's subscribers
    service,  \* the timer's entry in the timer service
    clock,    \* wall clock, in seconds, of both machines
    up,       \* TRUE iff the application runs
    pc,       \* pc[r]: the next call of request r, "idle" when there is none
    snap,     \* snap[r]: the row as request r read it
    arg,      \* arg[r]: the time request r is to write
    hpc,      \* hpc[h]: the next call of expiry handler h
    hsnap,    \* hsnap[h]: the row as handler h read it
    notices,  \* delete notifications sent and not yet handled
    faults,   \* calls that have failed so far
    crashes,  \* crashes so far
    strayed   \* history: a failure has left a running timer without a wake-up

requestVars == <<pc, snap, arg>>
handlerVars == <<hpc, hsnap>>
worldVars   == <<clock, up, crashes>>
vars == <<row, cached, service, requestVars, handlerVars, notices, worldVars, faults, strayed>>

Times == 0..MaxTime

Labels == {"idle",
           "create.subscribe", "create.add", "create.undoSubscribe", "create.undoInsert",
           "delete.remove", "delete.mark", "delete.send",
           "update.store", "update.service", "update.undo",
           "stop.service", "stop.store", "stop.undo",
           "start.time", "start.pause", "start.service", "start.undoPause", "start.undoTime",
           "reset.time", "reset.pause", "reset.undo"}

HandlerLabels == {"idle", "tick", "clear", "uncache"}

TypeOK == /\ row \in Rows
          /\ cached \in BOOLEAN
          /\ service \in Entries
          /\ clock \in Nat
          /\ up \in BOOLEAN
          /\ pc \in [Req -> Labels]
          /\ snap \in [Req -> Rows]
          /\ arg \in [Req -> Int]
          /\ hpc \in [Handler -> HandlerLabels]
          /\ hsnap \in [Handler -> Rows]
          /\ notices \in Nat
          /\ faults \in Nat
          /\ crashes \in Nat
          /\ strayed \in BOOLEAN

Init == /\ row = NoRow
        /\ cached = FALSE
        /\ service = NoEntry
        /\ clock = 0
        /\ up = TRUE
        /\ pc = [r \in Req |-> "idle"]
        /\ snap = [r \in Req |-> NoRow]
        /\ arg = [r \in Req |-> 0]
        /\ hpc = [h \in Handler |-> "idle"]
        /\ hsnap = [h \in Handler |-> NoRow]
        /\ notices = 0
        /\ faults = 0
        /\ crashes = 0
        /\ strayed = FALSE

-----------------------------------------------------------------------------
(* The calls of a request *)

\* Request r goes on with another call; its locals die with it.
Goto(r, label) ==
    /\ pc' = [pc EXCEPT ![r] = label]
    /\ snap' = IF label = "idle" THEN [snap EXCEPT ![r] = NoRow] ELSE snap
    /\ arg' = IF label = "idle" THEN [arg EXCEPT ![r] = 0] ELSE arg

\* A request arrives: it reads the row and goes on with its first call.
Begin(r, op, label, time) ==
    /\ op \in Ops
    /\ pc[r] = "idle"
    /\ pc' = [pc EXCEPT ![r] = label]
    /\ snap' = [snap EXCEPT ![r] = row]
    /\ arg' = [arg EXCEPT ![r] = time]
    /\ UNCHANGED <<row, cached, service, notices, faults, strayed>>

Fault == /\ faults < MaxFaults
         /\ faults' = faults + 1

Failed == faults' # faults

\* What a failed call leaves of an old value that it was to turn into new.
Outcomes(old, new) == IF LostAnswers THEN {old, new} ELSE {old}

\* A statement that turns the row into new; err is where its error leads.
StorageCall(r, new, ok, err) ==
    /\ UNCHANGED <<cached, service, notices>>
    /\ \/ row' = new /\ Goto(r, ok) /\ UNCHANGED faults
       \/ Fault /\ row' \in Outcomes(row, new) /\ Goto(r, err)

\* An RPC that the service accepts or refuses.
ServiceCall(r, accepted, new, ok, err) ==
    /\ UNCHANGED <<row, cached, notices>>
    /\ \/ accepted /\ service' = new /\ Goto(r, ok) /\ UNCHANGED faults
       \/ ~accepted /\ service' = service /\ Goto(r, err) /\ UNCHANGED faults
       \/ Fault /\ service' \in (IF accepted THEN Outcomes(service, new) ELSE {service}) /\ Goto(r, err)

\* A call to the subscriber cache.
CacheCall(r, new, ok, err) ==
    /\ UNCHANGED <<row, service, notices, strayed>>
    /\ \/ cached' = new /\ Goto(r, ok) /\ UNCHANGED faults
       \/ Fault /\ cached' \in Outcomes(cached, new) /\ Goto(r, err)

-----------------------------------------------------------------------------
(* UseCase.Create *)

\* CreateTimer.Validate
ValidCreate(start, end) == /\ end - start >= MinDuration
                           /\ end - clock >= (MinDuration \div 3) * 2

\* A second Create of the id is refused by the primary key and changes nothing.
\* An INSERT whose answer is lost is not compensated: nothing was registered yet.
CreateInsert(r) ==
    /\ "Create" \in Ops
    /\ pc[r] = "idle"
    /\ ~row.exists
    /\ \E type \in Types, start \in Times, end \in Times :
         LET new == InsertTimer(type, start, end) IN
         /\ ValidCreate(start, end)
         /\ \/ /\ row' = new
               /\ pc' = [pc EXCEPT ![r] = "create.subscribe"]
               /\ arg' = [arg EXCEPT ![r] = end]
               /\ UNCHANGED <<faults, strayed>>
            \/ /\ Fault
               /\ LostAnswers
               /\ row' = new
               /\ strayed' = TRUE
               /\ UNCHANGED <<pc, arg>>
    /\ UNCHANGED <<cached, service, notices, snap>>

CreateSubscribe(r) ==
    /\ pc[r] = "create.subscribe"
    /\ CacheCall(r, TRUE, "create.add", "create.undoInsert")

CreateAdd(r) ==
    /\ pc[r] = "create.add"
    /\ ServiceCall(r, AcceptsAdd(service, arg[r], clock), arg[r], "idle", "create.undoSubscribe")
    /\ UNCHANGED strayed

CreateUndoSubscribe(r) ==
    /\ pc[r] = "create.undoSubscribe"
    /\ CacheCall(r, FALSE, "create.undoInsert", "create.undoInsert")

CreateUndoInsert(r) ==
    /\ pc[r] = "create.undoInsert"
    /\ StorageCall(r, DeleteTimer(row), "idle", "idle")
    /\ strayed' = (strayed \/ Running(row'))

CreateStep(r) == \/ CreateInsert(r)
                 \/ CreateSubscribe(r)
                 \/ CreateAdd(r)
                 \/ CreateUndoSubscribe(r)
                 \/ CreateUndoInsert(r)

-----------------------------------------------------------------------------
(* UseCase.Delete: the saga is created but nothing is ever registered in it *)

\* Variant: the test of IsPaused is inverted.
DeleteReadInverted(r) ==
    /\ Live(row)
    /\ Begin(r, "Delete", IF row.paused THEN "delete.remove" ELSE "delete.mark", 0)

DeleteRead(r) ==
    /\ Live(row)
    /\ Begin(r, "Delete", IF row.paused THEN "delete.mark" ELSE "delete.remove", 0)

\* The error of Remove is ignored.
DeleteRemove(r) ==
    /\ pc[r] = "delete.remove"
    /\ ServiceCall(r, AcceptsRemove(service), NoEntry, "delete.mark", "delete.mark")
    /\ UNCHANGED strayed

DeleteMark(r) ==
    /\ pc[r] = "delete.mark"
    /\ StorageCall(r, DeleteTimer(row), "delete.send", "idle")
    /\ strayed' = (strayed \/ (Failed /\ Running(row') /\ ~snap[r].paused))

DeleteSend(r) ==
    /\ pc[r] = "delete.send"
    /\ notices' = notices + 1
    /\ Goto(r, "idle")
    /\ UNCHANGED <<row, cached, service, faults, strayed>>

DeleteStep(r) == \/ DeleteRead(r)
                 \/ DeleteRemove(r)
                 \/ DeleteMark(r)
                 \/ DeleteSend(r)

-----------------------------------------------------------------------------
(* UseCase.Update *)

\* checkSettingsEndTime.  For a paused timer the code shifts the current end
\* twice instead of the new one.  The second test is skipped only when two
\* time.Time structs are equal; one comes from pgx in UTC, the other from
\* time.Unix in the local zone, so they never are.
ChecksEndTime(t, new) ==
    LET inPause == clock - t.pauseTime
        end     == IF t.paused THEN t.end + inPause ELSE t.end
        newEnd  == IF t.paused THEN end + inPause ELSE new
    IN  /\ end - clock >= MinDuration
        /\ newEnd - clock >= MinDuration

UpdateRead(r) ==
    \E new \in Times :
        /\ Live(row)
        /\ ChecksEndTime(row, new)
        /\ row.duration + (new - row.end) \in Durations
        /\ Begin(r, "Update", "update.store", new)

\* Variant: the service is not told of the new end.
UpdateStoreOnly(r) ==
    /\ pc[r] = "update.store"
    /\ StorageCall(r, UpdateTimer(row, arg[r]), "idle", "idle")
    /\ UNCHANGED strayed

UpdateStore(r) ==
    /\ pc[r] = "update.store"
    /\ StorageCall(r, UpdateTimer(row, arg[r]),
                   IF snap[r].paused THEN "idle" ELSE "update.service", "idle")
    /\ UNCHANGED strayed

\* Variant: the wrong RPC is called.
UpdateServiceRemoves(r) ==
    /\ pc[r] = "update.service"
    /\ ServiceCall(r, AcceptsRemove(service), NoEntry, "idle", "update.undo")
    /\ UNCHANGED strayed

UpdateService(r) ==
    /\ pc[r] = "update.service"
    /\ ServiceCall(r, AcceptsUpdate(service, arg[r], clock), arg[r], "idle", "update.undo")
    /\ UNCHANGED strayed

\* Variant: the compensation restores the end and forgets the duration.
UpdateUndoEndOnly(r) ==
    /\ pc[r] = "update.undo"
    /\ StorageCall(r, UpdateTime(row, snap[r].end), "idle", "idle")
    /\ UNCHANGED strayed

UpdateUndo(r) ==
    /\ pc[r] = "update.undo"
    /\ StorageCall(r, UpdateTimer(row, snap[r].end), "idle", "idle")
    /\ UNCHANGED strayed

UpdateStep(r) == \/ UpdateRead(r)
                 \/ UpdateStore(r)
                 \/ UpdateService(r)
                 \/ UpdateUndo(r)

-----------------------------------------------------------------------------
(* countdowntimerusecase: Stop *)

\* checkCountDownTimer: a DATE timer has no row in countdown_timers.
Countdown(t) == Live(t) /\ IsCountdown(t)

StopRead(r) ==
    /\ Countdown(row)
    /\ ~row.paused
    /\ \E skew \in PauseSkew : Begin(r, "Stop", "stop.service", clock - skew)

\* A Stop whose answer is lost is not compensated: nothing was registered yet.
StopService(r) ==
    /\ pc[r] = "stop.service"
    /\ ServiceCall(r, AcceptsRemove(service), NoEntry, "stop.store", "idle")
    /\ strayed' = (strayed \/ (Failed /\ service' # service))

\* Variant: the call to the service is not registered for compensation.
StopStoreUncompensated(r) ==
    /\ pc[r] = "stop.store"
    /\ StorageCall(r, UpdatePauseTime(row, arg[r], TRUE), "idle", "idle")
    /\ UNCHANGED strayed

StopStore(r) ==
    /\ pc[r] = "stop.store"
    /\ StorageCall(r, UpdatePauseTime(row, arg[r], TRUE), "idle", "stop.undo")
    /\ UNCHANGED strayed

\* The service refuses to start the timer again once its end has passed.
StopUndo(r) ==
    /\ pc[r] = "stop.undo"
    /\ ServiceCall(r, AcceptsAdd(service, snap[r].end, clock), snap[r].end, "idle", "idle")
    /\ strayed' = (strayed \/ (Running(row) /\ ~Registered(service')))

StopStep(r) == \/ StopRead(r)
               \/ StopService(r)
               \/ StopStore(r)
               \/ StopUndo(r)

-----------------------------------------------------------------------------
(* countdowntimerusecase: Start *)

\* endTime = EndTime + time.Since(PauseTime), computed from the row as read.
StartRead(r) ==
    LET end == row.end + (clock - row.pauseTime) IN
    /\ Countdown(row)
    /\ row.paused
    /\ end <= MaxTime
    /\ Begin(r, "Start", "start.time", end)

StartTime(r) ==
    /\ pc[r] = "start.time"
    /\ StorageCall(r, UpdateTime(row, arg[r]), "start.pause", "idle")
    /\ UNCHANGED strayed

StartPause(r) ==
    /\ pc[r] = "start.pause"
    /\ StorageCall(r, UpdatePauseTime(row, ZeroTime, FALSE), "start.service", "start.undoTime")
    /\ strayed' = (strayed \/ (Failed /\ Running(row') /\ ~Running(row)))

\* Variant: the pause is not registered for compensation.
StartServiceForgetsPause(r) ==
    /\ pc[r] = "start.service"
    /\ ServiceCall(r, AcceptsAdd(service, arg[r], clock), arg[r], "idle", "start.undoTime")
    /\ strayed' = (strayed /\ ~Registered(service'))

StartService(r) ==
    /\ pc[r] = "start.service"
    /\ ServiceCall(r, AcceptsAdd(service, arg[r], clock), arg[r], "idle", "start.undoPause")
    /\ strayed' = (strayed /\ ~Registered(service'))

StartUndoPause(r) ==
    /\ pc[r] = "start.undoPause"
    /\ StorageCall(r, UpdatePauseTime(row, snap[r].pauseTime, TRUE), "start.undoTime", "start.undoTime")
    /\ strayed' = (strayed \/ Running(row'))

StartUndoTime(r) ==
    /\ pc[r] = "start.undoTime"
    /\ StorageCall(r, UpdateTime(row, snap[r].end), "idle", "idle")
    /\ UNCHANGED strayed

StartStep(r) == \/ StartRead(r)
                \/ StartTime(r)
                \/ StartPause(r)
                \/ StartService(r)
                \/ StartUndoPause(r)
                \/ StartUndoTime(r)

-----------------------------------------------------------------------------
(* countdowntimerusecase: Reset never calls the timer service *)

ResetRead(r) ==
    /\ Countdown(row)
    /\ clock + row.duration <= MaxTime
    /\ Begin(r, "Reset", "reset.time", clock + row.duration)

ResetTime(r) ==
    /\ pc[r] = "reset.time"
    /\ StorageCall(r, UpdateTime(row, arg[r]),
                   IF snap[r].paused THEN "reset.pause" ELSE "idle", "idle")
    /\ UNCHANGED strayed

ResetPause(r) ==
    /\ pc[r] = "reset.pause"
    /\ StorageCall(r, UpdatePauseTime(row, arg[r] - snap[r].duration, TRUE), "idle", "reset.undo")
    /\ UNCHANGED strayed

\* Variant: the compensation writes the end that ResetTime has written.
ResetUndoToNew(r) ==
    /\ pc[r] = "reset.undo"
    /\ StorageCall(r, UpdateTime(row, arg[r]), "idle", "idle")
    /\ UNCHANGED strayed

ResetUndo(r) ==
    /\ pc[r] = "reset.undo"
    /\ StorageCall(r, UpdateTime(row, snap[r].end), "idle", "idle")
    /\ UNCHANGED strayed

ResetStep(r) == \/ ResetRead(r)
                \/ ResetTime(r)
                \/ ResetPause(r)
                \/ ResetUndo(r)

-----------------------------------------------------------------------------
(* StreamHandler: the ticks of the service and the delete notifications *)

\* The service fires the timer; a tick that no application receives is lost.
Fire ==
    /\ Registered(service)
    /\ service <= clock
    /\ service' = NoEntry
    /\ \/ /\ up
          /\ \E h \in Handler : /\ hpc[h] = "idle"
                                /\ hpc' = [hpc EXCEPT ![h] = "tick"]
          /\ UNCHANGED strayed
       \/ /\ ~up
          /\ strayed' = (strayed \/ Running(row))
          /\ UNCHANGED hpc
    /\ UNCHANGED <<row, cached, requestVars, hsnap, notices, worldVars, faults>>

HandlerGoto(h, label, t) ==
    /\ hpc' = [hpc EXCEPT ![h] = label]
    /\ hsnap' = [hsnap EXCEPT ![h] = t]

\* timerExpired reads the timer; the notification of its subscribers lies
\* between this step and the next.
ExpiredRead(h) ==
    /\ hpc[h] = "tick"
    /\ \/ Live(row) /\ HandlerGoto(h, "clear", row) /\ UNCHANGED <<faults, strayed>>
       \/ ~Live(row) /\ HandlerGoto(h, "idle", NoRow) /\ UNCHANGED <<faults, strayed>>
       \/ Fault /\ HandlerGoto(h, "idle", NoRow) /\ strayed' = (strayed \/ Running(row))
    /\ UNCHANGED <<row, cached, service, notices>>

\* Variant: the timer is written back as not paused.
ClearedUnpaused(t, read) ==
    IF read.type = "DATE"
    THEN DeleteTimer(t)
    ELSE UpdatePauseTime(t, read.end - read.duration, FALSE)

\* clearExpiredTimer writes what the row was when it was read; errors of its
\* calls are ignored.
Cleared(t, read) ==
    IF read.type = "DATE"
    THEN DeleteTimer(t)
    ELSE UpdatePauseTime(t, read.end - read.duration, TRUE)

ExpiredClear(h) ==
    /\ hpc[h] = "clear"
    /\ IF hsnap[h].type = "DATE" THEN HandlerGoto(h, "uncache", NoRow) ELSE HandlerGoto(h, "idle", NoRow)
    /\ \/ row' = Cleared(row, hsnap[h]) /\ UNCHANGED <<faults, strayed>>
       \/ /\ Fault
          /\ row' \in Outcomes(row, Cleared(row, hsnap[h]))
          /\ strayed' = (strayed \/ Running(row'))
    /\ UNCHANGED <<cached, service, notices>>

ExpiredUncache(h) ==
    /\ hpc[h] = "uncache"
    /\ HandlerGoto(h, "idle", NoRow)
    /\ \/ cached' = FALSE /\ UNCHANGED faults
       \/ Fault /\ cached' \in Outcomes(cached, FALSE)
    /\ UNCHANGED <<row, service, notices, strayed>>

HandlerStep(h) == /\ \/ ExpiredRead(h)
                     \/ ExpiredClear(h)
                     \/ ExpiredUncache(h)
                  /\ UNCHANGED <<requestVars, worldVars>>

\* timerDelete: after the notification the subscribers leave the cache.
TimerDelete ==
    /\ notices > 0
    /\ notices' = notices - 1
    /\ \/ cached' = FALSE /\ UNCHANGED faults
       \/ Fault /\ cached' \in Outcomes(cached, FALSE)
    /\ UNCHANGED <<row, service, requestVars, handlerVars, worldVars, strayed>>

-----------------------------------------------------------------------------
(* The application and the clock *)

Crash ==
    /\ up
    /\ crashes < MaxCrashes
    /\ crashes' = crashes + 1
    /\ up' = FALSE
    /\ pc' = [r \in Req |-> "idle"]
    /\ snap' = [r \in Req |-> NoRow]
    /\ arg' = [r \in Req |-> 0]
    /\ hpc' = [h \in Handler |-> "idle"]
    /\ hsnap' = [h \in Handler |-> NoRow]
    /\ notices' = 0
    /\ strayed' = (strayed \/ (Running(row) /\ ~Registered(service)))
    /\ UNCHANGED <<row, cached, service, clock, faults>>

\* Invoke runs before the server listens: every timer that is not deleted is
\* put back into the cache, and into the service when its end is to come,
\* paused or not.  An error is logged and the application starts all the same.
Restart ==
    LET due == Live(row) /\ row.end > clock IN
    /\ ~up
    /\ up' = TRUE
    /\ \/ /\ cached' = (cached \/ Live(row))
          /\ service' = IF due THEN row.end ELSE service
          /\ UNCHANGED faults
       \/ /\ Fault
          /\ cached' \in {cached, cached \/ Live(row)}
          /\ service' \in {service, IF due THEN row.end ELSE service}
    /\ strayed' = (strayed /\ ~Registered(service'))
    /\ UNCHANGED <<row, requestVars, handlerVars, notices, clock, crashes>>

Clock == /\ clock < MaxTime
         /\ clock' = clock + 1
         /\ UNCHANGED <<row, cached, service, requestVars, handlerVars, notices,
                        up, crashes, faults, strayed>>

-----------------------------------------------------------------------------

RequestStep(r) == /\ up
                  /\ \/ CreateStep(r)
                     \/ DeleteStep(r)
                     \/ UpdateStep(r)
                     \/ StopStep(r)
                     \/ StartStep(r)
                     \/ ResetStep(r)
                  /\ UNCHANGED <<handlerVars, worldVars>>

Next == \/ \E r \in Req : RequestStep(r)
        \/ Fire
        \/ \E h \in Handler : HandlerStep(h)
        \/ TimerDelete
        \/ Crash
        \/ Restart
        \/ Clock

Spec == Init /\ [][Next]_vars

\* Goroutines run, the service fires what is due and time passes.  A request in
\* progress makes its next call; nobody has to make a request.
Continue(r) == pc[r] # "idle" /\ RequestStep(r)

Fairness == /\ \A r \in Req : WF_vars(Continue(r))
            /\ \A h \in Handler : WF_vars(HandlerStep(h))
            /\ WF_vars(TimerDelete)
            /\ WF_vars(Fire)
            /\ WF_vars(Clock)

FairSpec == Spec /\ Fairness

-----------------------------------------------------------------------------
(* Properties *)

\* Request r has taken the timer's entry away, or has not made it yet, and its
\* next calls pause or delete the timer or register it.
Settling(r) ==
    \/ pc[r] \in {"create.subscribe", "create.add", "create.undoSubscribe", "create.undoInsert",
                  "stop.store", "stop.undo", "start.service", "start.undoPause"}
    \/ pc[r] = "delete.mark" /\ ~snap[r].paused

\* Handler h will pause or delete the timer.
Expiring(h) == hpc[h] \in {"tick", "clear"}

\* However the creator's requests, the ticks and the handlers interleave, a
\* running timer is registered in the timer service, or a request or a handler
\* that will settle it is on its way: no race leaves a timer running for ever.
AlwaysWatched ==
    Running(row) =>
        \/ Registered(service)
        \/ \E r \in Req : Settling(r)
        \/ \E h \in Handler : Expiring(h)

\* The same when calls fail and the application restarts, unless one of the
\* failures that no compensation covers has struck.
Watched == ~strayed => AlwaysWatched

\* Nothing is in progress.
Quiet == /\ \A r \in Req : pc[r] = "idle"
         /\ \A h \in Handler : hpc[h] = "idle"

\* With one request at a time: between requests exactly the running timers are
\* registered, also after a request that failed and was rolled back.
\* A Delete goes on when the service could not be reached, and leaves an entry.
RegisteredIffRunning ==
    Quiet /\ ~strayed /\ (faults = 0 \/ Live(row)) => (Registered(service) <=> Running(row))

\* With one request at a time and no failing call: the service is to fire a
\* running timer at the end that the database shows to its users, also after a
\* request that the service refused.
RegisteredAtEnd ==
    Quiet /\ faults = 0 /\ Running(row) /\ Registered(service) => service = row.end

\* An expired countdown timer is set back to its full duration: started again,
\* it runs for as long as the first time, whatever happened between the
\* handler's read and its write.
FullAfterExpiry ==
    [][\A h \in Handler :
         hpc[h] = "clear" /\ hpc'[h] = "idle" /\ up' /\ ~Failed
             => row'.end - row'.pauseTime = row'.duration]_vars

\* With one request at a time: after a single failure the last compensation
\* leaves the end and the duration that the request had read, and, when every
\* answer arrives, the pause.
RollbackRestores ==
    [][\A r \in Req :
         pc[r] \in {"update.undo", "start.undoTime", "reset.undo"} /\ pc'[r] = "idle"
             /\ up' /\ ~Failed /\ faults < 2 /\ ~strayed
             => /\ row'.end = snap[r].end
                /\ row'.duration = snap[r].duration
                /\ snap[r].paused /\ ~LostAnswers =>
                       row'.paused /\ row'.pauseTime = snap[r].pauseTime]_vars

\* Without failures no timer runs for ever: it expires, or is paused or deleted.
RunningEnds == Running(row) ~> ~Running(row)
-----------------------------------------------------------------------------
(* The requests as a client sees them: TimerPromise *)

Creating == {"create.subscribe", "create.add", "create.undoSubscribe", "create.undoInsert"}

\* The row without what request r has written so far and its saga may undo.
Undone(r) ==
    CASE pc[r] \in Creating -> NoRow
      [] pc[r] \in {"update.service", "update.undo"} ->
             [row EXCEPT !.end = snap[r].end, !.duration = snap[r].duration]
      [] pc[r] \in {"start.pause", "start.undoTime"} -> UpdateTime(row, snap[r].end)
      [] pc[r] \in {"start.service", "start.undoPause"} ->
             UpdatePauseTime(UpdateTime(row, snap[r].end), snap[r].pauseTime, TRUE)
      [] OTHER -> row

\* Of a timer that is not there the queries return nothing.
Shown(t) == IF Live(t) THEN t ELSE IF t.exists THEN GoneRow ELSE NoRow

\* The timer as it will be if the request in progress, of which there is at
\* most one, does not succeed.
Seen == LET busy == {r \in Req : pc[r] # "idle"}
        IN  Shown(IF busy = {} THEN row ELSE Undone(CHOOSE r \in busy : TRUE))

Promise == INSTANCE TimerPromise WITH timer <- Seen, entry <- service,
                                      ringing <- (\E h \in Handler : Expiring(h))

\* A failure that nothing makes good: of a compensation of the row, or of an
\* expiry handler.
Unrepaired ==
    /\ Failed
    /\ \/ \E r \in Req : /\ pc[r] \in {"create.undoInsert", "update.undo",
                                       "start.undoPause", "start.undoTime"}
                         /\ pc'[r] # pc[r]
       \/ \E h \in Handler : Expiring(h) /\ hpc'[h] # hpc[h]

\* With one request at a time, and no Reset: a request takes effect in the
\* database and in the timer service at once or not at all, also when one of
\* its calls is refused or fails while ticks and handlers run between them; a
\* timer that has ended is settled at its full duration.  What happens is what
\* TimerPromise allows, but for the failure of a compensation or a handler.
AllOrNothing ==
    /\ Promise!PromiseInit
    /\ [][~Unrepaired => [Promise!PromiseNext]_Promise!promiseVars]_vars
=============================================================================
