---------------------- MODULE TimerLifecycleSerialProofs ----------------------
(***************************************************************************)
(* What holds of TimerLifecycle when the creator makes one request at a    *)
(* time: between requests the database and the timer service agree, an     *)
(* expired countdown has its full duration, a request that was rolled back *)
(* has left the timer as it was, and the requests do what TimerPromise     *)
(* says: all or nothing.  Ticks, the handlers of expired timers and delete *)
(* notifications still interleave with the calls of the request, and any   *)
(* number of calls may fail.                                               *)
(***************************************************************************)
EXTENDS TimerLifecycleProofs

\* The creator waits for an answer before the next request.
OneAtATime == \A q, r \in Req : q = r

\* A call that fails has had no effect, and the application is not restarted.
Reliable == ~LostAnswers /\ MaxCrashes = 0

-----------------------------------------------------------------------------
(* The invariant *)

NobodyExpires == \A h \in Handler : ~Expiring(h)
AtMostOneExpires == \A g, h \in Handler : Expiring(g) /\ Expiring(h) => g = h

\* The timer service does not know the timer, and no tick of it is on its way.
Loose == ~Registered(service) /\ NobodyExpires

Starting == {"start.time", "start.pause", "start.service", "start.undoPause", "start.undoTime"}
Stopping == {"stop.store", "stop.undo"}
Resetting == {"reset.time", "reset.pause", "reset.undo"}

\* The pause is the one that request r has read.
StillPaused(r) == row.paused /\ row.pauseTime = snap[r].pauseTime

\* What a request in progress knows of the timer: a request that creates,
\* starts or stops it has it to itself, because the service does not know it
\* and can send no tick; one that has read a pause still finds it.
Phase(r) ==
    /\ pc[r] \in Creating \cup Starting => Live(row) /\ Loose
    /\ pc[r] \in Stopping => row.exists /\ (Live(row) => Loose)
    /\ pc[r] \in Creating \cup Stopping \cup {"start.service", "start.undoPause"} /\ Live(row) =>
           ~row.paused
    /\ pc[r] \in {"start.time", "start.pause"} => StillPaused(r)
    /\ pc[r] = "start.undoTime" /\ ~strayed => StillPaused(r)
    /\ pc[r] \in {"delete.mark", "update.store"} \cup Resetting /\ snap[r].paused =>
           Live(row) /\ StillPaused(r)
    /\ pc[r] \in {"reset.pause", "reset.undo"} => snap[r].paused
    /\ pc[r] = "delete.mark" /\ faults = 0 => ~Registered(service)
    /\ pc[r] = "stop.undo" => faults > 0

\* The service knows no paused timer and sends no tick of one, it knows no
\* timer that was never created, and it knows a deleted one only after a
\* failure.
World ==
    /\ Live(row) => /\ Registered(service) => ~row.paused /\ NobodyExpires
                    /\ ~NobodyExpires => ~row.paused
                    /\ AtMostOneExpires
    /\ ~row.exists => Loose
    /\ faults = 0 /\ ~Live(row) => ~Registered(service)
    /\ up

SerialInv == World /\ \A r \in Req : Phase(r)

-----------------------------------------------------------------------------
(* What the calls of a request do to the request itself *)

\* Request r has gone on with the call label.
Went(r, label) ==
    /\ pc'[r] = label
    /\ label # "idle" => snap'[r] = snap[r] /\ arg'[r] = arg[r]

\* Goto moves the request, and keeps what it has read until it ends.
LEMMA GotoWent ==
    ASSUME TypeOK, NEW r \in Req, NEW label, Goto(r, label)
    PROVE  Went(r, label)
  BY DEF TypeOK, Goto, Went

\* A statement is executed, or it fails and its outcome is open.
LEMMA StorageWent ==
    ASSUME TypeOK, NEW r \in Req, NEW new, NEW ok, NEW err, StorageCall(r, new, ok, err)
    PROVE  /\ service' = service
           /\ \/ row' = new /\ Went(r, ok) /\ faults' = faults
              \/ row' \in Outcomes(row, new) /\ Went(r, err) /\ faults' = faults + 1
  BY GotoWent DEF StorageCall, Fault

\* The service accepts, refuses, or cannot be reached.
LEMMA ServiceWent ==
    ASSUME TypeOK, NEW r \in Req, NEW accepted, NEW new, NEW ok, NEW err,
           ServiceCall(r, accepted, new, ok, err)
    PROVE  /\ row' = row
           /\ \/ accepted /\ service' = new /\ Went(r, ok) /\ faults' = faults
              \/ ~accepted /\ service' = service /\ Went(r, err) /\ faults' = faults
              \/ /\ service' \in Outcomes(service, new) \cup {service}
                 /\ Went(r, err) /\ faults' = faults + 1
<1>1. CASE accepted /\ service' = new /\ Goto(r, ok) /\ UNCHANGED faults
  BY <1>1, GotoWent DEF ServiceCall
<1>2. CASE ~accepted /\ service' = service /\ Goto(r, err) /\ UNCHANGED faults
  BY <1>2, GotoWent DEF ServiceCall
<1>3. CASE Fault /\ service' \in (IF accepted THEN Outcomes(service, new) ELSE {service}) /\ Goto(r, err)
  BY <1>3, GotoWent DEF ServiceCall, Fault
<1> QED
  BY <1>1, <1>2, <1>3 DEF ServiceCall

\* The cache answers or not; the row and the entry stay.
LEMMA CacheWent ==
    ASSUME TypeOK, NEW r \in Req, NEW new, NEW ok, NEW err, CacheCall(r, new, ok, err)
    PROVE  /\ UNCHANGED <<row, service, strayed>>
           /\ \/ Went(r, ok) /\ faults' = faults
              \/ Went(r, err) /\ faults' = faults + 1
  BY GotoWent DEF CacheCall, Fault

\* A request begins with the row as it is.
LEMMA BeginWent ==
    ASSUME TypeOK, NEW r \in Req, NEW op, NEW label, NEW time, Begin(r, op, label, time)
    PROVE  /\ op \in Ops /\ pc[r] = "idle"
           /\ pc'[r] = label /\ snap'[r] = row /\ arg'[r] = time
           /\ UNCHANGED <<row, service, faults, strayed>>
  BY DEF TypeOK, Begin

\* A call that fails leaves the old value when answers are not lost.
LEMMA NothingLost ==
    ASSUME Reliable, NEW old, NEW new
    PROVE  Outcomes(old, new) = {old}
  BY DEF Reliable, Outcomes

\* What the statements of the storage set, and that they leave the rest.
LEMMA Deleted ==
    ASSUME NEW t \in Rows
    PROVE  LET new == DeleteTimer(t) IN
           /\ ~Live(new) /\ new.exists = t.exists
           /\ new.end = t.end /\ new.duration = t.duration
  BY DEF Rows, Live, DeleteTimer

\* UpdateTime writes the end and nothing else.
LEMMA TimeUpdated ==
    ASSUME NEW t \in Rows, NEW end \in Int
    PROVE  LET new == UpdateTime(t, end) IN
           /\ Live(new) <=> Live(t)
           /\ new.exists = t.exists /\ new.paused = t.paused /\ new.pauseTime = t.pauseTime
           /\ new.end = end /\ new.duration = t.duration
  BY DEF Rows, Live, UpdateTime

\* UpdateTimer moves the end, and the duration with it.
LEMMA TimerUpdated ==
    ASSUME NEW t \in Rows, NEW end \in Int
    PROVE  LET new == UpdateTimer(t, end) IN
           /\ Live(new) <=> Live(t)
           /\ new.exists = t.exists /\ new.paused = t.paused /\ new.pauseTime = t.pauseTime
           /\ new.end = end /\ new.duration = t.duration + (end - t.end)
  BY DEF Rows, Live, UpdateTimer

\* UpdatePauseTime writes the pause and keeps the rest.
LEMMA PauseUpdated ==
    ASSUME NEW t \in Rows, NEW pauseTime \in Int, NEW paused \in BOOLEAN
    PROVE  LET new == UpdatePauseTime(t, pauseTime, paused) IN
           /\ Live(new) <=> Live(t)
           /\ new.exists = t.exists /\ (new.paused <=> paused) /\ new.pauseTime = pauseTime
           /\ new.end = t.end /\ new.duration = t.duration
  BY DEF Rows, Live, UpdatePauseTime

-----------------------------------------------------------------------------
(* A request keeps the invariant *)

SameHandlers == /\ NobodyExpires' <=> NobodyExpires
                /\ AtMostOneExpires' <=> AtMostOneExpires

\* What the steps of a request have to show: the rest of the application has
\* not moved, and there is no other request.
LEMMA SerialStep ==
    ASSUME OneAtATime, SerialInv, NEW r \in Req, UNCHANGED <<hpc, up>>
    PROVE  /\ World /\ Phase(r)
           /\ SameHandlers
           /\ World' /\ Phase(r)' => SerialInv'
<1>1. World /\ Phase(r)
  BY DEF SerialInv
<1>2. SameHandlers
  BY DEF SameHandlers, NobodyExpires, AtMostOneExpires, Expiring
<1>3. ASSUME World', Phase(r)' PROVE SerialInv'
  BY <1>3 DEF SerialInv, OneAtATime
<1> QED
  BY <1>1, <1>2, <1>3

\* A request that creates, starts or stops the timer keeps it loose while it
\* goes on: of the world only the row changes, and it stays what it is for.
LEMMA SerialCreate ==
    ASSUME OneAtATime, Reliable, IInv, SerialInv, NEW r \in Req, UNCHANGED <<hpc, up>>,
           CreateStep(r)
    PROVE  SerialInv'
<1> SUFFICES World' /\ Phase(r)'
  BY SerialStep
<1>0. World /\ Phase(r) /\ SameHandlers /\ up'
  BY SerialStep DEF World
<1> TypeOK /\ RemoveReadRunning
  BY DEF IInv
<1>1. CASE CreateInsert(r)
  <2>1. PICK type \in Types, start \in Times, end \in Times :
           row' = InsertTimer(type, start, end) /\ pc' = [pc EXCEPT ![r] = "create.subscribe"]
    BY <1>1 DEF CreateInsert, Reliable
  <2>2. Live(row') /\ ~row'.paused /\ row'.exists
    BY <2>1 DEF InsertTimer, Live
  <2>3. Loose' /\ pc'[r] = "create.subscribe"
    BY <1>0, <1>1, <2>1 DEF SameHandlers, CreateInsert, World, Loose, TypeOK
  <2>4. AtMostOneExpires'
    BY <2>3 DEF Loose, NobodyExpires, AtMostOneExpires
  <2> QED
    BY <1>0, <2>2, <2>3, <2>4 DEF World, Phase, Loose, Creating, Starting, Stopping, Resetting
<1>2. CASE CreateSubscribe(r)
  <2>1. /\ pc[r] = "create.subscribe" /\ UNCHANGED <<row, service, strayed>>
        /\ pc'[r] \in {"create.add", "create.undoInsert"} /\ faults' \in {faults, faults + 1}
    BY <1>2, CacheWent DEF CreateSubscribe, Went
  <2> QED
    BY <1>0, <2>1 DEF TypeOK, SameHandlers, World, Phase, Loose, Creating, Starting, Stopping, Resetting
<1>3. CASE CreateAdd(r)
  <2>1. /\ pc[r] = "create.add" /\ UNCHANGED <<row, strayed>> /\ faults' \in {faults, faults + 1}
        /\ pc'[r] = "idle" \/ (pc'[r] = "create.undoSubscribe" /\ service' = service)
    BY <1>3, ServiceWent, NothingLost DEF CreateAdd, Went
  <2>2. CASE pc'[r] = "idle"
    BY <1>0, <2>1, <2>2 DEF Live, SameHandlers, World, Phase, Loose, Creating, Starting, Stopping, Resetting
  <2>3. CASE pc'[r] = "create.undoSubscribe" /\ service' = service
    BY <1>0, <2>1, <2>3 DEF SameHandlers, World, Phase, Loose, Creating, Starting, Stopping, Resetting
  <2> QED
    BY <2>1, <2>2, <2>3
<1>4. CASE CreateUndoSubscribe(r)
  <2>1. /\ pc[r] = "create.undoSubscribe" /\ UNCHANGED <<row, service, strayed>>
        /\ pc'[r] = "create.undoInsert" /\ faults' \in {faults, faults + 1}
    BY <1>4, CacheWent DEF CreateUndoSubscribe, Went
  <2> QED
    BY <1>0, <2>1 DEF TypeOK, SameHandlers, World, Phase, Loose, Creating, Starting, Stopping, Resetting
<1>5. CASE CreateUndoInsert(r)
  <2>1. /\ pc[r] = "create.undoInsert" /\ service' = service /\ pc'[r] = "idle"
        /\ row' \in {row, DeleteTimer(row)} /\ faults' \in {faults, faults + 1}
    BY <1>5, StorageWent, NothingLost DEF CreateUndoInsert, Went
  <2>2. ~Live(DeleteTimer(row)) /\ DeleteTimer(row).exists = row.exists
    BY Deleted DEF TypeOK
  <2> QED
    BY <1>0, <2>1, <2>2 DEF TypeOK, SameHandlers, World, Phase, Loose, Creating, Starting, Stopping, Resetting
<1> QED
  BY <1>1, <1>2, <1>3, <1>4, <1>5 DEF CreateStep

\* Delete removes the entry before it marks the row: between the two the row
\* lives and the service knows nothing, and the only request is the one that knows.
LEMMA SerialDelete ==
    ASSUME OneAtATime, Reliable, IInv, SerialInv, NEW r \in Req, UNCHANGED <<hpc, up>>,
           DeleteStep(r)
    PROVE  SerialInv'
<1> SUFFICES World' /\ Phase(r)'
  BY SerialStep
<1>0. World /\ Phase(r) /\ SameHandlers /\ up'
  BY SerialStep DEF World
<1> TypeOK /\ RemoveReadRunning
  BY DEF IInv
<1>1. CASE DeleteRead(r)
  <2>1. /\ pc'[r] = IF row.paused THEN "delete.mark" ELSE "delete.remove"
        /\ Live(row) /\ snap'[r] = row /\ UNCHANGED <<row, service, faults, strayed>>
    BY <1>1, BeginWent DEF DeleteRead
  <2> QED
    BY <1>0, <2>1 DEF SameHandlers, World, Phase, StillPaused, Loose, Creating, Starting, Stopping, Resetting
<1>2. CASE DeleteRemove(r)
  <2>0. /\ pc[r] = "delete.remove" /\ UNCHANGED strayed
        /\ ServiceCall(r, AcceptsRemove(service), NoEntry, "delete.mark", "delete.mark")
    BY <1>2 DEF DeleteRemove
  <2>1. /\ pc[r] = "delete.remove" /\ pc'[r] = "delete.mark" /\ snap'[r] = snap[r]
        /\ UNCHANGED <<row, strayed>>
        /\ \/ ~Registered(service') /\ faults' = faults
           \/ service' = service /\ faults' = faults + 1
    <3>1. /\ row' = row /\ Went(r, "delete.mark")
          /\ \/ service' = NoEntry /\ faults' = faults
             \/ ~AcceptsRemove(service) /\ service' = service /\ faults' = faults
             \/ service' = service /\ faults' = faults + 1
      BY <2>0, ServiceWent, NothingLost
    <3> QED
      BY <2>0, <3>1 DEF Went, AcceptsRemove, Registered
  <2>2. ~snap[r].paused
    BY <2>1 DEF RemoveReadRunning
  <2> QED
    BY <1>0, <2>1, <2>2 DEF TypeOK, SameHandlers, World, Phase, Loose, Creating, Starting, Stopping, Resetting
<1>3. CASE DeleteMark(r)
  <2>0. pc[r] = "delete.mark" /\ StorageCall(r, DeleteTimer(row), "delete.send", "idle")
    BY <1>3 DEF DeleteMark
  <2>1. /\ pc'[r] \in {"delete.send", "idle"} /\ service' = service
        /\ \/ row' = DeleteTimer(row) /\ faults' = faults
           \/ row' = row /\ faults' = faults + 1
    BY <2>0, StorageWent, NothingLost DEF Went
  <2>2. ~Live(DeleteTimer(row)) /\ DeleteTimer(row).exists = row.exists
    BY Deleted DEF TypeOK
  <2> QED
    BY <1>0, <2>0, <2>1, <2>2 DEF TypeOK, SameHandlers, World, Phase, Loose, Creating, Starting, Stopping, Resetting
<1>4. CASE DeleteSend(r)
  <2>1. pc'[r] = "idle" /\ UNCHANGED <<row, service, faults, strayed>>
    BY <1>4, GotoWent DEF DeleteSend, Went
  <2> QED
    BY <1>0, <2>1 DEF SameHandlers, World, Phase, Loose, Creating, Starting, Stopping, Resetting
<1> QED
  BY <1>1, <1>2, <1>3, <1>4 DEF DeleteStep

\* Moving the end of a timer, in a step after which the request only has calls
\* of an Update to make, if any.
LEMMA UpdateKeeps ==
    ASSUME TypeOK, World, NEW r \in Req, NEW end \in Int,
           SameHandlers, up',
           service' = service, faults' \in {faults, faults + 1},
           pc'[r] \in {"update.service", "idle"}, row' \in {row, UpdateTimer(row, end)}
    PROVE  World' /\ Phase(r)'
<1>1. /\ Live(row') <=> Live(row)
      /\ row'.exists = row.exists /\ row'.paused = row.paused
  BY TimerUpdated DEF TypeOK
<1>2. faults' = 0 => faults = 0
  BY DEF TypeOK
<1> QED
  BY <1>1, <1>2 DEF SameHandlers, World, Phase, Loose, Creating, Starting, Stopping, Resetting

\* Update stores the end before the service learns it; a paused timer it leaves
\* to the database alone.
LEMMA SerialUpdate ==
    ASSUME OneAtATime, Reliable, IInv, SerialInv, NEW r \in Req, UNCHANGED <<hpc, up>>,
           UpdateStep(r)
    PROVE  SerialInv'
<1> SUFFICES World' /\ Phase(r)'
  BY SerialStep
<1>0. World /\ Phase(r) /\ SameHandlers /\ up'
  BY SerialStep DEF World
<1> TypeOK
  BY DEF IInv
<1>1. CASE UpdateRead(r)
  <2>1. /\ pc'[r] = "update.store" /\ Live(row) /\ snap'[r] = row
        /\ UNCHANGED <<row, service, faults, strayed>>
    BY <1>1, BeginWent DEF UpdateRead
  <2> QED
    BY <1>0, <2>1 DEF SameHandlers, World, Phase, StillPaused, Loose, Creating, Starting, Stopping, Resetting
<1>2. CASE UpdateStore(r)
  <2>1. /\ service' = service /\ faults' \in {faults, faults + 1}
        /\ pc'[r] \in {"update.service", "idle"} /\ row' \in {row, UpdateTimer(row, arg[r])}
    BY <1>2, StorageWent, NothingLost DEF UpdateStore, Went
  <2> QED
    BY <1>0, <2>1, UpdateKeeps DEF TypeOK
<1>3. CASE UpdateService(r)
  <2>1. /\ row' = row /\ faults' \in {faults, faults + 1} /\ pc'[r] \in {"update.undo", "idle"}
        /\ service' = service \/ AcceptsUpdate(service, arg[r], clock)
    BY <1>3, ServiceWent, NothingLost DEF UpdateService, Went
  <2>2. Registered(service') => Registered(service)
    BY <2>1 DEF AcceptsUpdate
  <2> QED
    BY <1>0, <2>1, <2>2 DEF TypeOK, SameHandlers, World, Phase, Loose, Creating, Starting, Stopping, Resetting
<1>4. CASE UpdateUndo(r)
  <2>1. /\ service' = service /\ faults' \in {faults, faults + 1}
        /\ pc'[r] = "idle" /\ row' \in {row, UpdateTimer(row, snap[r].end)}
    BY <1>4, StorageWent, NothingLost DEF UpdateUndo, Went
  <2> QED
    BY <1>0, <2>1, UpdateKeeps DEF TypeOK, Rows
<1> QED
  BY <1>1, <1>2, <1>3, <1>4 DEF UpdateStep

\* Stop has the service forget the timer before the row is paused; its undo
\* registers it again, and by then a failed call has been counted.
LEMMA SerialStop ==
    ASSUME OneAtATime, Reliable, IInv, SerialInv, NEW r \in Req, UNCHANGED <<hpc, up>>,
           StopStep(r)
    PROVE  SerialInv'
<1> SUFFICES World' /\ Phase(r)'
  BY SerialStep
<1>0. World /\ Phase(r) /\ SameHandlers /\ up'
  BY SerialStep DEF World
<1> TypeOK
  BY DEF IInv
<1>1. CASE StopRead(r)
  <2>1. pc'[r] = "stop.service" /\ UNCHANGED <<row, service, faults, strayed>>
    BY <1>1, BeginWent DEF StopRead
  <2> QED
    BY <1>0, <2>1 DEF SameHandlers, World, Phase, Loose, Creating, Starting, Stopping, Resetting
<1>2. CASE StopService(r)
  <2>0. ServiceCall(r, AcceptsRemove(service), NoEntry, "stop.store", "idle")
    BY <1>2 DEF StopService
  <2>1. \/ /\ AcceptsRemove(service) /\ service' = NoEntry /\ faults' = faults
           /\ pc'[r] = "stop.store"
        \/ service' = service /\ faults' \in {faults, faults + 1} /\ pc'[r] = "idle"
    BY <2>0, ServiceWent, NothingLost DEF Went
  <2>2. row' = row
    BY <2>0 DEF ServiceCall
  <2>3. CASE service' = service /\ faults' \in {faults, faults + 1} /\ pc'[r] = "idle"
    BY <1>0, <2>2, <2>3 DEF TypeOK, SameHandlers, World, Phase, Loose, Creating, Starting, Stopping, Resetting
  <2>4. CASE AcceptsRemove(service) /\ service' = NoEntry /\ pc'[r] = "stop.store"
    <3>1. Registered(service) /\ ~Registered(service')
      BY <2>4 DEF AcceptsRemove, Registered
    <3>2. row.exists
      BY <1>0, <3>1 DEF World, Loose
    <3> QED
      BY <1>0, <2>2, <2>4, <3>1, <3>2 DEF SameHandlers, World, Phase, Loose, Creating, Starting, Stopping, Resetting
  <2> QED
    BY <2>1, <2>3, <2>4
<1>3. CASE StopStore(r)
  <2> DEFINE new == UpdatePauseTime(row, arg[r], TRUE)
  <2>0. pc[r] = "stop.store" /\ StorageCall(r, new, "idle", "stop.undo")
    BY <1>3 DEF StopStore
  <2>1. /\ Live(new) <=> Live(row)
        /\ new.exists = row.exists
    <3>1. row \in Rows /\ arg[r] \in Int
      BY DEF TypeOK
    <3> QED
      BY <3>1, PauseUpdated
  <2> HIDE DEF new
  <2>2. /\ service' = service
        /\ \/ row' = new /\ pc'[r] = "idle" /\ faults' = faults
           \/ row' = row /\ pc'[r] = "stop.undo" /\ faults' = faults + 1
    BY <2>0, StorageWent, NothingLost DEF Went
  <2> QED
    BY <1>0, <2>0, <2>1, <2>2 DEF TypeOK, SameHandlers, World, Phase, Loose, Creating, Starting, Stopping, Resetting
<1>4. CASE StopUndo(r)
  <2>0. /\ pc[r] = "stop.undo"
        /\ ServiceCall(r, AcceptsAdd(service, snap[r].end, clock), snap[r].end, "idle", "idle")
    BY <1>4 DEF StopUndo
  <2>1. row' = row /\ pc'[r] = "idle" /\ faults' \in {faults, faults + 1}
        /\ (service' = service \/ AcceptsAdd(service, snap[r].end, clock))
    BY <2>0, ServiceWent, NothingLost DEF Went
  <2>2. /\ faults > 0 /\ faults' # 0
        /\ Live(row) => ~row.paused /\ NobodyExpires
        /\ row.exists
    BY <1>0, <2>0, <2>1 DEF TypeOK, Phase, Loose, Creating, Stopping
  <2> QED
    BY <1>0, <2>1, <2>2 DEF SameHandlers, World, Phase, Loose, Creating, Starting, Stopping, Resetting
<1> QED
  BY <1>1, <1>2, <1>3, <1>4 DEF StopStep

\* Start has the timer to itself until the service knows it, since a paused timer
\* sends no tick; its undo steps pause the row again with what was read.
LEMMA SerialStart ==
    ASSUME OneAtATime, Reliable, IInv, SerialInv, NEW r \in Req, UNCHANGED <<hpc, up>>,
           StartStep(r)
    PROVE  SerialInv'
<1> SUFFICES World' /\ Phase(r)'
  BY SerialStep
<1>0. World /\ Phase(r) /\ SameHandlers /\ up'
  BY SerialStep DEF World
<1> TypeOK
  BY DEF IInv
<1>1. CASE StartRead(r)
  <2>1. /\ pc'[r] = "start.time" /\ snap'[r] = row /\ Live(row) /\ row.paused
        /\ UNCHANGED <<row, service, faults, strayed>>
    BY <1>1, BeginWent DEF StartRead, Countdown
  <2>2. Loose /\ row.exists
    BY <1>0, <2>1 DEF World, Loose, Live
  <2> QED
    BY <1>0, <2>1, <2>2 DEF SameHandlers, World, Phase, StillPaused, Loose, Creating, Starting, Stopping, Resetting
<1>2. CASE StartTime(r)
  <2> DEFINE new == UpdateTime(row, arg[r])
  <2>0. pc[r] = "start.time" /\ StorageCall(r, new, "start.pause", "idle") /\ strayed' = strayed
    BY <1>2 DEF StartTime
  <2>1. /\ Live(new) <=> Live(row)
        /\ new.exists = row.exists /\ new.paused = row.paused /\ new.pauseTime = row.pauseTime
    BY TimeUpdated DEF TypeOK
  <2> HIDE DEF new
  <2>2. /\ service' = service
        /\ \/ row' = new /\ pc'[r] = "start.pause" /\ snap'[r] = snap[r] /\ faults' = faults
           \/ row' = row /\ pc'[r] = "idle" /\ faults' = faults + 1
    BY <2>0, StorageWent, NothingLost DEF Went
  <2>3. Live(row) /\ Loose /\ row.exists /\ StillPaused(r)
    BY <1>0, <2>0 DEF Phase, Starting, Live
  <2> QED
    BY <1>0, <2>1, <2>2, <2>3 DEF TypeOK, SameHandlers, World, Phase, StillPaused, Loose, Creating, Starting, Stopping, Resetting
<1>3. CASE StartPause(r)
  <2> DEFINE new == UpdatePauseTime(row, ZeroTime, FALSE)
  <2>0. pc[r] = "start.pause" /\ StorageCall(r, new, "start.service", "start.undoTime")
    BY <1>3 DEF StartPause
  <2>1. /\ Live(new) <=> Live(row)
        /\ new.exists = row.exists /\ ~new.paused
    <3>1. row \in Rows /\ ZeroTime \in Int
      BY DEF TypeOK, ZeroTime
    <3> QED
      BY <3>1, PauseUpdated
  <2> HIDE DEF new
  <2>2. /\ service' = service
        /\ \/ row' = new /\ pc'[r] = "start.service" /\ faults' = faults
           \/ row' = row /\ pc'[r] = "start.undoTime" /\ snap'[r] = snap[r] /\ faults' = faults + 1
    BY <2>0, StorageWent, NothingLost DEF Went
  <2>3. Live(row) /\ Loose /\ row.exists /\ StillPaused(r)
    BY <1>0, <2>0 DEF Phase, Starting, Live
  <2> QED
    BY <1>0, <2>1, <2>2, <2>3 DEF TypeOK, SameHandlers, World, Phase, StillPaused, Loose, Creating, Starting, Stopping, Resetting
<1>4. CASE StartService(r)
  <2>0. /\ pc[r] = "start.service"
        /\ ServiceCall(r, AcceptsAdd(service, arg[r], clock), arg[r], "idle", "start.undoPause")
    BY <1>4 DEF StartService
  <2>1. row' = row /\ faults' \in {faults, faults + 1}
        /\ \/ pc'[r] = "idle"
           \/ service' = service /\ pc'[r] = "start.undoPause"
    BY <2>0, ServiceWent, NothingLost DEF Went
  <2>2. Live(row) /\ Loose /\ row.exists /\ ~row.paused
    BY <1>0, <2>0 DEF Phase, Starting, Live
  <2> QED
    BY <1>0, <2>1, <2>2 DEF TypeOK, SameHandlers, World, Phase, Loose, Creating, Starting, Stopping, Resetting
<1>5. CASE StartUndoPause(r)
  <2> DEFINE new == UpdatePauseTime(row, snap[r].pauseTime, TRUE)
  <2>0. /\ pc[r] = "start.undoPause" /\ StorageCall(r, new, "start.undoTime", "start.undoTime")
        /\ strayed' = (strayed \/ Running(row'))
    BY <1>5 DEF StartUndoPause
  <2>1. /\ Live(new) <=> Live(row)
        /\ new.exists = row.exists /\ new.paused /\ new.pauseTime = snap[r].pauseTime
    <3>1. row \in Rows /\ snap[r].pauseTime \in Int
      BY DEF TypeOK, Rows
    <3> QED
      BY <3>1, PauseUpdated
  <2> HIDE DEF new
  <2>2. /\ service' = service /\ pc'[r] = "start.undoTime" /\ snap'[r] = snap[r]
        /\ \/ row' = new /\ faults' = faults
           \/ row' = row /\ faults' = faults + 1
    BY <2>0, StorageWent, NothingLost DEF Went
  <2>3. Live(row) /\ Loose /\ row.exists /\ ~row.paused
    BY <1>0, <2>0 DEF Phase, Starting, Live
  <2>4. row' = row => strayed'
    BY <2>0, <2>3 DEF Running
  <2> QED
    BY <1>0, <2>1, <2>2, <2>3, <2>4 DEF TypeOK, SameHandlers, World, Phase, StillPaused, Loose, Creating, Starting, Stopping, Resetting
<1>6. CASE StartUndoTime(r)
  <2> DEFINE new == UpdateTime(row, snap[r].end)
  <2>0. pc[r] = "start.undoTime" /\ StorageCall(r, new, "idle", "idle")
    BY <1>6 DEF StartUndoTime
  <2>1. /\ Live(new) <=> Live(row)
        /\ new.exists = row.exists /\ new.paused = row.paused
    BY TimeUpdated DEF TypeOK, Rows
  <2> HIDE DEF new
  <2>2. /\ service' = service /\ pc'[r] = "idle"
        /\ \/ row' = new /\ faults' = faults
           \/ row' = row /\ faults' = faults + 1
    BY <2>0, StorageWent, NothingLost DEF Went
  <2>3. Live(row) /\ Loose /\ row.exists
    BY <1>0, <2>0 DEF Phase, Starting, Live
  <2> QED
    BY <1>0, <2>1, <2>2, <2>3 DEF TypeOK, SameHandlers, World, Phase, Loose, Creating, Starting, Stopping, Resetting
<1> QED
  BY <1>1, <1>2, <1>3, <1>4, <1>5, <1>6 DEF StartStep

\* Reset writes the end and the pause of the row; the service is not called.
LEMMA SerialReset ==
    ASSUME OneAtATime, Reliable, IInv, SerialInv, NEW r \in Req, UNCHANGED <<hpc, up>>,
           ResetStep(r)
    PROVE  SerialInv'
<1> SUFFICES World' /\ Phase(r)'
  BY SerialStep
<1>0. World /\ Phase(r) /\ SameHandlers /\ up'
  BY SerialStep DEF World
<1> TypeOK
  BY DEF IInv
<1>1. CASE ResetRead(r)
  <2>1. /\ pc'[r] = "reset.time" /\ snap'[r] = row /\ Live(row)
        /\ UNCHANGED <<row, service, faults, strayed>>
    BY <1>1, BeginWent DEF ResetRead, Countdown
  <2> QED
    BY <1>0, <2>1 DEF SameHandlers, World, Phase, StillPaused, Loose, Creating, Starting, Stopping, Resetting
<1>2. CASE ResetTime(r)
  <2> DEFINE new == UpdateTime(row, arg[r])
             ok == IF snap[r].paused THEN "reset.pause" ELSE "idle"
  <2>0. pc[r] = "reset.time" /\ StorageCall(r, new, ok, "idle")
    BY <1>2 DEF ResetTime
  <2>1. /\ Live(new) <=> Live(row)
        /\ new.exists = row.exists /\ new.paused = row.paused /\ new.pauseTime = row.pauseTime
    BY TimeUpdated DEF TypeOK
  <2> HIDE DEF new
  <2>2. /\ service' = service
        /\ \/ row' = new /\ Went(r, ok) /\ faults' = faults
           \/ row' = row /\ pc'[r] = "idle" /\ faults' = faults + 1
    BY <2>0, StorageWent, NothingLost DEF Went
  <2>3. CASE pc'[r] = "idle"
    BY <1>0, <2>1, <2>2, <2>3 DEF TypeOK, SameHandlers, World, Phase, Loose, Creating, Starting, Stopping, Resetting
  <2>4. CASE pc'[r] = "reset.pause" /\ snap[r].paused /\ snap'[r] = snap[r] /\ row' = new
    BY <1>0, <2>0, <2>1, <2>2, <2>4
       DEF TypeOK, SameHandlers, World, Phase, StillPaused, Loose, Creating, Starting, Stopping, Resetting
  <2> QED
    BY <2>2, <2>3, <2>4 DEF Went
<1>3. CASE ResetPause(r)
  <2> DEFINE new == UpdatePauseTime(row, arg[r] - snap[r].duration, TRUE)
  <2>0. pc[r] = "reset.pause" /\ StorageCall(r, new, "idle", "reset.undo")
    BY <1>3 DEF ResetPause
  <2>1. /\ Live(new) <=> Live(row)
        /\ new.exists = row.exists /\ new.paused
    <3>1. arg[r] - snap[r].duration \in Int
      BY DEF TypeOK, Rows
    <3> QED
      BY <3>1, PauseUpdated DEF TypeOK
  <2> HIDE DEF new
  <2>2. /\ service' = service
        /\ \/ row' = new /\ pc'[r] = "idle" /\ faults' = faults
           \/ row' = row /\ pc'[r] = "reset.undo" /\ snap'[r] = snap[r] /\ faults' = faults + 1
    BY <2>0, StorageWent, NothingLost DEF Went
  <2>3. snap[r].paused /\ Live(row) /\ StillPaused(r)
    BY <1>0, <2>0 DEF Phase, Resetting
  <2> QED
    BY <1>0, <2>1, <2>2, <2>3 DEF TypeOK, SameHandlers, World, Phase, StillPaused, Loose, Creating, Starting, Stopping, Resetting
<1>4. CASE ResetUndo(r)
  <2> DEFINE new == UpdateTime(row, snap[r].end)
  <2>0. StorageCall(r, new, "idle", "idle")
    BY <1>4 DEF ResetUndo
  <2>1. /\ Live(new) <=> Live(row)
        /\ new.exists = row.exists /\ new.paused = row.paused
    BY TimeUpdated DEF TypeOK, Rows
  <2> HIDE DEF new
  <2>2. /\ service' = service /\ pc'[r] = "idle"
        /\ \/ row' = new /\ faults' = faults
           \/ row' = row /\ faults' = faults + 1
    BY <2>0, StorageWent, NothingLost DEF Went
  <2> QED
    BY <1>0, <2>1, <2>2 DEF TypeOK, SameHandlers, World, Phase, Loose, Creating, Starting, Stopping, Resetting
<1> QED
  BY <1>1, <1>2, <1>3, <1>4 DEF ResetStep

-----------------------------------------------------------------------------
(* Ticks, their handlers and the rest keep the invariant *)

\* The entry has gone and one tick is on its way: the timer, if it is still
\* there, is not paused.
LEMMA SerialFire ==
    ASSUME IInv, SerialInv, Fire
    PROVE  SerialInv'
<1>1. /\ Registered(service) /\ ~Registered(service') /\ World /\ up
      /\ UNCHANGED <<row, pc, snap, arg, up, faults, strayed>>
  BY DEF Fire, SerialInv, World, requestVars, worldVars, Registered
<1>2. World'
  <2>1. row.exists /\ Registered(service)
    BY <1>1 DEF World, Loose
  <2>2. AtMostOneExpires' \/ ~Live(row)
    <3>1. CASE Live(row)
      <4>1. NobodyExpires /\ \E h \in Handler : hpc' = [hpc EXCEPT ![h] = "tick"]
        BY <1>1, <2>1, <3>1 DEF World, Fire
      <4> QED
        BY <4>1 DEF IInv, TypeOK, NobodyExpires, AtMostOneExpires, Expiring
    <3> QED
      BY <3>1
  <2> QED
    BY <1>1, <2>1, <2>2 DEF World
<1>3. ASSUME NEW r \in Req PROVE Phase(r)'
  <2>1. Phase(r)
    BY DEF SerialInv
  <2>2. /\ pc[r] \notin Creating \cup Starting
        /\ pc[r] \in Stopping => ~Live(row)
    BY <1>1, <2>1 DEF Phase, Loose
  <2> QED
    BY <1>1, <2>1, <2>2 DEF Phase, StillPaused
<1> QED
  BY <1>2, <1>3 DEF SerialInv

\* Of the handlers only h has moved.
LEMMA HandlerWent ==
    ASSUME TypeOK, NEW h \in Handler, NEW label, NEW t, HandlerGoto(h, label, t)
    PROVE  /\ hpc'[h] = label /\ hsnap'[h] = t
           /\ \A g \in Handler : g # h => hpc'[g] = hpc[g] /\ hsnap'[g] = hsnap[g]
  BY DEF TypeOK, HandlerGoto

\* The handler of a tick pauses or marks the row that the service has already
\* forgotten; none of it runs while a request has the timer to itself.
LEMMA SerialHandler ==
    ASSUME Reliable, IInv, SerialInv, NEW h \in Handler, HandlerStep(h)
    PROVE  SerialInv'
<1> TypeOK /\ World /\ \A r \in Req : Phase(r)
  BY DEF IInv, SerialInv
<1>0. UNCHANGED <<pc, snap, arg, up>>
  BY DEF HandlerStep, requestVars, worldVars
<1>1. CASE ExpiredRead(h)
  <2>1. hpc[h] = "tick" /\ UNCHANGED <<row, service>>
    BY <1>1 DEF ExpiredRead
  <2>2. faults' \in {faults, faults + 1} /\ (strayed => strayed')
    <3>1. \/ faults' = faults /\ strayed' = strayed
          \/ faults' = faults + 1 /\ strayed' = (strayed \/ Running(row))
      BY <1>1 DEF ExpiredRead, Fault
    <3>2. faults' \in {faults, faults + 1}
      BY <3>1
    <3>3. strayed => strayed'
      BY <3>1, Zenon
    <3> QED
      BY <3>2, <3>3
  <2>3. HandlerGoto(h, "clear", row) \/ HandlerGoto(h, "idle", NoRow)
    BY <1>1 DEF ExpiredRead
  <2>4. ~NobodyExpires
    BY <2>1 DEF NobodyExpires, Expiring
  <2>5. AtMostOneExpires => AtMostOneExpires'
    BY <2>1, <2>3, HandlerWent DEF AtMostOneExpires, Expiring
  <2>6. World'
    BY <1>0, <2>1, <2>2, <2>4, <2>5 DEF TypeOK, World, Loose
  <2>7. ASSUME NEW r \in Req PROVE Phase(r)'
    <3>1. /\ pc[r] \notin Creating \cup Starting
          /\ pc[r] \in Stopping => ~Live(row)
      BY <2>4 DEF Phase, Loose
    <3> QED
      BY <1>0, <2>1, <2>2, <3>1 DEF TypeOK, Phase, StillPaused
  <2> QED
    BY <2>6, <2>7 DEF SerialInv
<1>2. CASE ExpiredClear(h)
  <2> DEFINE new == Cleared(row, hsnap[h])
  <2>1. /\ hpc[h] = "clear" /\ service' = service
        /\ HandlerGoto(h, "uncache", NoRow) \/ HandlerGoto(h, "idle", NoRow)
        /\ \/ row' = new /\ faults' = faults /\ strayed' = strayed
           \/ row' = row /\ faults' = faults + 1 /\ (strayed => strayed')
    BY <1>2, NothingLost DEF ExpiredClear, Fault
  <2>2. /\ new.exists = row.exists
        /\ Live(new) => Live(row) /\ new.paused
    <3>1. CASE hsnap[h].type = "DATE"
      BY <3>1, Deleted DEF TypeOK, Cleared
    <3>2. CASE hsnap[h].type # "DATE"
      <4>1. row \in Rows /\ hsnap[h].end - hsnap[h].duration \in Int
        BY DEF TypeOK, Rows
      <4> QED
        BY <3>2, <4>1, PauseUpdated DEF Cleared
    <3> QED
      BY <3>1, <3>2
  <2> HIDE DEF new
  <2>3. ~NobodyExpires
    BY <2>1 DEF NobodyExpires, Expiring
  <2>4. Live(row) => ~row.paused /\ Loose'
    <3>1. SUFFICES ASSUME Live(row) PROVE ~row.paused /\ Loose'
      OBVIOUS
    <3>2. ~row.paused /\ ~Registered(service) /\ AtMostOneExpires
      BY <2>3, <3>1 DEF World
    <3>3. NobodyExpires'
      BY <2>1, <3>2, HandlerWent DEF AtMostOneExpires, NobodyExpires, Expiring
    <3> QED
      BY <2>1, <3>2, <3>3 DEF Loose
  <2>5. row.exists /\ row'.exists /\ (Live(row') => Live(row))
    BY <2>1, <2>2, <2>3 DEF World, Loose
  <2>6. AtMostOneExpires' \/ ~NobodyExpires'
    BY DEF AtMostOneExpires, NobodyExpires
  <2>7. World'
    BY <1>0, <2>1, <2>4, <2>5, <2>6 DEF TypeOK, World, Loose
  <2>8. ASSUME NEW r \in Req PROVE Phase(r)'
    <3>1. /\ pc[r] \notin Creating \cup Starting
          /\ pc[r] \in Stopping => ~Live(row')
          /\ pc[r] \in {"delete.mark", "update.store"} \cup Resetting => ~snap[r].paused
      BY <2>3, <2>4, <2>5 DEF Phase, Loose, StillPaused
    <3> QED
      BY <1>0, <2>1, <2>5, <3>1 DEF TypeOK, Phase, Creating, Starting
  <2> QED
    BY <2>7, <2>8 DEF SerialInv
<1>3. CASE ExpiredUncache(h)
  <2>1. /\ UNCHANGED <<row, service, strayed>> /\ faults' \in {faults, faults + 1}
        /\ hpc[h] = "uncache" /\ HandlerGoto(h, "idle", NoRow)
    BY <1>3 DEF ExpiredUncache, Fault
  <2>2. SameHandlers
    BY <2>1, HandlerWent DEF SameHandlers, AtMostOneExpires, NobodyExpires, Expiring
  <2>3. World'
    BY <1>0, <2>1, <2>2 DEF SameHandlers, TypeOK, World, Loose
  <2>4. ASSUME NEW r \in Req PROVE Phase(r)'
    BY <1>0, <2>1, <2>2 DEF SameHandlers, TypeOK, Phase, StillPaused, Loose
  <2> QED
    BY <2>3, <2>4 DEF SerialInv
<1> QED
  BY <1>1, <1>2, <1>3 DEF HandlerStep

\* The rest of the application: delete notifications and the clock.
LEMMA SerialRest ==
    ASSUME Reliable, IInv, SerialInv, TimerDelete \/ Crash \/ Restart \/ Clock \/ UNCHANGED vars
    PROVE  SerialInv'
<1>0. ~Crash /\ ~Restart
  BY DEF Crash, Restart, Reliable, IInv, TypeOK, SerialInv, World
<1>1. UNCHANGED <<row, service, pc, snap, arg, hpc, up, strayed>>
  BY <1>0 DEF TimerDelete, Clock, vars, requestVars, handlerVars, worldVars
<1>2. faults' \in {faults, faults + 1}
  BY <1>0 DEF TimerDelete, Clock, vars, Fault
<1>3. SameHandlers
  BY <1>1 DEF SameHandlers, AtMostOneExpires, NobodyExpires, Expiring
<1>4. World'
  BY <1>1, <1>2, <1>3 DEF SameHandlers, IInv, TypeOK, SerialInv, World, Loose
<1>5. ASSUME NEW r \in Req PROVE Phase(r)'
  BY <1>1, <1>2, <1>3 DEF SameHandlers, IInv, TypeOK, SerialInv, Phase, StillPaused, Loose
<1> QED
  BY <1>4, <1>5 DEF SerialInv

\* At first there is no timer, and nothing in progress.
LEMMA SerialInit ==
    ASSUME Init
    PROVE  SerialInv
BY DEF Init, SerialInv, World, Phase, Loose, NobodyExpires, AtMostOneExpires, Expiring, Live, NoRow,
       Registered, NoEntry, Creating, Starting, Stopping, Resetting

\* Every step keeps the invariant, when there is one request at a time.
LEMMA SerialNext ==
    ASSUME OneAtATime, Reliable, IInv, SerialInv, [Next]_vars
    PROVE  SerialInv'
<1>1. ASSUME NEW r \in Req, RequestStep(r) PROVE SerialInv'
  <2>1. UNCHANGED <<hpc, up>>
    BY <1>1 DEF RequestStep, handlerVars, worldVars
  <2> QED
    BY <1>1, <2>1, SerialCreate, SerialDelete, SerialUpdate, SerialStop, SerialStart, SerialReset
       DEF RequestStep
<1> QED
  BY <1>1, SerialFire, SerialHandler, SerialRest DEF Next

\* Between and during requests: what World says of the row and the entry, and
\* what Phase says that the request in progress (usecase.go) can rely on.
THEOREM Serial ==
    ASSUME OneAtATime, Reliable
    PROVE  Spec => [](IInv /\ SerialInv)
<1>1. Init => IInv /\ SerialInv
  BY SerialInit, InitInvariant
<1>2. IInv /\ SerialInv /\ [Next]_vars => IInv' /\ SerialInv'
  BY SerialNext, NextInvariant
<1> QED
  BY <1>1, <1>2, PTL DEF Spec

\* When no request and no handler is in progress, the service knows the timer if
\* and only if it runs in the database: whatever calls of Create, Delete, Update,
\* Stop, Start and Reset failed and whatever saga.Rollback undid, for any number of
\* failures, ticks and handlers.  After a restart it would be false: Invoke
\* registers paused timers too.
THEOREM RegisteredIffRunningHolds ==
    ASSUME OneAtATime, Reliable
    PROVE  Spec => []RegisteredIffRunning
<1>1. ASSUME IInv, SerialInv PROVE RegisteredIffRunning
  <2>1. Quiet => /\ \A r \in Req : ~Settling(r)
                 /\ \A h \in Handler : ~Expiring(h)
    BY DEF Quiet, Settling, Expiring
  <2> QED
    BY <1>1, <2>1 DEF IInv, SerialInv, World, Watched, AlwaysWatched, RegisteredIffRunning, Running
<1> QED
  BY <1>1, Serial, PTL

-----------------------------------------------------------------------------
(* The ends: what a request in progress knows of them, and what the service  *)
(* knows.  Reset is left out: it moves the end and never tells the service.  *)

\* An Update has read the end that it is to move; Create, Update and Start pass
\* to the service the end that they have written.
EndKnown(r) ==
    /\ pc[r] \notin Resetting
    /\ pc[r] = "update.store" => row.end = snap[r].end
    /\ pc[r] \in {"create.subscribe", "create.add", "update.service",
                  "start.pause", "start.service"} => row.end = arg[r]

\* The service is to fire at the end of the row, or, while an Update has moved
\* the row alone, at the end that the Update has read.
EndServed(r) ==
    faults = 0 /\ Registered(service) =>
        service = IF pc[r] \in {"update.service", "update.undo"} THEN snap[r].end ELSE row.end

\* Without a request nothing is ever registered.
Ends == /\ \A r \in Req : EndKnown(r) /\ EndServed(r)
        /\ Req = {} => ~Registered(service)

\* The row keeps its end less its duration: where the countdown began.
SpanKept == row'.end - row'.duration = row.end - row.duration

\* The labels at which a request has no end to pass on.
Plain == Labels \ (Resetting \cup {"create.subscribe", "create.add", "update.store", "update.service",
                                   "update.undo", "start.pause", "start.service"})

\* What a step of the only request has to show.
LEMMA EndStep ==
    ASSUME OneAtATime, IInv, SerialInv, Ends, NEW r \in Req
    PROVE  /\ TypeOK /\ World /\ Phase(r) /\ EndKnown(r) /\ EndServed(r)
           /\ EndKnown(r)' /\ EndServed(r)' => Ends'
  BY DEF OneAtATime, IInv, SerialInv, Ends

\* A step that keeps the end of the row, registers nothing and leads to a plain
\* label, outside an Update.
LEMMA EndPlain ==
    ASSUME NEW r \in Req, EndServed(r), faults' = 0 => faults = 0, row'.end = row.end,
           service' = service \/ ~Registered(service'),
           pc[r] \notin {"update.service", "update.undo"}, pc'[r] \in Plain
    PROVE  EndKnown(r)' /\ EndServed(r)'
  BY DEF EndKnown, EndServed, Plain

\* Create adds to the service the end that it has inserted.
LEMMA EndCreate ==
    ASSUME OneAtATime, Reliable, IInv, SerialInv, Ends, NEW r \in Req, CreateStep(r)
    PROVE  Ends' /\ (NobodyExpires \/ SpanKept)
<1>0. TypeOK /\ World /\ Phase(r) /\ EndKnown(r) /\ EndServed(r)
  BY EndStep
<1> SUFFICES EndKnown(r)' /\ EndServed(r)' /\ NobodyExpires
  BY EndStep
<1>1. CASE CreateInsert(r)
  <2>1. PICK type \in Types, start \in Times, end \in Times :
           /\ row' = InsertTimer(type, start, end)
           /\ pc' = [pc EXCEPT ![r] = "create.subscribe"]
           /\ arg' = [arg EXCEPT ![r] = end]
    BY <1>1 DEF CreateInsert, Reliable
  <2>2. pc'[r] = "create.subscribe" /\ row'.end = arg'[r]
    BY <1>0, <2>1 DEF TypeOK, InsertTimer
  <2>3. Loose /\ service' = service
    BY <1>0, <1>1 DEF CreateInsert, World
  <2> QED
    BY <2>2, <2>3 DEF Loose, EndKnown, EndServed, Resetting
<1>2. CASE ~CreateInsert(r)
  <2>1. pc[r] \in Creating
    BY <1>2 DEF CreateStep, CreateSubscribe, CreateAdd, CreateUndoSubscribe, CreateUndoInsert, Creating
  <2>2. Loose
    BY <1>0, <2>1 DEF Phase
  <2>3. CASE CreateSubscribe(r)
    <3>1. pc[r] = "create.subscribe" /\ CacheCall(r, TRUE, "create.add", "create.undoInsert")
      BY <2>3 DEF CreateSubscribe
    <3>2. /\ UNCHANGED <<row, service>>
          /\ Went(r, "create.add") \/ Went(r, "create.undoInsert")
      BY <1>0, <3>1, CacheWent
    <3> QED
      BY <1>0, <2>2, <3>1, <3>2 DEF Went, Loose, EndKnown, EndServed, Resetting
  <2>4. CASE CreateAdd(r)
    <3>1. /\ pc[r] = "create.add" /\ row' = row
          /\ service' = service \/ service' = arg[r]
          /\ pc'[r] \in {"idle", "create.undoSubscribe"}
      BY <1>0, <2>4, ServiceWent, NothingLost DEF CreateAdd, Went
    <3> QED
      BY <1>0, <2>2, <3>1 DEF Loose, EndKnown, EndServed, Resetting
  <2>5. CASE CreateUndoSubscribe(r)
    <3>1. UNCHANGED <<row, service>> /\ pc'[r] = "create.undoInsert"
      BY <1>0, <2>5, CacheWent DEF CreateUndoSubscribe, Went
    <3> QED
      BY <2>2, <3>1 DEF Loose, EndKnown, EndServed, Resetting
  <2>6. CASE CreateUndoInsert(r)
    <3>1. service' = service /\ pc'[r] = "idle"
      BY <1>0, <2>6, StorageWent DEF CreateUndoInsert, Went
    <3> QED
      BY <2>2, <3>1 DEF Loose, EndKnown, EndServed, Resetting
  <2> QED
    BY <1>2, <2>2, <2>3, <2>4, <2>5, <2>6 DEF CreateStep, Loose
<1> QED
  BY <1>1, <1>2

\* Delete changes no end.
LEMMA EndDelete ==
    ASSUME OneAtATime, Reliable, IInv, SerialInv, Ends, NEW r \in Req, DeleteStep(r)
    PROVE  Ends' /\ (NobodyExpires \/ SpanKept)
<1>0. TypeOK /\ World /\ Phase(r) /\ EndKnown(r) /\ EndServed(r)
  BY EndStep
<1> SUFFICES /\ pc[r] \notin {"update.service", "update.undo"} /\ pc'[r] \in Plain
             /\ service' = service \/ ~Registered(service')
             /\ row'.end = row.end /\ row'.duration = row.duration
             /\ faults' \in {faults, faults + 1}
  BY <1>0, EndStep, EndPlain DEF TypeOK, SpanKept
<1>1. CASE DeleteRead(r)
  BY <1>0, <1>1, BeginWent DEF DeleteRead, Plain, Labels, Resetting
<1>2. CASE DeleteRemove(r)
  <2>1. pc[r] = "delete.remove"
        /\ ServiceCall(r, AcceptsRemove(service), NoEntry, "delete.mark", "delete.mark")
    BY <1>2 DEF DeleteRemove
  <2>2. /\ pc'[r] = "delete.mark" /\ row' = row /\ service' \in {service, NoEntry}
        /\ faults' \in {faults, faults + 1}
    BY <1>0, <2>1, ServiceWent, NothingLost DEF Went
  <2> QED
    BY <2>1, <2>2 DEF Registered, Plain, Labels, Resetting
<1>3. CASE DeleteMark(r)
  <2>1. pc[r] = "delete.mark" /\ StorageCall(r, DeleteTimer(row), "delete.send", "idle")
    BY <1>3 DEF DeleteMark
  <2>2. /\ pc'[r] \in {"delete.send", "idle"} /\ service' = service
        /\ row' \in {row, DeleteTimer(row)} /\ faults' \in {faults, faults + 1}
    BY <1>0, <2>1, StorageWent, NothingLost DEF Went
  <2>3. row'.end = row.end /\ row'.duration = row.duration
    BY <1>0, <2>2, Deleted DEF TypeOK
  <2> QED
    BY <2>1, <2>2, <2>3 DEF Plain, Labels, Resetting
<1>4. CASE DeleteSend(r)
  <2>1. pc[r] = "delete.send" /\ pc'[r] = "idle" /\ UNCHANGED <<row, service, faults>>
    BY <1>0, <1>4, GotoWent DEF DeleteSend, Went
  <2> QED
    BY <2>1 DEF Plain, Labels, Resetting
<1> QED
  BY <1>1, <1>2, <1>3, <1>4 DEF DeleteStep

\* Update: the service learns the end that was stored, or the stored end is moved
\* back to the one that the service has.
LEMMA EndUpdate ==
    ASSUME OneAtATime, Reliable, IInv, SerialInv, Ends, NEW r \in Req, UpdateStep(r)
    PROVE  Ends' /\ (NobodyExpires \/ SpanKept)
<1>0. TypeOK /\ World /\ Phase(r) /\ EndKnown(r) /\ EndServed(r)
  BY EndStep
<1> SUFFICES EndKnown(r)' /\ EndServed(r)' /\ SpanKept
  BY EndStep
<1>1. CASE UpdateRead(r)
  <2>1. /\ pc[r] = "idle" /\ pc'[r] = "update.store" /\ snap'[r] = row
        /\ UNCHANGED <<row, service, faults>>
    BY <1>0, <1>1, BeginWent DEF UpdateRead
  <2> QED
    BY <1>0, <2>1 DEF SpanKept, EndKnown, EndServed, Resetting
<1>2. CASE UpdateStore(r)
  <2> DEFINE new == UpdateTimer(row, arg[r])
             next == IF snap[r].paused THEN "idle" ELSE "update.service"
  <2>0. pc[r] = "update.store" /\ StorageCall(r, new, next, "idle")
    BY <1>2 DEF UpdateStore
  <2>1. new.end = arg[r] /\ new.duration = row.duration + (arg[r] - row.end)
    BY <1>0, TimerUpdated DEF TypeOK
  <2> HIDE DEF new
  <2>2. /\ service' = service
        /\ \/ row' = new /\ Went(r, next) /\ faults' = faults
           \/ row' = row /\ Went(r, "idle") /\ faults' = faults + 1
    BY <1>0, <2>0, StorageWent, NothingLost
  <2>3. SpanKept
    BY <1>0, <2>1, <2>2 DEF SpanKept, TypeOK, Rows
  <2>4. CASE row' = row /\ Went(r, "idle")
    BY <1>0, <2>0, <2>2, <2>3, <2>4 DEF TypeOK, Went, EndKnown, EndServed, Resetting
  <2>5. CASE row' = new /\ Went(r, next) /\ snap[r].paused
    <3>1. ~Registered(service)
      BY <1>0, <2>0, <2>5 DEF Phase, StillPaused, World
    <3> QED
      BY <2>2, <2>3, <2>5, <3>1 DEF Went, EndKnown, EndServed, Resetting
  <2>6. CASE row' = new /\ faults' = faults /\ Went(r, next) /\ ~snap[r].paused
    BY <1>0, <2>0, <2>1, <2>2, <2>3, <2>6 DEF Went, EndKnown, EndServed, Resetting
  <2> QED
    BY <2>2, <2>4, <2>5, <2>6
<1>3. CASE UpdateService(r)
  <2>0. /\ pc[r] = "update.service"
        /\ ServiceCall(r, AcceptsUpdate(service, arg[r], clock), arg[r], "idle", "update.undo")
    BY <1>3 DEF UpdateService
  <2>1. /\ row' = row
        /\ \/ service' = arg[r] /\ Went(r, "idle")
           \/ service' = service /\ Went(r, "update.undo") /\ faults' \in {faults, faults + 1}
    BY <1>0, <2>0, ServiceWent, NothingLost
  <2> QED
    BY <1>0, <2>0, <2>1 DEF SpanKept, TypeOK, Went, EndKnown, EndServed, Resetting
<1>4. CASE UpdateUndo(r)
  <2> DEFINE new == UpdateTimer(row, snap[r].end)
  <2>0. pc[r] = "update.undo" /\ StorageCall(r, new, "idle", "idle")
    BY <1>4 DEF UpdateUndo
  <2>1. new.end = snap[r].end /\ new.duration = row.duration + (snap[r].end - row.end)
    BY <1>0, TimerUpdated DEF TypeOK, Rows
  <2> HIDE DEF new
  <2>2. /\ service' = service /\ pc'[r] = "idle"
        /\ \/ row' = new /\ faults' = faults
           \/ row' = row /\ faults' = faults + 1
    BY <1>0, <2>0, StorageWent, NothingLost DEF Went
  <2>3. SpanKept
    BY <1>0, <2>1, <2>2 DEF SpanKept, TypeOK, Rows
  <2> QED
    BY <1>0, <2>0, <2>1, <2>2, <2>3 DEF TypeOK, EndKnown, EndServed, Resetting
<1> QED
  BY <1>1, <1>2, <1>3, <1>4 DEF UpdateStep

\* The undo of a Stop adds the end that the row has kept.
LEMMA EndStop ==
    ASSUME OneAtATime, Reliable, IInv, SerialInv, Ends, NEW r \in Req, StopStep(r)
    PROVE  Ends' /\ (NobodyExpires \/ SpanKept)
<1>0. TypeOK /\ World /\ Phase(r) /\ EndKnown(r) /\ EndServed(r)
  BY EndStep
<1> SUFFICES /\ EndKnown(r)' /\ EndServed(r)'
             /\ row'.end = row.end /\ row'.duration = row.duration
  BY EndStep DEF SpanKept
<1>1. CASE StopRead(r)
  <2>1. pc[r] = "idle" /\ pc'[r] = "stop.service" /\ UNCHANGED <<row, service, faults>>
    BY <1>0, <1>1, BeginWent DEF StopRead
  <2> QED
    BY <1>0, <2>1, EndPlain DEF Plain, Labels, Resetting
<1>2. CASE StopService(r)
  <2>1. pc[r] = "stop.service" /\ ServiceCall(r, AcceptsRemove(service), NoEntry, "stop.store", "idle")
    BY <1>2 DEF StopService
  <2>2. /\ row' = row /\ service' \in {service, NoEntry} /\ pc'[r] \in {"stop.store", "idle"}
        /\ faults' \in {faults, faults + 1}
    BY <1>0, <2>1, ServiceWent, NothingLost DEF Went
  <2> QED
    BY <1>0, <2>1, <2>2, EndPlain DEF TypeOK, Registered, Plain, Labels, Resetting
<1>3. CASE StopStore(r)
  <2> DEFINE new == UpdatePauseTime(row, arg[r], TRUE)
  <2>0. pc[r] = "stop.store" /\ StorageCall(r, new, "idle", "stop.undo")
    BY <1>3 DEF StopStore
  <2>1. new.end = row.end /\ new.duration = row.duration
    <3>1. row \in Rows /\ arg[r] \in Int
      BY <1>0 DEF TypeOK
    <3> QED
      BY <3>1, PauseUpdated
  <2> HIDE DEF new
  <2>2. /\ row' \in {row, new} /\ service' = service /\ pc'[r] \in {"idle", "stop.undo"}
        /\ faults' \in {faults, faults + 1}
    BY <1>0, <2>0, StorageWent, NothingLost DEF Went
  <2>3. row'.end = row.end /\ row'.duration = row.duration /\ (faults' = 0 => faults = 0)
    BY <1>0, <2>1, <2>2 DEF TypeOK
  <2> QED
    BY <1>0, <2>0, <2>2, <2>3, EndPlain DEF Plain, Labels, Resetting
<1>4. CASE StopUndo(r)
  <2>1. /\ pc[r] = "stop.undo"
        /\ ServiceCall(r, AcceptsAdd(service, snap[r].end, clock), snap[r].end, "idle", "idle")
    BY <1>4 DEF StopUndo
  <2>2. row' = row /\ pc'[r] = "idle" /\ faults' \in {faults, faults + 1}
    BY <1>0, <2>1, ServiceWent DEF Went
  <2>3. faults' # 0
    BY <1>0, <2>1, <2>2 DEF Phase, TypeOK
  <2> QED
    BY <2>2, <2>3 DEF EndKnown, EndServed, Resetting
<1> QED
  BY <1>1, <1>2, <1>3, <1>4 DEF StopStep

\* A Start begins with a paused timer, which nothing is on its way to expire.
LEMMA EndStart ==
    ASSUME OneAtATime, Reliable, IInv, SerialInv, Ends, NEW r \in Req, StartStep(r)
    PROVE  Ends' /\ (NobodyExpires \/ SpanKept)
<1>0. TypeOK /\ World /\ Phase(r) /\ EndKnown(r) /\ EndServed(r)
  BY EndStep
<1> SUFFICES EndKnown(r)' /\ EndServed(r)' /\ NobodyExpires
  BY EndStep
<1>1. CASE StartRead(r)
  <2>1. /\ pc[r] = "idle" /\ pc'[r] = "start.time" /\ Live(row) /\ row.paused
        /\ UNCHANGED <<row, service, faults>>
    BY <1>0, <1>1, BeginWent DEF StartRead, Countdown
  <2>2. NobodyExpires
    BY <1>0, <2>1 DEF World
  <2> QED
    BY <1>0, <2>1, <2>2, EndPlain DEF Plain, Labels, Resetting
<1>2. CASE ~StartRead(r)
  <2>1. Loose
    BY <1>0, <1>2 DEF StartStep, StartTime, StartPause, StartService, StartUndoPause, StartUndoTime,
                      Phase, Starting
  <2> SUFFICES EndKnown(r)' /\ EndServed(r)'
    BY <2>1 DEF Loose
  <2>2. CASE StartTime(r)
    <3> DEFINE new == UpdateTime(row, arg[r])
    <3>0. pc[r] = "start.time" /\ StorageCall(r, new, "start.pause", "idle")
      BY <2>2 DEF StartTime
    <3>1. new.end = arg[r]
      BY <1>0, TimeUpdated DEF TypeOK
    <3> HIDE DEF new
    <3>2. /\ service' = service
          /\ \/ row' = new /\ Went(r, "start.pause")
             \/ Went(r, "idle")
      BY <1>0, <3>0, StorageWent
    <3> QED
      BY <2>1, <3>1, <3>2 DEF Loose, Went, EndKnown, EndServed, Resetting
  <2>3. CASE StartPause(r)
    <3> DEFINE new == UpdatePauseTime(row, ZeroTime, FALSE)
    <3>0. pc[r] = "start.pause" /\ StorageCall(r, new, "start.service", "start.undoTime")
      BY <2>3 DEF StartPause
    <3>1. new.end = row.end
      <4>1. row \in Rows /\ ZeroTime \in Int
        BY <1>0 DEF TypeOK, ZeroTime
      <4> QED
        BY <4>1, PauseUpdated
    <3> HIDE DEF new
    <3>2. /\ service' = service
          /\ \/ row' = new /\ Went(r, "start.service")
             \/ Went(r, "start.undoTime")
      BY <1>0, <3>0, StorageWent
    <3> QED
      BY <1>0, <2>1, <3>0, <3>1, <3>2 DEF Loose, Went, EndKnown, EndServed, Resetting
  <2>4. CASE StartService(r)
    <3>1. /\ pc[r] = "start.service" /\ row' = row
          /\ service' = service \/ service' = arg[r]
          /\ pc'[r] \in {"idle", "start.undoPause"}
      BY <1>0, <2>4, ServiceWent, NothingLost DEF StartService, Went
    <3> QED
      BY <1>0, <2>1, <3>1 DEF Loose, EndKnown, EndServed, Resetting
  <2>5. CASE StartUndoPause(r)
    <3>1. service' = service /\ pc'[r] = "start.undoTime"
      <4>1. StorageCall(r, UpdatePauseTime(row, snap[r].pauseTime, TRUE), "start.undoTime", "start.undoTime")
        BY <2>5 DEF StartUndoPause
      <4> QED
        BY <1>0, <4>1, StorageWent DEF Went
    <3> QED
      BY <2>1, <3>1 DEF Loose, EndKnown, EndServed, Resetting
  <2>6. CASE StartUndoTime(r)
    <3>1. service' = service /\ pc'[r] = "idle"
      BY <1>0, <2>6, StorageWent DEF StartUndoTime, Went
    <3> QED
      BY <2>1, <3>1 DEF Loose, EndKnown, EndServed, Resetting
  <2> QED
    BY <1>2, <2>2, <2>3, <2>4, <2>5, <2>6 DEF StartStep
<1> QED
  BY <1>1, <1>2

\* Without Reset no request resets.
LEMMA EndReset ==
    ASSUME OneAtATime, IInv, SerialInv, Ends, "Reset" \notin Ops, NEW r \in Req
    PROVE  ~ResetStep(r)
<1>1. EndKnown(r)
  BY EndStep
<1> QED
  BY <1>1 DEF ResetStep, ResetRead, ResetTime, ResetPause, ResetUndo, Begin, EndKnown, Resetting

\* The requests: each keeps what is known of the ends, and moves the beginning
\* of the countdown only when no tick is on its way.
LEMMA EndRequest ==
    ASSUME OneAtATime, Reliable, "Reset" \notin Ops, IInv, SerialInv, Ends,
           NEW r \in Req, RequestStep(r)
    PROVE  Ends' /\ (NobodyExpires \/ SpanKept)
  BY EndCreate, EndDelete, EndUpdate, EndStop, EndStart, EndReset DEF RequestStep

\* What a handler writes back leaves the end and the duration.
LEMMA ClearedKeeps ==
    ASSUME NEW t \in Rows, NEW read \in Rows
    PROVE  /\ Cleared(t, read).end = t.end /\ Cleared(t, read).duration = t.duration
           /\ read.type # "DATE" => Cleared(t, read).pauseTime = read.end - read.duration
<1>1. CASE read.type = "DATE"
  BY <1>1, Deleted DEF Cleared
<1>2. CASE read.type # "DATE"
  <2>1. read.end - read.duration \in Int
    BY DEF Rows
  <2> QED
    BY <1>2, <2>1, PauseUpdated DEF Cleared
<1> QED
  BY <1>1, <1>2

\* Everything else leaves the ends and the durations alone.
LEMMA OthersKeep ==
    ASSUME Reliable, IInv, SerialInv, [Next]_vars, ~\E r \in Req : RequestStep(r)
    PROVE  /\ row'.end = row.end /\ row'.duration = row.duration
           /\ UNCHANGED <<pc, snap, arg>>
           /\ service' = service \/ ~Registered(service')
           /\ faults' = 0 => faults = 0
<1> TypeOK
  BY DEF IInv
<1>1. CASE Fire
  BY <1>1 DEF Fire, requestVars, Registered
<1>2. ASSUME NEW h \in Handler, HandlerStep(h)
      PROVE  /\ row'.end = row.end /\ row'.duration = row.duration
             /\ UNCHANGED <<pc, snap, arg>> /\ service' = service
             /\ faults' \in {faults, faults + 1}
  <2>1. UNCHANGED <<pc, snap, arg>>
    BY <1>2 DEF HandlerStep, requestVars
  <2>2. CASE ExpiredRead(h)
    BY <2>1, <2>2 DEF ExpiredRead, Fault
  <2>3. CASE ExpiredClear(h)
    <3>1. /\ row' \in {row, Cleared(row, hsnap[h])} /\ service' = service
          /\ faults' \in {faults, faults + 1}
      BY <2>3, NothingLost DEF ExpiredClear, Fault
    <3> QED
      BY <2>1, <3>1, ClearedKeeps DEF TypeOK
  <2>4. CASE ExpiredUncache(h)
    BY <2>1, <2>4 DEF ExpiredUncache, Fault
  <2> QED
    BY <1>2, <2>2, <2>3, <2>4 DEF HandlerStep
<1>3. CASE TimerDelete \/ Crash \/ Restart \/ Clock \/ UNCHANGED vars
  <2>1. ~Crash /\ ~Restart
    BY DEF Crash, Restart, Reliable, TypeOK, SerialInv, World
  <2>2. CASE TimerDelete
    <3>1. UNCHANGED <<row, service, pc, snap, arg>>
      BY <2>2 DEF TimerDelete, requestVars
    <3>2. faults' \in {faults, faults + 1}
      BY <2>2 DEF TimerDelete, Fault
    <3> QED
      BY <3>1, <3>2 DEF TypeOK
  <2>3. CASE Clock \/ UNCHANGED vars
    BY <2>3 DEF Clock, vars, requestVars
  <2> QED
    BY <1>3, <2>1, <2>2, <2>3
<1> QED
  BY <1>1, <1>2, <1>3 DEF Next, TypeOK

\* Every step keeps the ends; and one that would move the beginning of the
\* countdown is not taken while a handler is between its read and its write.
LEMMA EndsNext ==
    ASSUME OneAtATime, Reliable, "Reset" \notin Ops, IInv, SerialInv, Ends, [Next]_vars
    PROVE  Ends' /\ (NobodyExpires \/ SpanKept)
<1>1. CASE \E r \in Req : RequestStep(r)
  BY <1>1, EndRequest
<1>2. CASE ~\E r \in Req : RequestStep(r)
  <2>1. /\ row'.end = row.end /\ row'.duration = row.duration
        /\ UNCHANGED <<pc, snap, arg>>
        /\ service' = service \/ ~Registered(service')
        /\ faults' = 0 => faults = 0
    BY <1>2, OthersKeep
  <2> QED
    BY <2>1 DEF Ends, EndKnown, EndServed, SpanKept
<1> QED
  BY <1>1, <1>2

\* At first the service has no entry.
LEMMA EndsInit == Init => Ends
  BY DEF Init, Ends, EndKnown, EndServed, Registered, NoEntry, Resetting

\* A handler between its read and its write: the countdown still begins where
\* it began when the handler read the row.
Spans == \A h \in Handler :
            hpc[h] = "clear" => row.end - row.duration = hsnap[h].end - hsnap[h].duration

\* The beginning of the countdown stays as a handler has read it.
LEMMA SpansNext ==
    ASSUME OneAtATime, Reliable, "Reset" \notin Ops, IInv, SerialInv, Ends, Spans, [Next]_vars
    PROVE  Spans'
<1> SUFFICES ASSUME NEW h \in Handler, hpc'[h] = "clear"
             PROVE  row'.end - row'.duration = hsnap'[h].end - hsnap'[h].duration
  BY DEF Spans
<1> TypeOK
  BY DEF IInv
<1>1. CASE \E r \in Req : RequestStep(r)
  <2>1. UNCHANGED <<hpc, hsnap>>
    BY <1>1 DEF RequestStep, handlerVars
  <2>2. hpc[h] = "clear" /\ ~NobodyExpires
    BY <2>1 DEF NobodyExpires, Expiring
  <2>3. SpanKept
    BY <1>1, <2>2, EndRequest
  <2> QED
    BY <2>1, <2>2, <2>3 DEF Spans, SpanKept
<1>2. CASE ~\E r \in Req : RequestStep(r)
  <2>1. row'.end = row.end /\ row'.duration = row.duration
    BY <1>2, OthersKeep
  <2>2. \/ hpc[h] = "clear" /\ hsnap'[h] = hsnap[h]
        \/ hsnap'[h] = row
    <3>1. CASE Fire
      BY <3>1 DEF Fire, TypeOK
    <3>2. ASSUME NEW g \in Handler, HandlerStep(g)
          PROVE  \/ hpc[h] = "clear" /\ hsnap'[h] = hsnap[h]
                 \/ hsnap'[h] = row
      <4>1. \/ HandlerGoto(g, "clear", row)
            \/ \E label \in {"idle", "uncache"} : HandlerGoto(g, label, NoRow)
        BY <3>2 DEF HandlerStep, ExpiredRead, ExpiredClear, ExpiredUncache
      <4> QED
        BY <4>1, HandlerWent
    <3>3. CASE TimerDelete \/ Restart \/ Clock \/ UNCHANGED vars
      BY <3>3 DEF TimerDelete, Restart, Clock, vars, handlerVars
    <3>4. ~Crash
      BY DEF Crash, Reliable, TypeOK
    <3> QED
      BY <1>2, <3>1, <3>2, <3>3, <3>4 DEF Next
  <2> QED
    BY <2>1, <2>2 DEF Spans
<1> QED
  BY <1>1, <1>2

\* The ends and the beginnings of countdowns, for one request at a time of all
\* kinds but Reset.
THEOREM SerialEnds ==
    ASSUME OneAtATime, Reliable, "Reset" \notin Ops
    PROVE  Spec => [](IInv /\ SerialInv /\ Ends /\ Spans)
<1>1. Init => IInv /\ SerialInv /\ Ends /\ Spans
  BY SerialInit, InitInvariant, EndsInit DEF Init, Spans
<1>2. IInv /\ SerialInv /\ Ends /\ Spans /\ [Next]_vars => IInv' /\ SerialInv' /\ Ends' /\ Spans'
  BY SerialNext, NextInvariant, EndsNext, SpansNext
<1> QED
  BY <1>1, <1>2, PTL DEF Spec

\* Without a failing call the service is to fire a timer at the very end that the
\* database shows, after any sequence of requests, also of refused ones that
\* Update, Start and Stop have undone.
THEOREM RegisteredAtEndHolds ==
    ASSUME OneAtATime, Reliable, "Reset" \notin Ops
    PROVE  Spec => []RegisteredAtEnd
<1>1. ASSUME Ends PROVE RegisteredAtEnd
  BY <1>1 DEF Ends, EndServed, RegisteredAtEnd, Quiet
<1> QED
  BY <1>1, SerialEnds, PTL

\* An expired countdown timer is set back to its full duration, also when an Update
\* has moved its end between the handler's read (handler.go, timerExpired) and its
\* write, and whatever calls failed.
THEOREM FullAfterExpiryHolds ==
    ASSUME OneAtATime, Reliable, "Reset" \notin Ops
    PROVE  Spec => FullAfterExpiry
<1> DEFINE Full(h) == hpc[h] = "clear" /\ hpc'[h] = "idle" /\ up' /\ ~Failed
                          => row'.end - row'.pauseTime = row'.duration
<1>1. ASSUME IInv, Spans, [Next]_vars PROVE [\A h \in Handler : Full(h)]_vars
  <2> SUFFICES ASSUME NEW h \in Handler,
                      hpc[h] = "clear", hpc'[h] = "idle", up', ~Failed
               PROVE  row'.end - row'.pauseTime = row'.duration
    OBVIOUS
  <2> TypeOK
    BY <1>1 DEF IInv
  <2>1. ExpiredClear(h)
    <3>1. PICK g \in Handler : HandlerStep(g)
      BY <1>1 DEF Next, RequestStep, Fire, TimerDelete, Crash, Restart, Clock, vars, handlerVars, TypeOK
    <3>2. g = h
      <4>1. \E label, t : HandlerGoto(g, label, t)
        BY <3>1 DEF HandlerStep, ExpiredRead, ExpiredClear, ExpiredUncache
      <4> QED
        BY <4>1, HandlerWent
    <3> QED
      BY <3>1, <3>2 DEF HandlerStep, ExpiredRead, ExpiredUncache
  <2>2. hsnap[h].type # "DATE" /\ row' = Cleared(row, hsnap[h])
    BY <2>1, HandlerWent DEF ExpiredClear, Fault, Failed, TypeOK
  <2>3. /\ row'.end = row.end /\ row'.duration = row.duration
        /\ row'.pauseTime = hsnap[h].end - hsnap[h].duration
    BY <2>2, ClearedKeeps DEF TypeOK
  <2> QED
    BY <1>1, <2>3 DEF Spans, TypeOK, Rows
<1> QED
  BY <1>1, SerialEnds, PTL DEF FullAfterExpiry, Spec

-----------------------------------------------------------------------------
(* A request that is rolled back.  What this part needs of a request holds    *)
(* also when answers are lost and the application restarts.                   *)

Updating == {"update.store", "update.service", "update.undo"}

\* An Update moves the end and the duration together; a Start and a Reset leave
\* the duration; only the Update of a running timer calls the service.
Track(r) ==
    /\ pc[r] \in Updating => row.end - row.duration = snap[r].end - snap[r].duration
    /\ pc[r] \in Starting \cup Resetting => row.duration = snap[r].duration
    /\ pc[r] \in {"update.service", "update.undo"} => ~snap[r].paused

Tracks == \A r \in Req : Track(r)

\* What a failed statement may leave.
LEMMA OneOutcome ==
    ASSUME NEW old, NEW new
    PROVE  Outcomes(old, new) \subseteq {old, new}
  BY DEF Outcomes

\* A call that writes a row that keeps the duration, or the beginning.
LEMMA StorageTracks ==
    ASSUME TypeOK, NEW r \in Req, NEW new, NEW ok, NEW err, StorageCall(r, new, ok, err)
    PROVE  row' \in {row, new} /\ (Went(r, ok) \/ Went(r, err))
  BY StorageWent, OneOutcome

\* A Create, Delete or Stop does not reach the labels that Track speaks of.
LEMMA TrackOther ==
    ASSUME TypeOK, NEW r \in Req, CreateStep(r) \/ DeleteStep(r) \/ StopStep(r)
    PROVE  Track(r)'
<1> SUFFICES pc'[r] \notin Updating \cup Starting \cup Resetting
  BY DEF Track, Updating
<1>1. CASE CreateStep(r)
  <2>1. CASE CreateInsert(r)
    BY <2>1 DEF CreateInsert, TypeOK, Updating, Starting, Resetting
  <2>2. CASE CreateSubscribe(r)
    <3>1. CacheCall(r, TRUE, "create.add", "create.undoInsert")
      BY <2>2 DEF CreateSubscribe
    <3>2. Went(r, "create.add") \/ Went(r, "create.undoInsert")
      BY <3>1, CacheWent
    <3> QED
      BY <3>2 DEF Went, Updating, Starting, Resetting
  <2>3. CASE CreateAdd(r)
    <3>1. pc'[r] \in {"idle", "create.undoSubscribe"}
      BY <2>3, ServiceWent DEF CreateAdd, Went
    <3> QED
      BY <3>1 DEF Updating, Starting, Resetting
  <2>4. CASE CreateUndoSubscribe(r)
    <3>1. CacheCall(r, FALSE, "create.undoInsert", "create.undoInsert")
      BY <2>4 DEF CreateUndoSubscribe
    <3>2. Went(r, "create.undoInsert")
      BY <3>1, CacheWent
    <3> QED
      BY <3>2 DEF Went, Updating, Starting, Resetting
  <2>5. CASE CreateUndoInsert(r)
    <3>1. pc'[r] = "idle"
      BY <2>5, StorageWent DEF CreateUndoInsert, Went
    <3> QED
      BY <3>1 DEF Updating, Starting, Resetting
  <2> QED
    BY <1>1, <2>1, <2>2, <2>3, <2>4, <2>5 DEF CreateStep
<1>2. CASE DeleteStep(r)
  <2>1. CASE DeleteRead(r)
    BY <2>1, BeginWent DEF DeleteRead, Updating, Starting, Resetting
  <2>2. CASE DeleteRemove(r)
    <3>1. ServiceCall(r, AcceptsRemove(service), NoEntry, "delete.mark", "delete.mark")
      BY <2>2 DEF DeleteRemove
    <3> QED
      BY <3>1, ServiceWent DEF Went, Updating, Starting, Resetting
  <2>3. CASE DeleteMark(r)
    <3>1. pc'[r] \in {"delete.send", "idle"}
      BY <2>3, StorageWent DEF DeleteMark, Went
    <3> QED
      BY <3>1 DEF Updating, Starting, Resetting
  <2>4. CASE DeleteSend(r)
    BY <2>4, GotoWent DEF DeleteSend, Went, Updating, Starting, Resetting
  <2> QED
    BY <1>2, <2>1, <2>2, <2>3, <2>4 DEF DeleteStep
<1>3. CASE StopStep(r)
  <2>1. CASE StopRead(r)
    BY <2>1, BeginWent DEF StopRead, Updating, Starting, Resetting
  <2>2. CASE StopService(r)
    <3>1. ServiceCall(r, AcceptsRemove(service), NoEntry, "stop.store", "idle")
      BY <2>2 DEF StopService
    <3> QED
      BY <3>1, ServiceWent DEF Went, Updating, Starting, Resetting
  <2>3. CASE StopStore(r)
    <3>1. StorageCall(r, UpdatePauseTime(row, arg[r], TRUE), "idle", "stop.undo")
      BY <2>3 DEF StopStore
    <3>2. Went(r, "idle") \/ Went(r, "stop.undo")
      BY <3>1, StorageWent
    <3> QED
      BY <3>2 DEF Went, Updating, Starting, Resetting
  <2>4. CASE StopUndo(r)
    <3>1. ServiceCall(r, AcceptsAdd(service, snap[r].end, clock), snap[r].end, "idle", "idle")
      BY <2>4 DEF StopUndo
    <3> QED
      BY <3>1, ServiceWent DEF Went, Updating, Starting, Resetting
  <2> QED
    BY <1>3, <2>1, <2>2, <2>3, <2>4 DEF StopStep
<1> QED
  BY <1>1, <1>2, <1>3

\* Every statement of an Update moves the end and the duration together.
LEMMA TrackUpdate ==
    ASSUME TypeOK, NEW r \in Req, Track(r), UpdateStep(r)
    PROVE  Track(r)'
<1>1. CASE UpdateRead(r)
  BY <1>1, BeginWent DEF UpdateRead, Track, Updating, Starting, Resetting
<1>2. CASE UpdateStore(r)
  <2> DEFINE new == UpdateTimer(row, arg[r])
             next == IF snap[r].paused THEN "idle" ELSE "update.service"
  <2>0. pc[r] = "update.store" /\ StorageCall(r, new, next, "idle")
    BY <1>2 DEF UpdateStore
  <2>1. new.end = arg[r] /\ new.duration = row.duration + (arg[r] - row.end)
    BY TimerUpdated DEF TypeOK
  <2> HIDE DEF new
  <2>2. row' \in {row, new} /\ (Went(r, next) \/ Went(r, "idle"))
    BY <2>0, StorageTracks
  <2> QED
    BY <2>0, <2>1, <2>2 DEF TypeOK, Rows, Went, Track, Updating, Starting, Resetting
<1>3. CASE UpdateService(r)
  <2>0. /\ pc[r] = "update.service"
        /\ ServiceCall(r, AcceptsUpdate(service, arg[r], clock), arg[r], "idle", "update.undo")
    BY <1>3 DEF UpdateService
  <2>1. row' = row /\ (Went(r, "idle") \/ Went(r, "update.undo"))
    BY <2>0, ServiceWent
  <2> QED
    BY <2>0, <2>1 DEF Went, Track, Updating, Starting, Resetting
<1>4. CASE UpdateUndo(r)
  <2>1. pc'[r] = "idle"
    BY <1>4, StorageTracks DEF UpdateUndo, Went
  <2> QED
    BY <2>1 DEF Track, Updating, Starting, Resetting
<1> QED
  BY <1>1, <1>2, <1>3, <1>4 DEF UpdateStep

\* The statements of a Start leave the duration.
LEMMA TrackStart ==
    ASSUME TypeOK, NEW r \in Req, Track(r), StartStep(r)
    PROVE  Track(r)'
<1>1. CASE StartRead(r)
  BY <1>1, BeginWent DEF StartRead, Track, Updating, Starting, Resetting
<1>2. CASE StartTime(r)
  <2>0. pc[r] = "start.time" /\ StorageCall(r, UpdateTime(row, arg[r]), "start.pause", "idle")
    BY <1>2 DEF StartTime
  <2>1. UpdateTime(row, arg[r]).duration = row.duration
    BY TimeUpdated DEF TypeOK
  <2>2. row'.duration = row.duration /\ (Went(r, "start.pause") \/ Went(r, "idle"))
    BY <2>0, <2>1, StorageTracks
  <2> QED
    BY <2>0, <2>2 DEF Went, Track, Updating, Starting, Resetting
<1>3. CASE StartPause(r)
  <2>0. /\ pc[r] = "start.pause"
        /\ StorageCall(r, UpdatePauseTime(row, ZeroTime, FALSE), "start.service", "start.undoTime")
    BY <1>3 DEF StartPause
  <2>1. UpdatePauseTime(row, ZeroTime, FALSE).duration = row.duration
    <3>1. row \in Rows /\ ZeroTime \in Int
      BY DEF TypeOK, ZeroTime
    <3> QED
      BY <3>1, PauseUpdated
  <2>2. row'.duration = row.duration /\ (Went(r, "start.service") \/ Went(r, "start.undoTime"))
    BY <2>0, <2>1, StorageTracks
  <2> QED
    BY <2>0, <2>2 DEF Went, Track, Updating, Starting, Resetting
<1>4. CASE StartService(r)
  <2>0. /\ pc[r] = "start.service"
        /\ ServiceCall(r, AcceptsAdd(service, arg[r], clock), arg[r], "idle", "start.undoPause")
    BY <1>4 DEF StartService
  <2>1. row' = row /\ (Went(r, "idle") \/ Went(r, "start.undoPause"))
    BY <2>0, ServiceWent
  <2> QED
    BY <2>0, <2>1 DEF Went, Track, Updating, Starting, Resetting
<1>5. CASE StartUndoPause(r)
  <2> DEFINE new == UpdatePauseTime(row, snap[r].pauseTime, TRUE)
  <2>0. pc[r] = "start.undoPause" /\ StorageCall(r, new, "start.undoTime", "start.undoTime")
    BY <1>5 DEF StartUndoPause
  <2>1. new.duration = row.duration
    <3>1. row \in Rows /\ snap[r].pauseTime \in Int
      BY DEF TypeOK, Rows
    <3> QED
      BY <3>1, PauseUpdated
  <2>2. row'.duration = row.duration /\ Went(r, "start.undoTime")
    BY <2>0, <2>1, StorageTracks
  <2> QED
    BY <2>0, <2>2 DEF Went, Track, Updating, Starting, Resetting
<1>6. CASE StartUndoTime(r)
  <2>1. pc'[r] = "idle"
    BY <1>6, StorageTracks DEF StartUndoTime, Went
  <2> QED
    BY <2>1 DEF Track, Updating, Starting, Resetting
<1> QED
  BY <1>1, <1>2, <1>3, <1>4, <1>5, <1>6 DEF StartStep

\* The statements of a Reset leave the duration.
LEMMA TrackReset ==
    ASSUME TypeOK, NEW r \in Req, Track(r), ResetStep(r)
    PROVE  Track(r)'
<1>1. CASE ResetRead(r)
  BY <1>1, BeginWent DEF ResetRead, Track, Updating, Starting, Resetting
<1>2. CASE ResetTime(r)
  <2> DEFINE next == IF snap[r].paused THEN "reset.pause" ELSE "idle"
  <2>0. pc[r] = "reset.time" /\ StorageCall(r, UpdateTime(row, arg[r]), next, "idle")
    BY <1>2 DEF ResetTime
  <2>1. UpdateTime(row, arg[r]).duration = row.duration
    BY TimeUpdated DEF TypeOK
  <2>2. row'.duration = row.duration /\ (Went(r, next) \/ Went(r, "idle"))
    BY <2>0, <2>1, StorageTracks
  <2> QED
    BY <2>0, <2>2 DEF Went, Track, Updating, Starting, Resetting
<1>3. CASE ResetPause(r)
  <2> DEFINE new == UpdatePauseTime(row, arg[r] - snap[r].duration, TRUE)
  <2>0. pc[r] = "reset.pause" /\ StorageCall(r, new, "idle", "reset.undo")
    BY <1>3 DEF ResetPause
  <2>1. new.duration = row.duration
    <3>1. row \in Rows /\ arg[r] - snap[r].duration \in Int
      BY DEF TypeOK, Rows
    <3> QED
      BY <3>1, PauseUpdated
  <2>2. row'.duration = row.duration /\ (Went(r, "idle") \/ Went(r, "reset.undo"))
    BY <2>0, <2>1, StorageTracks
  <2> QED
    BY <2>0, <2>2 DEF Went, Track, Updating, Starting, Resetting
<1>4. CASE ResetUndo(r)
  <2>1. pc'[r] = "idle"
    BY <1>4, StorageTracks DEF ResetUndo, Went
  <2> QED
    BY <2>1 DEF Track, Updating, Starting, Resetting
<1> QED
  BY <1>1, <1>2, <1>3, <1>4 DEF ResetStep

\* Ticks, handlers and restarts keep what a request has read of duration and end.
LEMMA TracksNext ==
    ASSUME OneAtATime, IInv, Tracks, [Next]_vars
    PROVE  Tracks'
<1> TypeOK
  BY DEF IInv
<1>1. ASSUME NEW r \in Req, RequestStep(r) PROVE Tracks'
  <2>1. Track(r)'
    BY <1>1, TrackOther, TrackUpdate, TrackStart, TrackReset DEF RequestStep, Tracks
  <2> QED
    BY <2>1 DEF OneAtATime, Tracks
<1>2. ASSUME row'.end = row.end, row'.duration = row.duration, UNCHANGED <<pc, snap>>
      PROVE  Tracks'
  BY <1>2 DEF Tracks, Track
<1>3. CASE Fire \/ TimerDelete \/ Restart \/ Clock \/ UNCHANGED vars
  BY <1>2, <1>3 DEF Fire, TimerDelete, Restart, Clock, vars, requestVars
<1>4. ASSUME NEW h \in Handler, HandlerStep(h) PROVE Tracks'
  <2>1. row' \in {row, Cleared(row, hsnap[h])} /\ UNCHANGED <<pc, snap>>
    BY <1>4, OneOutcome DEF HandlerStep, requestVars, ExpiredRead, ExpiredClear, ExpiredUncache
  <2> QED
    BY <1>2, <2>1, ClearedKeeps DEF TypeOK
<1>5. CASE Crash
  BY <1>5 DEF Crash, Tracks, Track, Updating, Starting, Resetting
<1> QED
  BY <1>1, <1>3, <1>4, <1>5 DEF Next

\* What the compensations rely on, also with lost answers and restarts.
THEOREM SerialTracks ==
    ASSUME OneAtATime
    PROVE  Spec => [](IInv /\ Tracks)
<1>1. Init => IInv /\ Tracks
  BY InitInvariant DEF Init, Tracks, Track, Updating, Starting, Resetting
<1>2. IInv /\ Tracks /\ [Next]_vars => IInv' /\ Tracks'
  BY NextInvariant, TracksNext
<1> QED
  BY <1>1, <1>2, PTL DEF Spec

\* The last compensation, whether or not answers are lost.
LEMMA LastCompensation ==
    ASSUME OneAtATime, IInv, Tracks, [Next]_vars, NEW r \in Req,
           pc[r] \in {"update.undo", "start.undoTime", "reset.undo"}, pc'[r] = "idle", up', ~Failed
    PROVE  /\ row'.end = snap[r].end /\ row'.duration = snap[r].duration
           /\ row'.paused = row.paused /\ row'.pauseTime = row.pauseTime
<1> TypeOK /\ Track(r)
  BY DEF IInv, Tracks
<1>1. PICK q \in Req : RequestStep(q)
  BY DEF Next, Fire, HandlerStep, TimerDelete, Crash, Restart, Clock, vars, requestVars
<1>2. RequestStep(r)
  BY <1>1 DEF OneAtATime
<1>3. UpdateUndo(r) \/ StartUndoTime(r) \/ ResetUndo(r)
  BY <1>2 DEF RequestStep, Begin,
     CreateStep, CreateInsert, CreateSubscribe, CreateAdd, CreateUndoSubscribe, CreateUndoInsert,
     DeleteStep, DeleteRead, DeleteRemove, DeleteMark, DeleteSend,
     UpdateStep, UpdateRead, UpdateStore, UpdateService,
     StopStep, StopRead, StopService, StopStore, StopUndo,
     StartStep, StartRead, StartTime, StartPause, StartService, StartUndoPause,
     ResetStep, ResetRead, ResetTime, ResetPause
<1>4. snap[r].end \in Int /\ row \in Rows
  BY DEF TypeOK, Rows
<1>5. CASE UpdateUndo(r)
  <2>1. row' = UpdateTimer(row, snap[r].end)
    BY <1>5 DEF UpdateUndo, StorageCall, Fault, Failed, TypeOK
  <2>2. /\ row'.end = snap[r].end /\ row'.duration = row.duration + (snap[r].end - row.end)
        /\ row'.paused = row.paused /\ row'.pauseTime = row.pauseTime
    BY <1>4, <2>1, TimerUpdated
  <2>3. row.end - row.duration = snap[r].end - snap[r].duration
    BY <1>5 DEF UpdateUndo, Track, Updating
  <2>4. row.end \in Int /\ row.duration \in Int /\ snap[r].end \in Int /\ snap[r].duration \in Int
    BY DEF TypeOK, Rows
  <2>5. row.duration + (snap[r].end - row.end) = snap[r].duration
    BY <2>3, <2>4
  <2> QED
    BY <2>2, <2>5
<1>6. CASE StartUndoTime(r) \/ ResetUndo(r)
  <2>1. row' = UpdateTime(row, snap[r].end)
    BY <1>6 DEF StartUndoTime, ResetUndo, StorageCall, Fault, Failed, TypeOK
  <2> QED
    BY <1>4, <1>6, <2>1, TimeUpdated DEF StartUndoTime, ResetUndo, Track, Starting, Resetting
<1> QED
  BY <1>3, <1>5, <1>6

\* The last compensation of an Update, Start or Reset leaves the end, the duration
\* and, when every answer arrives, the pause that the request had read, although
\* UpdateTimer derives the duration from the row it finds, and not from what was
\* read.  (When answers are lost the claim says nothing of the pause, and restarts are
\* allowed; otherwise the application runs on.)
THEOREM RollbackRestoresHolds ==
    ASSUME OneAtATime, LostAnswers \/ MaxCrashes = 0
    PROVE  Spec => RollbackRestores
<1> DEFINE Restores(r) ==
             pc[r] \in {"update.undo", "start.undoTime", "reset.undo"} /\ pc'[r] = "idle"
                 /\ up' /\ ~Failed /\ faults < 2 /\ ~strayed
                 => /\ row'.end = snap[r].end
                    /\ row'.duration = snap[r].duration
                    /\ snap[r].paused /\ ~LostAnswers =>
                           row'.paused /\ row'.pauseTime = snap[r].pauseTime
<1>1. CASE LostAnswers
  <2>1. ASSUME IInv, Tracks, [Next]_vars PROVE [\A r \in Req : Restores(r)]_vars
    BY <1>1, <2>1, LastCompensation
  <2> QED
    BY <2>1, SerialTracks, PTL DEF RollbackRestores, Spec
<1>2. CASE Reliable
  <2>1. ASSUME IInv, SerialInv, Tracks, [Next]_vars PROVE [\A r \in Req : Restores(r)]_vars
    <3> SUFFICES ASSUME NEW r \in Req,
                        pc[r] \in {"update.undo", "start.undoTime", "reset.undo"}, pc'[r] = "idle",
                        up', ~Failed, ~strayed
                 PROVE  /\ row'.end = snap[r].end
                        /\ row'.duration = snap[r].duration
                        /\ snap[r].paused => row'.paused /\ row'.pauseTime = snap[r].pauseTime
      OBVIOUS
    <3>1. /\ row'.end = snap[r].end /\ row'.duration = snap[r].duration
          /\ row'.paused = row.paused /\ row'.pauseTime = row.pauseTime
      BY <2>1, LastCompensation
    <3>2. snap[r].paused => row.paused /\ row.pauseTime = snap[r].pauseTime
      BY <2>1 DEF SerialInv, Phase, StillPaused, Resetting, Tracks, Track
    <3> QED
      BY <3>1, <3>2
  <2> QED
    BY <1>2, <2>1, SerialTracks, Serial, PTL DEF RollbackRestores, Spec
<1> QED
  BY <1>1, <1>2, BoundAssumption DEF Reliable
-----------------------------------------------------------------------------
(* TimerLifecycle does what TimerPromise allows.                             *)

Promised == [Promise!PromiseNext]_Promise!promiseVars

\* What a request in progress knows beyond Phase, EndKnown and Track: a Create
\* still finds the row that it has inserted, a Stop or Start the countdown that
\* it has read; what the service knows the database has.
Given(r) ==
    /\ pc[r] \in Creating =>
           /\ row = InsertTimer(row.type, row.end - row.duration, row.end)
           /\ row.duration >= MinDuration
    /\ pc[r] \in {"stop.service"} \cup Stopping => row.end = snap[r].end /\ IsCountdown(row)
    /\ pc[r] \in Stopping => Live(row)
    /\ pc[r] \in {"stop.service", "delete.remove"} \cup Updating /\ Registered(service) => Live(row)
    /\ pc[r] \in Starting => /\ IsCountdown(row)
                             /\ arg[r] - snap[r].end <= clock - snap[r].pauseTime
    /\ pc[r] = "start.time" => row.end = snap[r].end
    /\ pc[r] = "start.service" => row.pauseTime = ZeroTime

\* The type that a handler has read is that of the row.
Kinds == \A h \in Handler : hpc[h] = "clear" => hsnap[h].type = row.type

\* Rows are what their columns are.
LEMMA SameRow ==
    ASSUME NEW s \in Rows, NEW t \in Rows,
           s.exists = t.exists, s.type = t.type, s.end = t.end, s.duration = t.duration,
           s.deleted = t.deleted, s.paused = t.paused, s.pauseTime = t.pauseTime
    PROVE  s = t
  BY DEF Rows

\* With one request there is no choice whose changes are hidden.
LEMMA SeenIs ==
    ASSUME OneAtATime, NEW r \in Req
    PROVE  Seen = Shown(Undone(r)) /\ Seen' = Shown(Undone(r)')
<1>1. {q \in Req : pc[q] # "idle"} = (IF pc[r] = "idle" THEN {} ELSE {r})
  BY DEF OneAtATime
<1>2. {q \in Req : pc'[q] # "idle"} = (IF pc'[r] = "idle" THEN {} ELSE {r})
  BY DEF OneAtATime
<1>3. pc[r] = "idle" => Undone(r) = row
  BY DEF Undone, Creating
<1>4. pc'[r] = "idle" => Undone(r)' = row'
  BY DEF Undone, Creating
<1>5. (CHOOSE q \in {r} : TRUE) = r
  OBVIOUS
<1> QED
  BY <1>1, <1>2, <1>3, <1>4, <1>5, Zenon DEF Seen

\* A timer that lives is seen, and without what may be undone.
LEMMA SeenLive ==
    ASSUME OneAtATime, NEW r \in Req
    PROVE  /\ Live(row) => Seen = Undone(r)
           /\ Live(row') => Seen' = Undone(r)'
<1>1. Seen = Shown(Undone(r)) /\ Seen' = Shown(Undone(r)')
  BY SeenIs
<1>2. /\ pc[r] \in Creating => Undone(r) = NoRow
      /\ pc'[r] \in Creating => Undone(r)' = NoRow
  BY DEF Undone, Creating
<1>3. /\ pc[r] \notin Creating => (Live(Undone(r)) <=> Live(row))
      /\ pc'[r] \notin Creating => (Live(Undone(r)') <=> Live(row'))
  BY DEF Undone, Live, UpdateTime, UpdatePauseTime
<1>4. Shown(NoRow) = NoRow
  BY DEF Shown, Live, NoRow
<1> QED
  BY <1>1, <1>2, <1>3, <1>4 DEF Shown

\* One that does not live is not seen.
LEMMA SeenDead ==
    ASSUME OneAtATime, NEW r \in Req
    PROVE  /\ ~Live(row) /\ pc[r] \notin Creating =>
                  Seen = IF row.exists THEN GoneRow ELSE NoRow
           /\ ~Live(row') /\ pc'[r] \notin Creating =>
                  Seen' = IF row'.exists THEN GoneRow ELSE NoRow
<1>1. Seen = Shown(Undone(r)) /\ Seen' = Shown(Undone(r)')
  BY SeenIs
<1>2. /\ pc[r] \notin Creating =>
             (Live(Undone(r)) <=> Live(row)) /\ Undone(r).exists = row.exists
      /\ pc'[r] \notin Creating =>
             (Live(Undone(r)') <=> Live(row')) /\ Undone(r)'.exists = row'.exists
  BY DEF Undone, Live, UpdateTime, UpdatePauseTime
<1> QED
  BY <1>1, <1>2 DEF Shown

\* A request that creates the timer hides it.
LEMMA SeenNew ==
    ASSUME OneAtATime, NEW r \in Req
    PROVE  /\ pc[r] \in Creating => Seen = NoRow
           /\ pc'[r] \in Creating => Seen' = NoRow
<1>1. Seen = Shown(Undone(r)) /\ Seen' = Shown(Undone(r)')
  BY SeenIs
<1>2. /\ pc[r] \in Creating => Undone(r) = NoRow
      /\ pc'[r] \in Creating => Undone(r)' = NoRow
  BY DEF Undone, Creating
<1> QED
  BY <1>1, <1>2 DEF Shown, Live, NoRow

\* What TimerPromise does not see.
LEMMA Stutter ==
    ASSUME Seen' = Seen, service' = service, clock' = clock, NobodyExpires' <=> NobodyExpires
    PROVE  Promised
<1>1. (\E h \in Handler : Expiring(h))' = (\E h \in Handler : Expiring(h))
  BY Zenon DEF NobodyExpires
<1> QED
  BY <1>1 DEF Promised, Promise!promiseVars

\* The operators of TimerRow and TimerService are the same in both.
LEMMA SameRows ==
    /\ Promise!NoRow = NoRow /\ Promise!GoneRow = GoneRow /\ Promise!ZeroTime = ZeroTime
    /\ \A t : /\ Promise!Live(t) <=> Live(t)
              /\ Promise!Running(t) <=> Running(t)
              /\ Promise!IsCountdown(t) <=> IsCountdown(t)
    /\ \A t, a : Promise!UpdateTime(t, a) = UpdateTime(t, a)
    /\ \A t, a : Promise!UpdateTimer(t, a) = UpdateTimer(t, a)
    /\ \A t, a, b : Promise!UpdatePauseTime(t, a, b) = UpdatePauseTime(t, a, b)
    /\ \A t, a, b : Promise!InsertTimer(t, a, b) = InsertTimer(t, a, b)
  BY DEF Promise!NoRow, NoRow, Promise!GoneRow, GoneRow, Promise!ZeroTime, ZeroTime,
     Promise!DeleteTimer, DeleteTimer, Promise!Live, Live, Promise!Running, Running,
     Promise!IsCountdown, IsCountdown, Promise!UpdateTime, UpdateTime, Promise!UpdateTimer, UpdateTimer,
     Promise!UpdatePauseTime, UpdatePauseTime, Promise!InsertTimer, InsertTimer

LEMMA SameService ==
    /\ Promise!NoEntry = NoEntry
    /\ \A e : Promise!Registered(e) <=> Registered(e)
    /\ \A e : Promise!AcceptsRemove(e) <=> AcceptsRemove(e)
    /\ \A e, a, b : Promise!AcceptsAdd(e, a, b) <=> AcceptsAdd(e, a, b)
    /\ \A e, a, b : Promise!AcceptsUpdate(e, a, b) <=> AcceptsUpdate(e, a, b)
  BY DEF Promise!NoEntry, NoEntry, Promise!Registered, Registered, Promise!AcceptsRemove, AcceptsRemove,
     Promise!AcceptsAdd, AcceptsAdd, Promise!AcceptsUpdate, AcceptsUpdate

\* What a step of the only request has to show, and what it may use.
LEMMA AtomStep ==
    ASSUME OneAtATime, Reliable, IInv, SerialInv, Ends, Tracks, NEW r \in Req,
           UNCHANGED <<hpc, clock>>
    PROVE  /\ TypeOK /\ World /\ Phase(r) /\ EndKnown(r) /\ Track(r)
           /\ row \in Rows /\ snap[r] \in Rows /\ arg[r] \in Int /\ clock \in Int
           /\ (NobodyExpires' <=> NobodyExpires)
<1>1. TypeOK /\ World /\ Phase(r) /\ EndKnown(r) /\ Track(r)
  BY DEF IInv, SerialInv, Ends, Tracks
<1>2. row \in Rows /\ snap[r] \in Rows /\ arg[r] \in Int /\ clock \in Int
  BY <1>1 DEF TypeOK
<1>3. NobodyExpires' <=> NobodyExpires
  BY DEF NobodyExpires, Expiring
<1> QED
  BY <1>1, <1>2, <1>3

\* The entry that the service accepts is the entry of TimerPromise.
LEMMA Entered ==
    ASSUME NEW end, AcceptsAdd(service, end, clock), service' = end, clock' = clock,
           NobodyExpires, hpc' = hpc
    PROVE  Promise!Enter(end)
<1>1. ~(\E h \in Handler : Expiring(h)) /\ ~(\E h \in Handler : Expiring(h))'
  BY DEF NobodyExpires, Expiring
<1> QED
  BY <1>1, SameService DEF Promise!Enter

\* The service is not concerned.
LEMMA LeftAlone ==
    ASSUME UNCHANGED <<service, hpc, clock>>
    PROVE  Promise!Alone
<1>1. (\E h \in Handler : Expiring(h))' = (\E h \in Handler : Expiring(h))
  BY DEF Expiring
<1> QED
  BY <1>1 DEF Promise!Alone

\* No tick and no handler moves.
LEMMA SameRinging ==
    ASSUME UNCHANGED <<hpc, clock>>
    PROVE  UNCHANGED <<\E h \in Handler : Expiring(h), clock>>
  BY DEF Expiring

\* Create: nothing is seen of it before the service has accepted the timer, and
\* then all of it.
LEMMA AtomCreate ==
    ASSUME OneAtATime, Reliable, IInv, SerialInv, Ends, Tracks, NEW r \in Req, Given(r),
           UNCHANGED <<hpc, clock>>, CreateStep(r)
    PROVE  Given(r)' /\ (Unrepaired \/ Promised)
<1>0. /\ TypeOK /\ World /\ Phase(r) /\ EndKnown(r)
      /\ row \in Rows /\ arg[r] \in Int /\ clock \in Int
      /\ (NobodyExpires' <=> NobodyExpires)
  BY AtomStep
<1>1. CASE CreateInsert(r)
  <2>1. PICK type \in Types, start \in Times, end \in Times :
           ValidCreate(start, end) /\ row' = InsertTimer(type, start, end)
    BY <1>1 DEF CreateInsert, Reliable
  <2>2. /\ pc[r] = "idle" /\ ~row.exists /\ pc'[r] = "create.subscribe" /\ service' = service
    BY <1>0, <1>1 DEF CreateInsert, Reliable, TypeOK
  <2>3. /\ row'.type = type /\ row'.end = end /\ row'.duration = end - start
        /\ end - (end - start) = start /\ end - start >= MinDuration
    BY <2>1, BoundAssumption DEF InsertTimer, ValidCreate, Times
  <2>4. Given(r)'
    BY <2>1, <2>2, <2>3 DEF Given, Creating, Stopping, Starting, Updating
  <2>5. Seen' = Seen
    BY <2>2, SeenDead, SeenNew DEF Live, Creating
  <2> QED
    BY <1>0, <2>2, <2>4, <2>5, Stutter
<1>2. CASE CreateSubscribe(r) \/ CreateUndoSubscribe(r)
  <2>1. /\ pc[r] \in Creating /\ pc'[r] \in Creating /\ UNCHANGED <<row, service>>
    BY <1>0, <1>2, CacheWent DEF CreateSubscribe, CreateUndoSubscribe, Went, Creating
  <2>2. Given(r)'
    BY <2>1 DEF Given, Creating, Stopping, Starting, Updating
  <2>3. Seen' = Seen
    BY <2>1, SeenNew
  <2> QED
    BY <1>0, <2>1, <2>2, <2>3, Stutter
<1>3. CASE CreateAdd(r)
  <2>1. /\ pc[r] = "create.add" /\ row' = row
        /\ \/ /\ AcceptsAdd(service, arg[r], clock) /\ service' = arg[r] /\ pc'[r] = "idle"
           \/ pc'[r] = "create.undoSubscribe" /\ service' = service
    BY <1>0, <1>3, ServiceWent, NothingLost DEF CreateAdd, Went
  <2>2. CASE pc'[r] = "create.undoSubscribe" /\ service' = service
    <3>1. Given(r)'
      BY <2>1, <2>2 DEF Given, Creating, Stopping, Starting, Updating
    <3>2. Seen' = Seen
      BY <2>1, <2>2, SeenNew DEF Creating
    <3> QED
      BY <1>0, <2>2, <3>1, <3>2, Stutter
  <2>3. CASE AcceptsAdd(service, arg[r], clock) /\ service' = arg[r] /\ pc'[r] = "idle"
    <3>1. Given(r)'
      BY <2>3 DEF Given, Creating, Stopping, Starting, Updating
    <3>2. Live(row) /\ NobodyExpires /\ arg[r] = row.end
      BY <1>0, <2>1 DEF Phase, Loose, Creating, EndKnown
    <3>3. Seen = NoRow /\ Seen' = row
      BY <2>1, <2>3, <3>2, SeenNew, SeenIs DEF Creating, Undone, Shown
    <3>4. row = InsertTimer(row.type, row.end - row.duration, row.end) /\ row.duration >= MinDuration
      BY <2>1 DEF Given, Creating
    <3>5. Promise!Enter(row.end)
      BY <2>3, <3>2, Entered
    <3>6. Promise!Create
      BY <3>3, <3>4, <3>5, SameRows DEF Promise!Create, NoRow
    <3> QED
      BY <3>1, <3>6 DEF Promised, Promise!PromiseNext
  <2> QED
    BY <2>1, <2>2, <2>3
<1>4. CASE CreateUndoInsert(r)
  <2>1. /\ pc[r] = "create.undoInsert" /\ service' = service /\ pc'[r] = "idle"
        /\ row' = DeleteTimer(row) \/ faults' = faults + 1
    BY <1>0, <1>4, StorageWent, NothingLost DEF CreateUndoInsert, Went
  <2>2. Given(r)'
    BY <2>1 DEF Given, Creating, Stopping, Starting, Updating
  <2>3. CASE faults' = faults + 1
    BY <1>0, <2>1, <2>2, <2>3 DEF Unrepaired, Failed, TypeOK
  <2>4. CASE row' = DeleteTimer(row)
    <3>1. ~Live(row') /\ row'.exists
      BY <1>0, <2>1, <2>4, Deleted DEF Phase, Creating, Live
    <3>2. Seen = NoRow /\ Seen' = GoneRow
      BY <2>1, <3>1, SeenNew, SeenDead DEF Creating
    <3>3. Promise!Burn
      BY <2>1, <3>2, LeftAlone, SameRows DEF Promise!Burn, NoRow
    <3> QED
      BY <2>2, <3>3 DEF Promised, Promise!PromiseNext
  <2> QED
    BY <2>1, <2>3, <2>4
<1> QED
  BY <1>1, <1>2, <1>3, <1>4 DEF CreateStep

\* Delete: the service forgets the timer, and then it is gone at once.
LEMMA AtomDelete ==
    ASSUME OneAtATime, Reliable, IInv, SerialInv, Ends, Tracks, NEW r \in Req, Given(r),
           UNCHANGED <<hpc, clock>>, DeleteStep(r)
    PROVE  Given(r)' /\ (Unrepaired \/ Promised)
<1>0. /\ TypeOK /\ World /\ Phase(r) /\ row \in Rows /\ (NobodyExpires' <=> NobodyExpires)
  BY AtomStep
<1>1. CASE DeleteRead(r)
  <2>1. /\ Live(row) /\ UNCHANGED <<row, service>> /\ pc[r] = "idle"
        /\ pc'[r] \in {"delete.mark", "delete.remove"}
    BY <1>0, <1>1, BeginWent DEF DeleteRead
  <2>2. Given(r)'
    BY <2>1 DEF Given, Creating, Stopping, Starting, Updating
  <2>3. Seen' = Seen
    BY <2>1, SeenIs DEF Undone, Creating
  <2> QED
    BY <1>0, <2>1, <2>2, <2>3, Stutter
<1>2. CASE DeleteRemove(r)
  <2>1. /\ pc[r] = "delete.remove" /\ row' = row /\ pc'[r] = "delete.mark"
        /\ (service' = service \/ (AcceptsRemove(service) /\ service' = NoEntry))
    BY <1>0, <1>2, ServiceWent, NothingLost DEF DeleteRemove, Went
  <2>2. Given(r)'
    BY <2>1 DEF Given, Creating, Stopping, Starting, Updating
  <2>3. Seen' = Seen
    BY <2>1, SeenIs DEF Undone, Creating
  <2>4. CASE service' = service
    BY <1>0, <2>2, <2>3, <2>4, Stutter
  <2>5. CASE AcceptsRemove(service) /\ service' = NoEntry
    <3>1. Live(row) /\ ~row.paused
      BY <1>0, <2>1, <2>5 DEF Given, AcceptsRemove, World
    <3>2. Running(Seen)
      BY <2>1, <3>1, SeenLive DEF Undone, Creating, Running
    <3>3. Promise!Withdraw
      BY <2>3, <2>5, <3>2, SameRows, SameService, SameRinging DEF Promise!Withdraw
    <3> QED
      BY <2>2, <3>3 DEF Promised, Promise!PromiseNext
  <2> QED
    BY <2>1, <2>4, <2>5
<1>3. CASE DeleteMark(r)
  <2>1. /\ pc[r] = "delete.mark" /\ service' = service
        /\ \/ row' = DeleteTimer(row) /\ pc'[r] = "delete.send"
           \/ row' = row /\ pc'[r] = "idle"
    BY <1>0, <1>3, StorageWent, NothingLost DEF DeleteMark, Went
  <2>2. Given(r)'
    BY <2>1 DEF Given, Creating, Stopping, Starting, Updating
  <2>3. ~Live(DeleteTimer(row)) /\ DeleteTimer(row).exists = row.exists
    BY <1>0, Deleted
  <2>4. CASE row' = row \/ ~Live(row)
    <3>1. row' = row => Seen' = Seen
      BY <2>1, SeenIs DEF Undone, Creating
    <3>2. ~Live(row) /\ row' = DeleteTimer(row) => Seen' = Seen
      BY <2>1, <2>3, SeenDead DEF Creating
    <3>3. Seen' = Seen
      BY <2>1, <2>4, <3>1, <3>2
    <3> QED
      BY <1>0, <2>1, <2>2, <3>3, Stutter
  <2>5. CASE row' = DeleteTimer(row) /\ Live(row)
    <3>1. Seen = row /\ Seen' = GoneRow
      BY <2>1, <2>3, <2>5, SeenLive, SeenDead DEF Undone, Creating, Live
    <3>2. Promise!Delete
      BY <2>1, <2>5, <3>1, LeftAlone, SameRows DEF Promise!Delete
    <3> QED
      BY <2>2, <3>2 DEF Promised, Promise!PromiseNext
  <2> QED
    BY <2>1, <2>4, <2>5
<1>4. CASE DeleteSend(r)
  <2>1. pc[r] = "delete.send" /\ pc'[r] = "idle" /\ UNCHANGED <<row, service>>
    BY <1>0, <1>4, GotoWent DEF DeleteSend, Went
  <2>2. Given(r)'
    BY <2>1 DEF Given, Creating, Stopping, Starting, Updating
  <2>3. Seen' = Seen
    BY <2>1, SeenIs DEF Undone, Creating
  <2> QED
    BY <1>0, <2>1, <2>2, <2>3, Stutter
<1> QED
  BY <1>1, <1>2, <1>3, <1>4 DEF DeleteStep

\* Update: the new end is seen when the service has it, and an end that the
\* service refuses is never seen.
LEMMA AtomUpdate ==
    ASSUME OneAtATime, Reliable, IInv, SerialInv, Ends, Tracks, NEW r \in Req, Given(r),
           UNCHANGED <<hpc, clock>>, UpdateStep(r)
    PROVE  Given(r)' /\ (Unrepaired \/ Promised)
<1>0. /\ TypeOK /\ World /\ Phase(r) /\ EndKnown(r) /\ Track(r)
      /\ row \in Rows /\ snap[r] \in Rows /\ arg[r] \in Int /\ (NobodyExpires' <=> NobodyExpires)
  BY AtomStep
<1>1. CASE UpdateRead(r)
  <2>1. /\ Live(row) /\ UNCHANGED <<row, service>> /\ pc[r] = "idle" /\ pc'[r] = "update.store"
    BY <1>0, <1>1, BeginWent DEF UpdateRead
  <2>2. Given(r)'
    BY <2>1 DEF Given, Creating, Stopping, Starting, Updating
  <2>3. Seen' = Seen
    BY <2>1, SeenIs DEF Undone, Creating
  <2> QED
    BY <1>0, <2>1, <2>2, <2>3, Stutter
<1>2. CASE UpdateStore(r)
  <2> DEFINE new == UpdateTimer(row, arg[r])
  <2>1. /\ Live(new) <=> Live(row)
        /\ new.exists = row.exists /\ new.end = arg[r]
    BY <1>0, TimerUpdated
  <2>2. /\ pc[r] = "update.store" /\ service' = service
        /\ \/ /\ row' = new
              /\ pc'[r] = IF snap[r].paused THEN "idle" ELSE "update.service"
              /\ pc'[r] = "update.service" => snap'[r] = snap[r]
           \/ row' = row /\ pc'[r] = "idle"
    BY <1>0, <1>2, StorageWent, NothingLost DEF UpdateStore, Went
  <2> HIDE DEF new
  <2>3. Given(r)'
    BY <2>1, <2>2 DEF Given, Creating, Stopping, Starting, Updating
  <2>4. CASE row' = row /\ pc'[r] = "idle"
    <3>1. Seen' = Seen
      BY <2>2, <2>4, SeenIs DEF Undone, Creating
    <3> QED
      BY <1>0, <2>2, <2>3, <3>1, Stutter
  <2>5. CASE row' = new /\ ~Live(row)
    <3>1. Seen' = Seen
      BY <2>1, <2>2, <2>5, SeenDead DEF Creating
    <3> QED
      BY <1>0, <2>2, <2>3, <3>1, Stutter
  <2>6. CASE row' = new /\ Live(row) /\ pc'[r] = "update.service"
    <3>1. snap[r].end = row.end /\ snap[r].duration = row.duration
      <4>1. row.end = snap[r].end /\ row.end - row.duration = snap[r].end - snap[r].duration
        BY <1>0, <2>2 DEF EndKnown, Track, Updating
      <4> QED
        BY <1>0, <4>1 DEF Rows
    <3>2. [new EXCEPT !.end = row.end, !.duration = row.duration] = row
      BY <1>0 DEF new, UpdateTimer, Rows
    <3>3. Undone(r)' = row /\ Undone(r) = row
      BY <2>2, <2>6, <3>1, <3>2 DEF Undone, Creating
    <3>4. Seen' = Seen
      BY <2>1, <2>6, <3>3, SeenLive
    <3> QED
      BY <1>0, <2>2, <2>3, <3>4, Stutter
  <2>7. CASE row' = new /\ Live(row) /\ pc'[r] = "idle" /\ snap[r].paused
    <3>1. row.paused
      BY <1>0, <2>2, <2>7 DEF Phase, StillPaused
    <3>2. Seen = row /\ Seen' = new
      BY <2>1, <2>2, <2>7, SeenLive DEF Undone, Creating
    <3>3. Promise!UpdatePaused
      <4>1. new = UpdateTimer(row, new.end)
        BY <2>1 DEF new
      <4> QED
        BY <2>2, <2>7, <3>1, <3>2, <4>1, LeftAlone, SameRows DEF Promise!UpdatePaused
    <3> QED
      BY <2>3, <3>3 DEF Promised, Promise!PromiseNext
  <2> QED
    BY <2>2, <2>4, <2>5, <2>6, <2>7
<1>3. CASE UpdateService(r)
  <2>0. /\ pc[r] = "update.service"
        /\ ServiceCall(r, AcceptsUpdate(service, arg[r], clock), arg[r], "idle", "update.undo")
    BY <1>3 DEF UpdateService
  <2>1. /\ row' = row
        /\ \/ AcceptsUpdate(service, arg[r], clock) /\ service' = arg[r] /\ pc'[r] = "idle"
           \/ service' = service /\ pc'[r] = "update.undo" /\ snap'[r] = snap[r]
    BY <1>0, <2>0, ServiceWent, NothingLost DEF Went
  <2>2. Given(r)'
    BY <2>0, <2>1 DEF Given, Creating, Stopping, Starting, Updating
  <2>3. CASE service' = service /\ pc'[r] = "update.undo" /\ snap'[r] = snap[r]
    <3>1. Seen' = Seen
      BY <2>0, <2>1, <2>3, SeenIs DEF Undone, Creating
    <3> QED
      BY <1>0, <2>2, <2>3, <3>1, Stutter
  <2>4. CASE AcceptsUpdate(service, arg[r], clock) /\ service' = arg[r] /\ pc'[r] = "idle"
    <3>1. Live(row) /\ ~row.paused /\ row.end = arg[r]
      BY <1>0, <2>0, <2>4 DEF Given, AcceptsUpdate, World, Updating, EndKnown
    <3> DEFINE old == [row EXCEPT !.end = snap[r].end, !.duration = snap[r].duration]
    <3>2. Seen = old /\ Seen' = row
      BY <2>0, <2>1, <2>4, <3>1, SeenLive DEF Undone, Creating
    <3>3. Running(old)
      BY <1>0, <3>1 DEF Running, Live, Rows
    <3>4. row = UpdateTimer(old, row.end)
      <4>1. row.duration = snap[r].duration + (row.end - snap[r].end)
        <5>1. row.end - row.duration = snap[r].end - snap[r].duration
          BY <1>0, <2>0 DEF Track, Updating
        <5> QED
          BY <1>0, <5>1 DEF Rows
      <4> QED
        BY <1>0, <4>1 DEF UpdateTimer, Rows
    <3> HIDE DEF old
    <3>5. Promise!UpdateRunning
      BY <2>4, <3>1, <3>2, <3>3, <3>4, SameRows, SameService, SameRinging DEF Promise!UpdateRunning
    <3> QED
      BY <2>2, <3>5 DEF Promised, Promise!PromiseNext
  <2> QED
    BY <2>1, <2>3, <2>4
<1>4. CASE UpdateUndo(r)
  <2> DEFINE new == UpdateTimer(row, snap[r].end)
  <2>1. /\ pc[r] = "update.undo" /\ service' = service /\ pc'[r] = "idle"
        /\ row' = new \/ faults' = faults + 1
    BY <1>0, <1>4, StorageWent DEF UpdateUndo, Went
  <2>2. Given(r)'
    BY <2>1 DEF Given, Creating, Stopping, Starting, Updating
  <2>3. CASE faults' = faults + 1
    BY <1>0, <2>1, <2>2, <2>3 DEF Unrepaired, Failed, TypeOK
  <2>4. CASE row' = new
    <3>1. /\ Live(new) <=> Live(row)
          /\ new.exists = row.exists
      BY <1>0, TimerUpdated DEF Rows
    <3>2. [row EXCEPT !.end = snap[r].end, !.duration = snap[r].duration] = new
      <4>1. row.duration + (snap[r].end - row.end) = snap[r].duration
        <5>1. row.end - row.duration = snap[r].end - snap[r].duration
          BY <1>0, <2>1 DEF Track, Updating
        <5> QED
          BY <1>0, <5>1 DEF Rows
      <4> QED
        BY <1>0, <4>1 DEF UpdateTimer, Rows
    <3> HIDE DEF new
    <3>3. Live(row) => Seen' = Seen
      BY <2>1, <2>4, <3>1, <3>2, SeenLive DEF Undone, Creating
    <3>4. ~Live(row) => Seen' = Seen
      BY <2>1, <2>4, <3>1, SeenDead DEF Creating
    <3> QED
      BY <1>0, <2>1, <2>2, <3>3, <3>4, Stutter
  <2> QED
    BY <2>1, <2>3, <2>4
<1> QED
  BY <1>1, <1>2, <1>3, <1>4 DEF UpdateStep

\* Stop: between its two calls the timer is withdrawn; it is paused at once, or
\* given back with the end that it had.
LEMMA AtomStop ==
    ASSUME OneAtATime, Reliable, IInv, SerialInv, Ends, Tracks, NEW r \in Req, Given(r),
           UNCHANGED <<hpc, clock>>, StopStep(r)
    PROVE  Given(r)' /\ (Unrepaired \/ Promised)
<1>0. /\ TypeOK /\ World /\ Phase(r)
      /\ row \in Rows /\ arg[r] \in Int /\ (NobodyExpires' <=> NobodyExpires)
  BY AtomStep
<1>1. CASE StopRead(r)
  <2>1. /\ Live(row) /\ IsCountdown(row) /\ UNCHANGED <<row, service>> /\ pc[r] = "idle"
        /\ pc'[r] = "stop.service" /\ snap'[r] = row
    BY <1>0, <1>1, BeginWent DEF StopRead, Countdown
  <2>2. Given(r)'
    BY <2>1 DEF Given, Creating, Stopping, Starting, Updating
  <2>3. Seen' = Seen
    BY <2>1, SeenIs DEF Undone, Creating
  <2> QED
    BY <1>0, <2>1, <2>2, <2>3, Stutter
<1>2. CASE StopService(r)
  <2>0. /\ pc[r] = "stop.service"
        /\ ServiceCall(r, AcceptsRemove(service), NoEntry, "stop.store", "idle")
    BY <1>2 DEF StopService
  <2>1. /\ row' = row
        /\ \/ /\ AcceptsRemove(service) /\ service' = NoEntry
              /\ pc'[r] = "stop.store" /\ snap'[r] = snap[r]
           \/ service' = service /\ pc'[r] = "idle"
    BY <1>0, <2>0, ServiceWent, NothingLost DEF Went
  <2>2. Seen' = Seen
    BY <2>0, <2>1, SeenIs DEF Undone, Creating
  <2>3. CASE service' = service /\ pc'[r] = "idle"
    <3>1. Given(r)'
      BY <2>3 DEF Given, Creating, Stopping, Starting, Updating
    <3> QED
      BY <1>0, <2>2, <2>3, <3>1, Stutter
  <2>4. CASE /\ AcceptsRemove(service) /\ service' = NoEntry
             /\ pc'[r] = "stop.store" /\ snap'[r] = snap[r]
    <3>1. Live(row) /\ ~row.paused
      BY <1>0, <2>0, <2>4 DEF Given, AcceptsRemove, World
    <3>2. Given(r)'
      BY <2>0, <2>1, <2>4, <3>1 DEF Given, Creating, Stopping, Starting, Updating
    <3>3. Running(Seen)
      BY <2>0, <3>1, SeenLive DEF Undone, Creating, Running
    <3>4. Promise!Withdraw
      BY <2>2, <2>4, <3>3, SameRows, SameService, SameRinging DEF Promise!Withdraw
    <3> QED
      BY <3>2, <3>4 DEF Promised, Promise!PromiseNext
  <2> QED
    BY <2>1, <2>3, <2>4
<1>3. CASE StopStore(r)
  <2> DEFINE new == UpdatePauseTime(row, arg[r], TRUE)
  <2>0. pc[r] = "stop.store" /\ StorageCall(r, new, "idle", "stop.undo")
    BY <1>3 DEF StopStore
  <2>1. (Live(new) <=> Live(row)) /\ new = UpdatePauseTime(row, new.pauseTime, TRUE)
    BY <1>0 DEF UpdatePauseTime, Live, Rows
  <2>2. /\ Live(row) /\ ~row.paused /\ IsCountdown(row) /\ ~Registered(service) /\ NobodyExpires
    BY <1>0, <2>0 DEF Given, Phase, Loose, Stopping
  <2> HIDE DEF new
  <2>3. /\ service' = service
        /\ \/ row' = new /\ pc'[r] = "idle"
           \/ row' = row /\ pc'[r] = "stop.undo" /\ snap'[r] = snap[r]
    BY <1>0, <2>0, StorageWent, NothingLost DEF Went
  <2>4. Seen = row /\ Seen' = row'
    BY <2>0, <2>1, <2>2, <2>3, SeenLive DEF Undone, Creating
  <2>5. CASE row' = row /\ pc'[r] = "stop.undo" /\ snap'[r] = snap[r]
    <3>1. Given(r)'
      BY <2>0, <2>2, <2>5 DEF Given, Creating, Stopping, Starting, Updating
    <3> QED
      BY <1>0, <2>3, <2>4, <2>5, <3>1, Stutter
  <2>6. CASE row' = new /\ pc'[r] = "idle"
    <3>1. Given(r)'
      BY <2>6 DEF Given, Creating, Stopping, Starting, Updating
    <3>2. ~(\E h \in Handler : Expiring(h))
      BY <2>2 DEF NobodyExpires
    <3>3. Promise!Stop
      BY <2>1, <2>2, <2>3, <2>4, <2>6, <3>2, LeftAlone, SameRows, SameService DEF Promise!Stop, Running
    <3> QED
      BY <3>1, <3>3 DEF Promised, Promise!PromiseNext
  <2> QED
    BY <2>3, <2>5, <2>6
<1>4. CASE StopUndo(r)
  <2>0. /\ pc[r] = "stop.undo"
        /\ ServiceCall(r, AcceptsAdd(service, snap[r].end, clock), snap[r].end, "idle", "idle")
    BY <1>4 DEF StopUndo
  <2>1. /\ row' = row /\ pc'[r] = "idle"
        /\ \/ service' = service
           \/ AcceptsAdd(service, snap[r].end, clock) /\ service' = snap[r].end
    BY <1>0, <2>0, ServiceWent, NothingLost DEF Went
  <2>2. Given(r)'
    BY <2>1 DEF Given, Creating, Stopping, Starting, Updating
  <2>3. /\ Live(row) /\ ~row.paused /\ IsCountdown(row) /\ row.end = snap[r].end /\ NobodyExpires
    BY <1>0, <2>0 DEF Given, Phase, Loose, Stopping
  <2>4. Seen = row /\ Seen' = row
    BY <2>0, <2>1, <2>3, SeenLive DEF Undone, Creating
  <2>5. CASE service' = service
    BY <1>0, <2>2, <2>4, <2>5, Stutter
  <2>6. CASE AcceptsAdd(service, snap[r].end, clock) /\ service' = snap[r].end
    <3>1. Promise!Enter(row.end)
      BY <2>3, <2>6, Entered
    <3>2. Promise!Readmit
      BY <2>3, <2>4, <3>1, SameRows DEF Promise!Readmit, Running
    <3> QED
      BY <2>2, <3>2 DEF Promised, Promise!PromiseNext
  <2> QED
    BY <2>1, <2>5, <2>6
<1> QED
  BY <1>1, <1>2, <1>3, <1>4 DEF StopStep

\* Start: the timer is seen paused, as it was, until the service has it.
LEMMA AtomStart ==
    ASSUME OneAtATime, Reliable, IInv, SerialInv, Ends, Tracks, NEW r \in Req, Given(r),
           UNCHANGED <<hpc, clock>>, StartStep(r)
    PROVE  Given(r)' /\ (Unrepaired \/ Promised)
<1>0. /\ TypeOK /\ World /\ Phase(r) /\ EndKnown(r)
      /\ row \in Rows /\ snap[r] \in Rows /\ arg[r] \in Int /\ clock \in Int
      /\ (NobodyExpires' <=> NobodyExpires)
  BY AtomStep
<1>00. snap[r].end \in Int /\ snap[r].pauseTime \in Int /\ ZeroTime \in Int /\ TRUE \in BOOLEAN /\ FALSE \in BOOLEAN
  BY <1>0 DEF Rows, ZeroTime
<1>1. CASE StartRead(r)
  <2>1. /\ Live(row) /\ IsCountdown(row) /\ UNCHANGED <<row, service>> /\ pc[r] = "idle"
        /\ pc'[r] = "start.time" /\ snap'[r] = row
        /\ arg'[r] = row.end + (clock - row.pauseTime)
    BY <1>0, <1>1, BeginWent DEF StartRead, Countdown
  <2>2. arg'[r] - snap'[r].end <= clock' - snap'[r].pauseTime
    BY <1>0, <2>1 DEF Rows
  <2>3. Given(r)'
    BY <2>1, <2>2 DEF Given, Creating, Stopping, Starting, Updating
  <2>4. Seen' = Seen
    BY <2>1, SeenIs DEF Undone, Creating
  <2> QED
    BY <1>0, <2>1, <2>3, <2>4, Stutter
<1> DEFINE old == UpdatePauseTime(UpdateTime(row, snap[r].end), snap[r].pauseTime, TRUE)
<1>2. CASE StartTime(r)
  <2> DEFINE new == UpdateTime(row, arg[r])
  <2>0. pc[r] = "start.time" /\ StorageCall(r, new, "start.pause", "idle")
    BY <1>2 DEF StartTime
  <2>1. /\ Live(new) <=> Live(row)
        /\ new.type = row.type
        /\ UpdateTime(new, row.end) = row
    BY <1>0 DEF UpdateTime, Live, Rows
  <2>2. Live(row) /\ row.end = snap[r].end /\ IsCountdown(row)
    BY <1>0, <2>0 DEF Given, Phase, Starting
  <2> HIDE DEF new
  <2>3. /\ service' = service
        /\ \/ row' = new /\ pc'[r] = "start.pause" /\ snap'[r] = snap[r] /\ arg'[r] = arg[r]
           \/ row' = row /\ pc'[r] = "idle"
    BY <1>0, <2>0, StorageWent, NothingLost DEF Went
  <2>4. Seen' = Seen
    <3>1. Undone(r) = row
      BY <2>0 DEF Undone, Creating
    <3>2. row' = new /\ pc'[r] = "start.pause" => Undone(r)' = row
      BY <2>1, <2>2, <2>3 DEF Undone, Creating
    <3>3. pc'[r] = "idle" => Undone(r)' = row'
      BY DEF Undone, Creating
    <3>4. Live(row')
      BY <2>1, <2>2, <2>3
    <3> QED
      BY <2>2, <2>3, <3>1, <3>2, <3>3, <3>4, SeenLive
  <2>5. Given(r)'
    BY <2>0, <2>1, <2>2, <2>3 DEF Given, Creating, Stopping, Starting, Updating, IsCountdown
  <2> QED
    BY <1>0, <2>3, <2>4, <2>5, Stutter
<1>3. CASE StartPause(r)
  <2> DEFINE new == UpdatePauseTime(row, ZeroTime, FALSE)
  <2>0. pc[r] = "start.pause" /\ StorageCall(r, new, "start.service", "start.undoTime")
    BY <1>3 DEF StartPause
  <2>1. /\ Live(new) <=> Live(row)
        /\ new.type = row.type /\ new.pauseTime = ZeroTime
    BY <1>0 DEF UpdatePauseTime, Live, Rows
  <2>2. Live(row) /\ IsCountdown(row) /\ row.paused /\ row.pauseTime = snap[r].pauseTime
    BY <1>0, <2>0 DEF Given, Phase, StillPaused, Starting
  <2>3. UpdatePauseTime(UpdateTime(new, snap[r].end), snap[r].pauseTime, TRUE) = UpdateTime(row, snap[r].end)
    BY <1>0, <2>2 DEF UpdatePauseTime, UpdateTime, Rows
  <2> HIDE DEF new
  <2>4. /\ service' = service /\ snap'[r] = snap[r] /\ arg'[r] = arg[r]
        /\ \/ row' = new /\ pc'[r] = "start.service"
           \/ row' = row /\ pc'[r] = "start.undoTime"
    BY <1>0, <2>0, StorageWent, NothingLost DEF Went
  <2>5. Seen' = Seen
    <3>1. Undone(r) = UpdateTime(row, snap[r].end)
      BY <2>0 DEF Undone, Creating
    <3>2. pc'[r] = "start.service" =>
              Undone(r)' = UpdatePauseTime(UpdateTime(row', snap[r].end), snap[r].pauseTime, TRUE)
      BY <2>4 DEF Undone, Creating
    <3>3. pc'[r] = "start.undoTime" => Undone(r)' = UpdateTime(row', snap[r].end)
      BY <2>4 DEF Undone, Creating
    <3>4. Live(row')
      BY <2>1, <2>2, <2>4
    <3>5. Undone(r)' = Undone(r)
      <4>1. CASE row' = new /\ pc'[r] = "start.service"
        BY <2>3, <3>1, <3>2, <4>1
      <4>2. CASE row' = row /\ pc'[r] = "start.undoTime"
        BY <3>1, <3>3, <4>2
      <4> QED
        BY <2>4, <4>1, <4>2
    <3> QED
      BY <2>2, <3>4, <3>5, SeenLive
  <2>6. Given(r)'
    BY <2>0, <2>1, <2>2, <2>4 DEF Given, Creating, Stopping, Starting, Updating, IsCountdown
  <2> QED
    BY <1>0, <2>4, <2>5, <2>6, Stutter
<1>4. CASE StartService(r)
  <2>0. /\ pc[r] = "start.service"
        /\ ServiceCall(r, AcceptsAdd(service, arg[r], clock), arg[r], "idle", "start.undoPause")
    BY <1>4 DEF StartService
  <2>1. /\ row' = row
        /\ \/ AcceptsAdd(service, arg[r], clock) /\ service' = arg[r] /\ pc'[r] = "idle"
           \/ /\ service' = service /\ pc'[r] = "start.undoPause"
              /\ snap'[r] = snap[r] /\ arg'[r] = arg[r]
    BY <1>0, <2>0, ServiceWent, NothingLost DEF Went
  <2>2. /\ Live(row) /\ IsCountdown(row) /\ ~row.paused /\ row.pauseTime = ZeroTime /\ NobodyExpires
        /\ row.end = arg[r] /\ arg[r] - snap[r].end <= clock - snap[r].pauseTime
    BY <1>0, <2>0 DEF Given, Phase, Loose, Starting, EndKnown
  <2>3. Given(r)'
    BY <2>0, <2>1, <2>2 DEF Given, Creating, Stopping, Starting, Updating
  <2>4. CASE service' = service /\ pc'[r] = "start.undoPause" /\ snap'[r] = snap[r]
    <3>1. Seen' = Seen
      BY <2>0, <2>1, <2>4, SeenIs DEF Undone, Creating
    <3> QED
      BY <1>0, <2>3, <2>4, <3>1, Stutter
  <2>5. CASE AcceptsAdd(service, arg[r], clock) /\ service' = arg[r] /\ pc'[r] = "idle"
    <3>1. Seen = old /\ Seen' = row
      BY <2>0, <2>1, <2>2, <2>5, SeenLive DEF Undone, Creating
    <3>2. /\ Live(old) /\ IsCountdown(old) /\ old.paused
          /\ old.end = snap[r].end /\ old.pauseTime = snap[r].pauseTime
      BY <1>0, <2>2 DEF Live, IsCountdown, UpdatePauseTime, UpdateTime, Rows
    <3>3. row = UpdatePauseTime(UpdateTime(old, row.end), ZeroTime, FALSE)
      BY <1>0, <2>2 DEF UpdatePauseTime, UpdateTime, Rows
    <3> HIDE DEF old
    <3>4. Promise!Enter(row.end)
      BY <2>2, <2>5, Entered
    <3>5. Promise!Start
      BY <2>2, <3>1, <3>2, <3>3, <3>4, SameRows DEF Promise!Start
    <3> QED
      BY <2>3, <3>5 DEF Promised, Promise!PromiseNext
  <2> QED
    BY <2>1, <2>4, <2>5
<1>5. CASE StartUndoPause(r)
  <2> DEFINE new == UpdatePauseTime(row, snap[r].pauseTime, TRUE)
  <2>0. pc[r] = "start.undoPause" /\ StorageCall(r, new, "start.undoTime", "start.undoTime")
    BY <1>5 DEF StartUndoPause
  <2>1. /\ Live(new) <=> Live(row)
        /\ new.type = row.type
        /\ UpdateTime(new, snap[r].end) = old
    BY <1>0 DEF UpdatePauseTime, UpdateTime, Live, Rows
  <2>2. Live(row) /\ IsCountdown(row)
    BY <1>0, <2>0 DEF Given, Phase, Starting
  <2> HIDE DEF new, old
  <2>3. /\ service' = service /\ snap'[r] = snap[r] /\ arg'[r] = arg[r] /\ pc'[r] = "start.undoTime"
        /\ row' = new \/ (row' = row /\ faults' = faults + 1)
    BY <1>0, <2>0, StorageWent, NothingLost DEF Went
  <2>4. Given(r)'
    BY <2>0, <2>1, <2>2, <2>3 DEF Given, Creating, Stopping, Starting, Updating, IsCountdown
  <2>5. CASE row' = row /\ faults' = faults + 1
    BY <1>0, <2>0, <2>3, <2>4, <2>5 DEF Unrepaired, Failed, TypeOK
  <2>6. CASE row' = new
    <3>1. Undone(r) = old
      BY <2>0 DEF Undone, Creating, old
    <3>2. Undone(r)' = UpdateTime(row', snap[r].end)
      BY <2>3 DEF Undone, Creating
    <3>3. Seen' = Seen
      BY <2>1, <2>2, <2>6, <3>1, <3>2, SeenLive
    <3> QED
      BY <1>0, <2>3, <2>4, <3>3, Stutter
  <2> QED
    BY <2>3, <2>5, <2>6
<1>6. CASE StartUndoTime(r)
  <2> DEFINE new == UpdateTime(row, snap[r].end)
  <2>0. pc[r] = "start.undoTime" /\ StorageCall(r, new, "idle", "idle")
    BY <1>6 DEF StartUndoTime
  <2>1. Live(new) <=> Live(row)
    BY <1>0 DEF UpdateTime, Live, Rows
  <2>2. Live(row)
    BY <1>0, <2>0 DEF Phase, Starting
  <2>3. /\ service' = service /\ pc'[r] = "idle"
        /\ row' = new \/ faults' = faults + 1
    BY <1>0, <2>0, StorageWent DEF Went
  <2>4. Given(r)'
    BY <2>3 DEF Given, Creating, Stopping, Starting, Updating
  <2>5. CASE faults' = faults + 1
    BY <1>0, <2>0, <2>3, <2>4, <2>5 DEF Unrepaired, Failed, TypeOK
  <2>6. CASE row' = new
    <3>1. Seen' = Seen
      BY <2>0, <2>1, <2>2, <2>3, <2>6, SeenLive DEF Undone, Creating
    <3> QED
      BY <1>0, <2>3, <2>4, <3>1, Stutter
  <2> QED
    BY <2>3, <2>5, <2>6
<1> QED
  BY <1>1, <1>2, <1>3, <1>4, <1>5, <1>6 DEF StartStep

\* Every request, but Reset.
LEMMA AtomRequest ==
    ASSUME OneAtATime, Reliable, "Reset" \notin Ops, IInv, SerialInv, Ends, Tracks,
           NEW r \in Req, Given(r), RequestStep(r)
    PROVE  Given(r)' /\ (Unrepaired \/ Promised)
<1>1. UNCHANGED <<hpc, clock>>
  BY DEF RequestStep, handlerVars, worldVars
<1> QED
  BY <1>1, AtomCreate, AtomDelete, AtomUpdate, AtomStop, AtomStart, EndReset DEF RequestStep

\* When no request moves, what is seen follows the row: what may be undone are
\* the columns that a handler leaves alone, and of a row that a request has to
\* itself nothing is written.
LEMMA SeenSame ==
    ASSUME UNCHANGED <<row, pc, snap>>
    PROVE  Seen' = Seen
  BY DEF Seen, Undone

\* Given holds of a request that waits, as long as the row stays.
LEMMA GivenStays ==
    ASSUME TypeOK, NEW r \in Req, Given(r), UNCHANGED <<row, pc, snap, arg>>,
           service' = service \/ ~Registered(service'), clock' \in Nat, clock <= clock'
    PROVE  Given(r)'
<1>1. arg[r] \in Int /\ snap[r].end \in Int /\ snap[r].pauseTime \in Int /\ clock \in Int /\ clock' \in Int
  BY DEF TypeOK, Rows
<1>2. arg[r] - snap[r].end <= clock - snap[r].pauseTime => arg[r] - snap[r].end <= clock' - snap[r].pauseTime
  BY <1>1
<1> QED
  BY <1>2 DEF Given

\* A tick: the timer rings.
LEMMA AtomFire ==
    ASSUME IInv, SerialInv, Fire
    PROVE  Promised
<1> TypeOK /\ up
  BY DEF IInv, SerialInv, World
<1>1. /\ Registered(service) /\ service <= clock /\ service' = NoEntry /\ clock' = clock
      /\ UNCHANGED <<row, pc, snap>>
  BY DEF Fire, requestVars, worldVars
<1>2. \E h \in Handler : hpc'[h] = "tick"
  BY DEF Fire, TypeOK
<1>3. (\E h \in Handler : Expiring(h))' = TRUE
  BY <1>2 DEF Expiring
<1>4. Seen' = Seen
  BY <1>1, SeenSame
<1>5. Promise!Ring
  BY <1>1, <1>3, <1>4, SameService DEF Promise!Ring
<1> QED
  BY <1>5 DEF Promised, Promise!PromiseNext

\* A request keeps the type of the timer; one that inserts it finds no handler.
LEMMA KindKept ==
    ASSUME OneAtATime, Reliable, IInv, SerialInv, NEW r \in Req, RequestStep(r)
    PROVE  NobodyExpires \/ row'.type = row.type
<1> TypeOK /\ World
  BY DEF IInv, SerialInv
<1>0. /\ \A a : UpdateTime(row, a).type = row.type /\ UpdateTimer(row, a).type = row.type
      /\ \A a, b : UpdatePauseTime(row, a, b).type = row.type
      /\ DeleteTimer(row).type = row.type
  BY DEF TypeOK, Rows, UpdateTime, UpdateTimer, UpdatePauseTime, DeleteTimer
<1>1. ASSUME NEW new, NEW ok, NEW err, StorageCall(r, new, ok, err), new.type = row.type
      PROVE  row'.type = row.type
  <2>1. row' \in {row, new}
    BY <1>1, OneOutcome DEF StorageCall
  <2> QED
    BY <1>1, <2>1
<1>2. CASE CreateStep(r)
  <2>1. CASE CreateInsert(r)
    BY <2>1 DEF CreateInsert, World, Loose
  <2>2. CASE CreateUndoInsert(r)
    BY <1>0, <1>1, <2>2 DEF CreateUndoInsert
  <2> QED
    BY <1>2, <2>1, <2>2 DEF CreateStep, CreateSubscribe, CreateAdd, CreateUndoSubscribe, CacheCall, ServiceCall
<1>3. CASE DeleteStep(r)
  <2>1. CASE DeleteMark(r)
    BY <1>0, <1>1, <2>1 DEF DeleteMark
  <2> QED
    BY <1>3, <2>1 DEF DeleteStep, DeleteRead, DeleteRemove, DeleteSend, Begin, ServiceCall
<1>4. CASE UpdateStep(r)
  <2>1. CASE UpdateStore(r) \/ UpdateUndo(r)
    BY <1>0, <1>1, <2>1 DEF UpdateStore, UpdateUndo
  <2> QED
    BY <1>4, <2>1 DEF UpdateStep, UpdateRead, UpdateService, Begin, ServiceCall
<1>5. CASE StopStep(r)
  <2>1. CASE StopStore(r)
    BY <1>0, <1>1, <2>1 DEF StopStore
  <2> QED
    BY <1>5, <2>1 DEF StopStep, StopRead, StopService, StopUndo, Begin, ServiceCall
<1>6. CASE StartStep(r)
  <2>1. CASE StartTime(r) \/ StartPause(r) \/ StartUndoPause(r) \/ StartUndoTime(r)
    BY <1>0, <1>1, <2>1 DEF StartTime, StartPause, StartUndoPause, StartUndoTime
  <2> QED
    BY <1>6, <2>1 DEF StartStep, StartRead, StartService, Begin, ServiceCall
<1>7. CASE ResetStep(r)
  <2>1. CASE ResetTime(r) \/ ResetPause(r) \/ ResetUndo(r)
    BY <1>0, <1>1, <2>1 DEF ResetTime, ResetPause, ResetUndo
  <2> QED
    BY <1>7, <2>1 DEF ResetStep, ResetRead, Begin
<1> QED
  BY <1>2, <1>3, <1>4, <1>5, <1>6, <1>7 DEF RequestStep

\* While a tick is on its way the only thing that may be undone is an Update,
\* which leaves the beginning of the countdown.
LEMMA SeenExpiring ==
    ASSUME OneAtATime, IInv, SerialInv, Tracks, ~NobodyExpires, Live(row)
    PROVE  \E end, duration \in Int :
              /\ end - duration = row.end - row.duration
              /\ Seen = [row EXCEPT !.end = end, !.duration = duration]
              /\ /\ UNCHANGED <<pc, snap>> /\ row' \in Rows
                 /\ row'.end = row.end /\ row'.duration = row.duration /\ Live(row')
                 => Seen' = [row' EXCEPT !.end = end, !.duration = duration]
<1>0. row \in Rows /\ row.end \in Int /\ row.duration \in Int
  BY DEF IInv, TypeOK, Rows
<1>1. row = [row EXCEPT !.end = row.end, !.duration = row.duration]
  BY <1>0 DEF Rows
<1>2. row' \in Rows /\ row'.end = row.end /\ row'.duration = row.duration =>
          row' = [row' EXCEPT !.end = row.end, !.duration = row.duration]
  BY DEF Rows
<1>3. CASE Req = {}
  <2>1. Seen = Shown(row) /\ Seen' = Shown(row')
    BY <1>3 DEF Seen
  <2>2. Seen = row /\ (Live(row') => Seen' = row')
    BY <2>1 DEF Shown
  <2> QED
    BY <1>0, <1>1, <1>2, <2>2
<1>4. ASSUME NEW r \in Req
      PROVE  \E end, duration \in Int :
              /\ end - duration = row.end - row.duration
              /\ Seen = [row EXCEPT !.end = end, !.duration = duration]
              /\ /\ UNCHANGED <<pc, snap>> /\ row' \in Rows
                 /\ row'.end = row.end /\ row'.duration = row.duration /\ Live(row')
                 => Seen' = [row' EXCEPT !.end = end, !.duration = duration]
  <2>1. pc[r] \notin Creating \cup Starting
    BY DEF SerialInv, Phase, Loose
  <2>2. CASE pc[r] \in {"update.service", "update.undo"}
    <3>1. snap[r].end \in Int /\ snap[r].duration \in Int
      BY DEF IInv, TypeOK, Rows
    <3>2. snap[r].end - snap[r].duration = row.end - row.duration
      BY <2>2 DEF Tracks, Track, Updating
    <3>3. Undone(r) = [row EXCEPT !.end = snap[r].end, !.duration = snap[r].duration]
      BY <2>2 DEF Undone, Creating
    <3>4. UNCHANGED <<pc, snap>> =>
              Undone(r)' = [row' EXCEPT !.end = snap[r].end, !.duration = snap[r].duration]
      BY <2>2 DEF Undone, Creating
    <3> QED
      BY <3>1, <3>2, <3>3, <3>4, SeenLive
  <2>3. CASE pc[r] \notin {"update.service", "update.undo"}
    <3>1. Undone(r) = row /\ (UNCHANGED <<pc, snap>> => Undone(r)' = row')
      BY <2>1, <2>3 DEF Undone, Creating, Starting
    <3>2. Seen = row /\ (UNCHANGED <<pc, snap>> /\ Live(row') => Seen' = row')
      BY <3>1, SeenLive
    <3> QED
      BY <1>0, <1>1, <1>2, <3>2
  <2> QED
    BY <2>2, <2>3
<1> QED
  BY <1>3, <1>4

\* What is seen of a timer that was deleted while its tick is on its way.
LEMMA SeenExpired ==
    ASSUME OneAtATime, SerialInv, ~NobodyExpires
    PROVE  /\ ~Live(row) => Seen = IF row.exists THEN GoneRow ELSE NoRow
           /\ ~Live(row') /\ pc' = pc => Seen' = IF row'.exists THEN GoneRow ELSE NoRow
<1>1. CASE Req = {}
  BY <1>1 DEF Seen, Shown
<1>2. ASSUME NEW r \in Req
      PROVE  /\ ~Live(row) => Seen = IF row.exists THEN GoneRow ELSE NoRow
             /\ ~Live(row') /\ pc' = pc => Seen' = IF row'.exists THEN GoneRow ELSE NoRow
  <2>1. pc[r] \notin Creating
    BY DEF SerialInv, Phase, Loose
  <2> QED
    BY <2>1, SeenDead
<1> QED
  BY <1>1, <1>2

\* A tick that is answered: what lived is settled, at its full duration.
LEMMA AtomClear ==
    ASSUME OneAtATime, IInv, SerialInv, Spans, Kinds, Tracks, NEW h \in Handler, ExpiredClear(h),
           UNCHANGED <<pc, snap, clock>>, row' = Cleared(row, hsnap[h]), Live(row)
    PROVE  Promise!Expire
<1> TypeOK /\ World
  BY DEF IInv, SerialInv
<1>0. /\ row \in Rows /\ row.end \in Int /\ row.duration \in Int /\ hsnap[h] \in Rows
      /\ row.type \in TimerTypes
  BY DEF TypeOK, Rows
<1>1. hpc[h] = "clear" /\ service' = service /\ Expiring(h) /\ ~NobodyExpires
  BY DEF ExpiredClear, Expiring, NobodyExpires
<1>2. /\ ~row.paused /\ ~Registered(service) /\ hsnap[h].type = row.type
      /\ hsnap[h].end - hsnap[h].duration = row.end - row.duration
  BY <1>1 DEF World, Kinds, Spans
<1>3. (\E g \in Handler : Expiring(g)) /\ ~(\E g \in Handler : Expiring(g))'
  <2>1. hpc'[h] \in {"idle", "uncache"} /\ \A g \in Handler : g # h => hpc'[g] = hpc[g]
    BY HandlerWent DEF ExpiredClear
  <2>2. \A g \in Handler : Expiring(g) => g = h
    BY <1>1 DEF World, AtMostOneExpires
  <2> QED
    BY <1>1, <2>1, <2>2 DEF Expiring
<1>4. PICK end \in Int, duration \in Int :
        /\ end - duration = row.end - row.duration
        /\ Seen = [row EXCEPT !.end = end, !.duration = duration]
        /\ /\ UNCHANGED <<pc, snap>> /\ row' \in Rows
           /\ row'.end = row.end /\ row'.duration = row.duration /\ Live(row')
           => Seen' = [row' EXCEPT !.end = end, !.duration = duration]
  BY <1>1, SeenExpiring
<1>5. /\ Running(Seen) /\ Seen.end - Seen.duration = row.end - row.duration
      /\ IsCountdown(Seen) <=> IsCountdown(row)
  BY <1>0, <1>2, <1>4 DEF Running, Live, IsCountdown, Rows
<1>6. Seen' = IF IsCountdown(Seen) THEN UpdatePauseTime(Seen, Seen.end - Seen.duration, TRUE) ELSE GoneRow
  <2>1. CASE IsCountdown(row)
    <3> DEFINE start == row.end - row.duration
    <3>1. row' = UpdatePauseTime(row, start, TRUE) /\ start \in Int
      <4>1. hsnap[h].type # "DATE"
        BY <1>2, <2>1 DEF IsCountdown
      <4>2. row' = UpdatePauseTime(row, hsnap[h].end - hsnap[h].duration, TRUE)
        BY <4>1 DEF Cleared
      <4>3. hsnap[h].end - hsnap[h].duration = start
        BY <1>2
      <4>4. start \in Int
        BY <1>0
      <4> HIDE DEF start
      <4> QED
        BY <4>2, <4>3, <4>4
    <3> HIDE DEF start
    <3>2. /\ row' \in Rows /\ row'.end = row.end /\ row'.duration = row.duration
          /\ Live(row')
      BY <1>0, <3>1 DEF UpdatePauseTime, Live, Rows
    <3>3. Seen' = [row' EXCEPT !.end = end, !.duration = duration]
      BY <1>4, <3>2
    <3>4. Seen' = UpdatePauseTime(Seen, start, TRUE)
      BY <1>0, <1>4, <3>1, <3>3 DEF UpdatePauseTime, Rows
    <3> QED
      BY <1>5, <2>1, <3>4 DEF start
  <2>2. CASE ~IsCountdown(row)
    <3>1. row' = DeleteTimer(row)
      BY <1>0, <1>2, <2>2 DEF Cleared, IsCountdown, TimerTypes
    <3>2. ~Live(row') /\ row'.exists
      BY <1>0, <3>1, Deleted DEF Live
    <3>3. Seen' = GoneRow
      BY <1>1, <3>2, SeenExpired
    <3> QED
      BY <1>5, <2>2, <3>3
  <2> QED
    BY <2>1, <2>2
<1> QED
  BY <1>1, <1>2, <1>3, <1>5, <1>6, SameRows, SameService DEF Promise!Expire

\* A tick of a timer that was deleted in time changes nothing.
LEMMA AtomIgnore ==
    ASSUME ~Live(Seen), Seen' = Seen, UNCHANGED <<service, clock>>, ~NobodyExpires
    PROVE  Promised
<1>1. CASE NobodyExpires'
  <2>1. (\E h \in Handler : Expiring(h)) /\ ~(\E h \in Handler : Expiring(h))'
    BY <1>1, Zenon DEF NobodyExpires
  <2>2. Promise!Ignore
    BY <2>1, SameRows DEF Promise!Ignore
  <2> QED
    BY <2>2 DEF Promised, Promise!PromiseNext
<1>2. CASE ~NobodyExpires'
  BY <1>2, Stutter
<1> QED
  BY <1>1, <1>2

\* The expiry handlers.
LEMMA AtomHandler ==
    ASSUME OneAtATime, Reliable, IInv, SerialInv, Spans, Kinds, Tracks,
           NEW h \in Handler, HandlerStep(h)
    PROVE  Unrepaired \/ Promised
<1> TypeOK
  BY DEF IInv
<1>0. UNCHANGED <<pc, snap, clock>>
  BY DEF HandlerStep, requestVars, worldVars
<1>1. ~Live(GoneRow) /\ ~Live(NoRow)
  BY DEF GoneRow, NoRow, DeleteTimer, Live
<1>2. CASE ExpiredRead(h)
  <2>1. UNCHANGED <<row, service>> /\ hpc[h] = "tick" /\ ~NobodyExpires
    BY <1>2 DEF ExpiredRead, NobodyExpires, Expiring
  <2>2. Seen' = Seen
    BY <1>0, <2>1, SeenSame
  <2>3. CASE Live(row) /\ HandlerGoto(h, "clear", row)
    <3>1. ~NobodyExpires'
      BY <2>3, HandlerWent DEF NobodyExpires, Expiring
    <3> QED
      BY <1>0, <2>1, <2>2, <3>1, Stutter
  <2>4. CASE ~Live(row)
    BY <1>0, <1>1, <2>1, <2>2, <2>4, SeenExpired, AtomIgnore
  <2>5. CASE Fault /\ HandlerGoto(h, "idle", NoRow)
    BY <2>1, <2>5, HandlerWent DEF Unrepaired, Failed, Fault, Expiring, TypeOK
  <2> QED
    BY <1>2, <2>3, <2>4, <2>5 DEF ExpiredRead
<1>3. CASE ExpiredClear(h)
  <2>1. service' = service /\ hpc[h] = "clear" /\ ~NobodyExpires
    BY <1>3 DEF ExpiredClear, NobodyExpires, Expiring
  <2>2. CASE Fault
    <3>1. hpc'[h] \in {"idle", "uncache"}
      BY <1>3, HandlerWent DEF ExpiredClear
    <3> QED
      BY <2>1, <2>2, <3>1 DEF Unrepaired, Failed, Fault, Expiring, TypeOK
  <2>3. CASE row' = Cleared(row, hsnap[h]) /\ ~Live(row)
    <3>1. ~Live(row') /\ row'.exists = row.exists
      BY <2>3, Deleted DEF Cleared, UpdatePauseTime, Live, TypeOK, Rows
    <3>2. Seen' = Seen /\ ~Live(Seen)
      BY <1>0, <1>1, <2>1, <2>3, <3>1, SeenExpired
    <3> QED
      BY <1>0, <2>1, <3>2, AtomIgnore
  <2>4. CASE row' = Cleared(row, hsnap[h]) /\ Live(row)
    BY <1>0, <1>3, <2>4, AtomClear DEF Promised, Promise!PromiseNext
  <2> QED
    BY <1>3, <2>2, <2>3, <2>4 DEF ExpiredClear
<1>4. CASE ExpiredUncache(h)
  <2>1. UNCHANGED <<row, service>> /\ hpc[h] = "uncache" /\ HandlerGoto(h, "idle", NoRow)
    BY <1>4 DEF ExpiredUncache
  <2>2. Seen' = Seen
    BY <1>0, <2>1, SeenSame
  <2>3. NobodyExpires' <=> NobodyExpires
    BY <2>1, HandlerWent DEF NobodyExpires, Expiring
  <2> QED
    BY <1>0, <2>1, <2>2, <2>3, Stutter
<1> QED
  BY <1>2, <1>3, <1>4 DEF HandlerStep

\* Ticks and handlers leave what a request knows.
LEMMA GivenKept ==
    ASSUME OneAtATime, Reliable, IInv, SerialInv, NEW r \in Req, Given(r),
           [Next]_vars, ~\E q \in Req : RequestStep(q)
    PROVE  Given(r)'
<1> TypeOK /\ World /\ Phase(r)
  BY DEF IInv, SerialInv
<1>0. ~Crash /\ ~Restart
  BY DEF Crash, Restart, Reliable, TypeOK, SerialInv, World
<1>1. CASE Fire \/ TimerDelete \/ Clock \/ UNCHANGED vars
  <2>1. /\ UNCHANGED <<row, pc, snap, arg>>
        /\ service' = service \/ ~Registered(service')
    BY <1>1 DEF Fire, TimerDelete, Clock, vars, requestVars, Registered
  <2>2. clock' \in {clock, clock + 1}
    BY <1>1 DEF Fire, TimerDelete, Clock, vars, worldVars
  <2>3. clock' \in Nat /\ clock <= clock'
    BY <2>2 DEF TypeOK
  <2> QED
    BY <2>1, <2>3, GivenStays
<1>2. ASSUME NEW h \in Handler, HandlerStep(h) PROVE Given(r)'
  <2>0. UNCHANGED <<pc, snap, arg, clock>> /\ service' = service
    BY <1>2 DEF HandlerStep, requestVars, worldVars, ExpiredRead, ExpiredClear, ExpiredUncache
  <2>1. CASE row' = row
    BY <2>0, <2>1, GivenStays DEF TypeOK
  <2>2. CASE row' # row
    <3>1. /\ hpc[h] = "clear" /\ ~NobodyExpires
          /\ row' = Cleared(row, hsnap[h])
      BY <1>2, <2>2, NothingLost
         DEF HandlerStep, ExpiredRead, ExpiredClear, ExpiredUncache, NobodyExpires, Expiring
    <3>2. pc[r] \notin Creating \cup Starting \cup Stopping /\ (Live(row) => ~Registered(service))
      BY <3>1 DEF Given, Phase, Loose, World
    <3>3. row'.end = row.end /\ row'.type = row.type
      <4>1. hsnap[h].end - hsnap[h].duration \in Int /\ row \in Rows /\ hsnap[h] \in Rows
        BY DEF TypeOK, Rows
      <4> QED
        BY <3>1, <4>1 DEF Cleared, DeleteTimer, UpdatePauseTime, Rows
    <3> QED
      BY <2>0, <3>2, <3>3 DEF Given, Creating, Starting, Stopping, Updating, IsCountdown
  <2> QED
    BY <2>1, <2>2
<1> QED
  BY <1>0, <1>1, <1>2 DEF Next

\* The type of the row stays what a handler has read.
LEMMA KindsNext ==
    ASSUME OneAtATime, Reliable, IInv, SerialInv, Kinds, [Next]_vars
    PROVE  Kinds'
<1> TypeOK
  BY DEF IInv
<1>1. ASSUME NEW r \in Req, RequestStep(r) PROVE Kinds'
  <2>1. UNCHANGED <<hpc, hsnap>>
    BY <1>1 DEF RequestStep, handlerVars
  <2> QED
    BY <1>1, <2>1, KindKept DEF Kinds, NobodyExpires, Expiring
<1>2. CASE Fire
  BY <1>2 DEF Fire, Kinds, TypeOK
<1>3. CASE TimerDelete \/ Restart \/ Clock \/ UNCHANGED vars
  BY <1>3 DEF TimerDelete, Restart, Clock, vars, handlerVars, Kinds
<1>4. CASE Crash
  BY <1>4 DEF Crash, Kinds
<1>5. ASSUME NEW h \in Handler, HandlerStep(h) PROVE Kinds'
  <2>1. row' \in {row, Cleared(row, hsnap[h])}
    BY <1>5, OneOutcome DEF HandlerStep, ExpiredRead, ExpiredClear, ExpiredUncache
  <2>2. row'.type = row.type
    <3>1. hsnap[h].end - hsnap[h].duration \in Int /\ row \in Rows /\ hsnap[h] \in Rows
      BY DEF TypeOK, Rows
    <3> QED
      BY <2>1, <3>1 DEF Cleared, DeleteTimer, UpdatePauseTime, Rows
  <2>3. \/ HandlerGoto(h, "clear", row)
        \/ \E label \in {"idle", "uncache"} : HandlerGoto(h, label, NoRow)
    BY <1>5 DEF HandlerStep, ExpiredRead, ExpiredClear, ExpiredUncache
  <2> QED
    BY <2>2, <2>3, HandlerWent DEF Kinds
<1> QED
  BY <1>1, <1>2, <1>3, <1>4, <1>5 DEF Next

AtomInv == IInv /\ SerialInv /\ Ends /\ Spans /\ Tracks /\ Kinds /\ \A r \in Req : Given(r)

\* At first there is nothing.
LEMMA AtomInit == Init => AtomInv /\ Promise!PromiseInit
<1> SUFFICES ASSUME Init PROVE AtomInv /\ Promise!PromiseInit
  OBVIOUS
<1>1. IInv /\ SerialInv /\ Ends
  BY InitInvariant, SerialInit, EndsInit
<1>2. Spans /\ Tracks /\ Kinds
  BY DEF Init, Spans, Tracks, Track, Kinds, Updating, Starting, Resetting
<1>3. \A r \in Req : Given(r)
  BY DEF Init, Given, Creating, Stopping, Starting, Updating
<1>4. Seen = NoRow
  <2>1. {r \in Req : pc[r] # "idle"} = {}
    BY DEF Init
  <2>2. Seen = Shown(row)
    BY <2>1, Zenon DEF Seen
  <2> QED
    BY <2>2 DEF Init, Shown, Live, NoRow
<1>5. (\E h \in Handler : Expiring(h)) = FALSE
  BY DEF Init, Expiring
<1>6. Promise!PromiseInit
  BY <1>4, <1>5, SameRows, SameService DEF Init, Promise!PromiseInit
<1> QED
  BY <1>1, <1>2, <1>3, <1>6 DEF AtomInv

\* Every step keeps what is known and is a step of TimerPromise, or nothing, or
\* a failure that nobody makes good.
LEMMA AtomNext ==
    ASSUME OneAtATime, Reliable, "Reset" \notin Ops, AtomInv, [Next]_vars
    PROVE  AtomInv' /\ (Unrepaired \/ Promised)
<1> IInv /\ SerialInv /\ Ends /\ Spans /\ Tracks /\ Kinds /\ TypeOK /\ World
  BY DEF AtomInv, IInv, SerialInv
<1>1. IInv' /\ SerialInv' /\ Ends' /\ Spans' /\ Tracks' /\ Kinds'
  BY NextInvariant, SerialNext, EndsNext, SpansNext, TracksNext, KindsNext
<1>2. ASSUME NEW r \in Req, RequestStep(r)
      PROVE  (\A q \in Req : Given(q)') /\ (Unrepaired \/ Promised)
  <2>1. Given(r)' /\ (Unrepaired \/ Promised)
    BY <1>2, AtomRequest DEF AtomInv
  <2> QED
    BY <2>1 DEF OneAtATime
<1>3. ASSUME ~\E r \in Req : RequestStep(r)
      PROVE  (\A q \in Req : Given(q)') /\ (Unrepaired \/ Promised)
  <2>1. \A q \in Req : Given(q)'
    BY <1>3, GivenKept DEF AtomInv
  <2>2. ASSUME Fire PROVE Promised
    BY <2>2, AtomFire
  <2>3. ASSUME NEW h \in Handler, HandlerStep(h) PROVE Unrepaired \/ Promised
    BY <2>3, AtomHandler
  <2>4. ASSUME TimerDelete \/ UNCHANGED vars PROVE Promised
    <3>1. UNCHANGED <<row, pc, snap, service, clock, hpc>>
      BY <2>4 DEF TimerDelete, vars, requestVars, handlerVars, worldVars
    <3>2. Seen' = Seen
      BY <3>1, SeenSame
    <3>3. NobodyExpires' <=> NobodyExpires
      BY <3>1 DEF NobodyExpires, Expiring
    <3> QED
      BY <3>1, <3>2, <3>3, Stutter
  <2>5. ASSUME Clock PROVE Promised
    <3>1. UNCHANGED <<row, pc, snap, service, hpc>> /\ clock' > clock
      BY <2>5 DEF Clock, requestVars, handlerVars, TypeOK
    <3>2. Seen' = Seen
      BY <3>1, SeenSame
    <3>3. (\E h \in Handler : Expiring(h))' = (\E h \in Handler : Expiring(h))
      BY <3>1 DEF Expiring
    <3>4. Promise!Advance
      BY <3>1, <3>2, <3>3 DEF Promise!Advance
    <3> QED
      BY <3>4 DEF Promised, Promise!PromiseNext
  <2>6. ~Crash /\ ~Restart
    BY DEF Crash, Restart, Reliable, TypeOK, World
  <2> QED
    BY <1>3, <2>1, <2>2, <2>3, <2>4, <2>5, <2>6 DEF Next
<1> QED
  BY <1>1, <1>2, <1>3 DEF AtomInv

\* A request of the creator takes effect in the database and in the timer
\* service at once, or not at all: Create, Delete, Update, Stop and Start
\* (usecase.go of timerusecase and countdowntimerusecase) with the compensations
\* that they register in pkg/saga do what TimerPromise says, and a tick settles
\* a timer that has ended, whichever calls are refused or fail, for any number
\* of handlers and failures.  Only a compensation or a handler that fails itself
\* is excepted, in the very step in which it fails: what follows is again as
\* promised.
THEOREM AllOrNothingHolds ==
    ASSUME OneAtATime, Reliable, "Reset" \notin Ops
    PROVE  Spec => AllOrNothing
<1>1. Init => AtomInv /\ Promise!PromiseInit
  BY AtomInit
<1>2. AtomInv /\ [Next]_vars => AtomInv'
  BY AtomNext
<1>3. AtomInv /\ [Next]_vars =>
          [~Unrepaired => [Promise!PromiseNext]_Promise!promiseVars]_vars
  BY AtomNext DEF Promised
<1> QED
  BY <1>1, <1>2, <1>3, PTL DEF Spec, AllOrNothing

\* Where no call may fail none does.
LEMMA NothingFails ==
    ASSUME TypeOK, MaxFaults = 0, [Next]_vars
    PROVE  ~Failed
<1>1. ~Fault
  BY DEF Fault, TypeOK
<1>2. ASSUME NEW r \in Req, RequestStep(r) PROVE UNCHANGED faults
  <2>1. \A new, ok, err : StorageCall(r, new, ok, err) => UNCHANGED faults
    BY <1>1 DEF StorageCall
  <2>2. \A accepted, new, ok, err : ServiceCall(r, accepted, new, ok, err) => UNCHANGED faults
    BY <1>1 DEF ServiceCall
  <2>3. \A new, ok, err : CacheCall(r, new, ok, err) => UNCHANGED faults
    BY <1>1 DEF CacheCall
  <2>4. \A op, label, time : Begin(r, op, label, time) => UNCHANGED faults
    BY DEF Begin
  <2>5. CreateInsert(r) => UNCHANGED faults
    BY <1>1 DEF CreateInsert
  <2>6. DeleteSend(r) => UNCHANGED faults
    BY DEF DeleteSend
  <2>7. CreateStep(r) => UNCHANGED faults
    BY <2>1, <2>2, <2>3, <2>5
       DEF CreateStep, CreateSubscribe, CreateAdd, CreateUndoSubscribe, CreateUndoInsert
  <2>8. DeleteStep(r) => UNCHANGED faults
    BY <2>1, <2>2, <2>4, <2>6 DEF DeleteStep, DeleteRead, DeleteRemove, DeleteMark
  <2>9. UpdateStep(r) => UNCHANGED faults
    BY <2>1, <2>2, <2>4 DEF UpdateStep, UpdateRead, UpdateStore, UpdateService, UpdateUndo
  <2>10. StopStep(r) => UNCHANGED faults
    BY <2>1, <2>2, <2>4 DEF StopStep, StopRead, StopService, StopStore, StopUndo
  <2>11. StartStep(r) => UNCHANGED faults
    BY <2>1, <2>2, <2>4
       DEF StartStep, StartRead, StartTime, StartPause, StartService, StartUndoPause, StartUndoTime
  <2>12. ResetStep(r) => UNCHANGED faults
    BY <2>1, <2>4 DEF ResetStep, ResetRead, ResetTime, ResetPause, ResetUndo
  <2> QED
    BY <1>2, <2>7, <2>8, <2>9, <2>10, <2>11, <2>12 DEF RequestStep
<1>3. ASSUME NEW h \in Handler, HandlerStep(h) PROVE UNCHANGED faults
  BY <1>1, <1>3 DEF HandlerStep, ExpiredRead, ExpiredClear, ExpiredUncache
<1>4. Fire \/ TimerDelete \/ Crash \/ Restart \/ Clock \/ UNCHANGED vars => UNCHANGED faults
  BY <1>1 DEF Fire, TimerDelete, Crash, Restart, Clock, vars
<1> QED
  BY <1>2, <1>3, <1>4 DEF Next, Failed

\* When every call is answered the requests implement TimerPromise: what the
\* timer service refuses (an end that has passed, an entry that has fired) is
\* undone so that nobody sees it.
THEOREM RequestsImplementPromise ==
    ASSUME OneAtATime, Reliable, "Reset" \notin Ops, MaxFaults = 0
    PROVE  Spec => Promise!PromiseSpec
<1>1. Init => AtomInv /\ Promise!PromiseInit
  BY AtomInit
<1>2. AtomInv /\ [Next]_vars => AtomInv'
  BY AtomNext
<1>3. AtomInv /\ [Next]_vars => [Promise!PromiseNext]_Promise!promiseVars
  <2> SUFFICES ASSUME AtomInv, [Next]_vars PROVE Promised
    BY DEF Promised
  <2>1. ~Failed
    BY NothingFails DEF AtomInv, IInv
  <2> QED
    BY <2>1, AtomNext DEF Unrepaired
<1> QED
  BY <1>1, <1>2, <1>3, PTL DEF Spec, Promise!PromiseSpec

=============================================================================
