------------------------- MODULE TimerLifecycleProofs -------------------------
(***************************************************************************)
(* TimerLifecycle keeps its types, and Watched: whatever the number of     *)
(* requests and handlers, and whatever the bounds.                         *)
(***************************************************************************)
EXTENDS TimerLifecycle, TLAPS

\* A Delete that is to call Remove has read a timer that was not paused.
RemoveReadRunning == \A r \in Req : pc[r] = "delete.remove" => ~snap[r].paused

IInv == TypeOK /\ RemoveReadRunning /\ Watched

-----------------------------------------------------------------------------
(* What the helpers of the module do *)

\* Each statement of the storage turns a row into a row.
LEMMA RowTypes ==
    ASSUME NEW t \in Rows, NEW end \in Int, NEW pauseTime \in Int, NEW paused \in BOOLEAN
    PROVE  /\ DeleteTimer(t) \in Rows
           /\ UpdateTime(t, end) \in Rows
           /\ UpdateTimer(t, end) \in Rows
           /\ UpdatePauseTime(t, pauseTime, paused) \in Rows
<1>1. DeleteTimer(t) \in Rows
  BY DEF Rows, DeleteTimer
<1>2. UpdateTime(t, end) \in Rows
  BY DEF Rows, UpdateTime
<1>3. UpdateTimer(t, end) \in Rows
  <2>1. t.duration + (end - t.end) \in Int
    BY DEF Rows
  <2> QED
    BY <2>1 DEF Rows, UpdateTimer
<1>4. UpdatePauseTime(t, pauseTime, paused) \in Rows
  BY DEF Rows, UpdatePauseTime
<1> QED
  BY <1>1, <1>2, <1>3, <1>4

\* Which statements of the storage stop a timer and which leave it running.
LEMMA RowRunning ==
    ASSUME NEW t \in Rows, NEW end \in Int, NEW pauseTime \in Int, NEW paused \in BOOLEAN
    PROVE  /\ ~Running(DeleteTimer(t))
           /\ ~Running(UpdatePauseTime(t, pauseTime, TRUE))
           /\ Running(UpdateTime(t, end)) <=> Running(t)
           /\ Running(UpdateTimer(t, end)) <=> Running(t)
  BY DEF Rows, DeleteTimer, UpdateTime, UpdateTimer, UpdatePauseTime, Running, Live

\* NoRow is a row, and so is every timer that is inserted.
LEMMA NewRows ==
    /\ NoRow \in Rows
    /\ \A type \in TimerTypes, start \in Int, end \in Int : InsertTimer(type, start, end) \in Rows
  BY DEF NoRow, Rows, InsertTimer, TimerTypes, ZeroTime

\* Of the requests only r has moved, and what its calls wrote has its type.
MovedAlone(r) ==
    /\ pc' \in [Req -> Labels] /\ snap' \in [Req -> Rows] /\ arg' \in [Req -> Int]
    /\ row' \in Rows /\ cached' \in BOOLEAN /\ service' \in Entries /\ notices' \in Nat
    /\ faults' \in Nat
    /\ \A q \in Req : q # r => pc'[q] = pc[q] /\ snap'[q] = snap[q]

\* Goto moves one request and keeps the types.
LEMMA GotoMoves ==
    ASSUME TypeOK, NEW r \in Req, NEW label \in Labels, Goto(r, label)
    PROVE  /\ pc' \in [Req -> Labels] /\ snap' \in [Req -> Rows] /\ arg' \in [Req -> Int]
           /\ pc'[r] = label
           /\ label # "idle" => snap' = snap
           /\ \A q \in Req : q # r => pc'[q] = pc[q] /\ snap'[q] = snap[q]
  BY NewRows DEF TypeOK, Goto

\* Begin moves one request from "idle" and gives it the row.
LEMMA BeginMoves ==
    ASSUME TypeOK, NEW r \in Req, NEW op, NEW label \in Labels, NEW time \in Int,
           Begin(r, op, label, time)
    PROVE  /\ MovedAlone(r)
           /\ pc[r] = "idle" /\ pc'[r] = label /\ snap'[r] = row
           /\ UNCHANGED <<row, cached, service, notices, faults, strayed>>
  BY DEF TypeOK, Begin, MovedAlone

\* A call to the storage leaves the old row or the new one.
LEMMA StorageCallMoves ==
    ASSUME TypeOK, NEW r \in Req, NEW new \in Rows, NEW ok \in Labels, NEW err \in Labels,
           StorageCall(r, new, ok, err)
    PROVE  /\ MovedAlone(r)
           /\ UNCHANGED <<cached, service, notices>>
           /\ \/ row' = new /\ pc'[r] = ok /\ (ok # "idle" => snap' = snap) /\ ~Failed
              \/ row' \in {row, new} /\ pc'[r] = err /\ (err # "idle" => snap' = snap) /\ Failed
<1>1. CASE row' = new /\ Goto(r, ok) /\ UNCHANGED faults
  BY <1>1, GotoMoves DEF MovedAlone, StorageCall, TypeOK, Failed
<1>2. CASE Fault /\ row' \in Outcomes(row, new) /\ Goto(r, err)
  <2>1. row' \in {row, new} /\ faults' \in Nat /\ Failed
    BY <1>2 DEF Outcomes, Fault, Failed, TypeOK
  <2> QED
    BY <1>2, <2>1, GotoMoves DEF MovedAlone, StorageCall, TypeOK
<1> QED
  BY <1>1, <1>2 DEF StorageCall

\* A call to the service leaves the old entry or the one asked for.
LEMMA ServiceCallMoves ==
    ASSUME TypeOK, NEW r \in Req, NEW accepted \in BOOLEAN, NEW new \in Entries,
           NEW ok \in Labels, NEW err \in Labels,
           ServiceCall(r, accepted, new, ok, err)
    PROVE  /\ MovedAlone(r)
           /\ UNCHANGED <<row, cached, notices>>
           /\ \/ accepted /\ service' = new /\ pc'[r] = ok /\ (ok # "idle" => snap' = snap) /\ ~Failed
              \/ ~accepted /\ service' = service /\ pc'[r] = err /\ (err # "idle" => snap' = snap) /\ ~Failed
              \/ /\ service' = service \/ (accepted /\ service' = new)
                 /\ pc'[r] = err /\ (err # "idle" => snap' = snap) /\ Failed
<1>1. CASE accepted /\ service' = new /\ Goto(r, ok) /\ UNCHANGED faults
  BY <1>1, GotoMoves DEF MovedAlone, ServiceCall, TypeOK, Failed
<1>2. CASE ~accepted /\ service' = service /\ Goto(r, err) /\ UNCHANGED faults
  BY <1>2, GotoMoves DEF MovedAlone, ServiceCall, TypeOK, Failed
<1>3. CASE Fault /\ service' \in (IF accepted THEN Outcomes(service, new) ELSE {service}) /\ Goto(r, err)
  <2>1. /\ service' = service \/ (accepted /\ service' = new)
        /\ faults' \in Nat
        /\ Failed
    BY <1>3 DEF Outcomes, Fault, Failed, TypeOK
  <2> QED
    BY <1>3, <2>1, GotoMoves DEF MovedAlone, ServiceCall, TypeOK
<1> QED
  BY <1>1, <1>2, <1>3 DEF ServiceCall

\* A call to the cache touches nothing but the cache.
LEMMA CacheCallMoves ==
    ASSUME TypeOK, NEW r \in Req, NEW new \in BOOLEAN, NEW ok \in Labels, NEW err \in Labels,
           CacheCall(r, new, ok, err)
    PROVE  /\ MovedAlone(r)
           /\ UNCHANGED <<row, service, notices, strayed>>
           /\ pc'[r] \in {ok, err}
<1>1. CASE cached' = new /\ Goto(r, ok) /\ UNCHANGED faults
  BY <1>1, GotoMoves DEF MovedAlone, CacheCall, TypeOK
<1>2. CASE Fault /\ cached' \in Outcomes(cached, new) /\ Goto(r, err)
  <2>1. cached' \in BOOLEAN /\ faults' \in Nat
    BY <1>2 DEF Outcomes, Fault, TypeOK
  <2> QED
    BY <1>2, <2>1, GotoMoves DEF MovedAlone, CacheCall, TypeOK
<1> QED
  BY <1>1, <1>2 DEF CacheCall

-----------------------------------------------------------------------------
(* What a step of a request has to show *)

\* Request r has moved: alone, with typed results, and a timer that runs after
\* the step is registered, or r settles it, or it ran before, nothing that
\* watched it was r's, and its entry is where it was.
Moved(r) ==
    /\ MovedAlone(r)
    /\ strayed' \in BOOLEAN
    /\ pc'[r] = "delete.remove" => ~snap'[r].paused
    /\ Running(row') /\ ~strayed' =>
           \/ Registered(service')
           \/ Settling(r)'
           \/ /\ Running(row) /\ ~strayed
              /\ Registered(service) => Registered(service')
              /\ ~Settling(r)

\* A step that Moved describes keeps the invariant.
LEMMA MovedPreserves ==
    ASSUME IInv, NEW r \in Req, Moved(r), UNCHANGED <<handlerVars, worldVars>>
    PROVE  IInv'
<1>1. TypeOK'
  BY DEF IInv, TypeOK, Moved, MovedAlone, handlerVars, worldVars
<1>2. RemoveReadRunning'
  BY DEF IInv, RemoveReadRunning, Moved, MovedAlone
<1>3. Watched'
  <2> SUFFICES ASSUME Running(row'), ~strayed'
               PROVE  \/ Registered(service')
                      \/ \E q \in Req : Settling(q)'
                      \/ \E h \in Handler : Expiring(h)'
    BY DEF Watched, AlwaysWatched
  <2>1. CASE Registered(service') \/ Settling(r)'
    BY <2>1
  <2>2. CASE /\ Running(row) /\ ~strayed
             /\ Registered(service) => Registered(service')
             /\ ~Settling(r)
    <3>1. CASE Registered(service)
      BY <2>2, <3>1
    <3>2. CASE \E q \in Req : Settling(q)
      <4>1. PICK q \in Req : Settling(q)
        BY <3>2
      <4>2. q # r
        BY <2>2, <4>1
      <4>3. Settling(q)'
        BY <4>1, <4>2 DEF Moved, MovedAlone, Settling
      <4> QED
        BY <4>3
    <3>3. CASE \E h \in Handler : Expiring(h)
      BY <3>3 DEF Expiring, handlerVars
    <3> QED
      BY <2>2, <3>1, <3>2, <3>3 DEF IInv, Watched, AlwaysWatched
  <2> QED
    BY <2>1, <2>2 DEF Moved, MovedAlone
<1> QED
  BY <1>1, <1>2, <1>3 DEF IInv

-----------------------------------------------------------------------------
(* The requests *)

\* Every step of a Create is such a move.
LEMMA CreateMoves ==
    ASSUME IInv, NEW r \in Req, CreateStep(r)
    PROVE  Moved(r)
<1> USE DEF IInv
<1>1. CASE CreateInsert(r)
  <2>1. PICK type \in Types, start \in Times, end \in Times :
           LET new == InsertTimer(type, start, end) IN
           /\ ValidCreate(start, end)
           /\ \/ /\ row' = new
                 /\ pc' = [pc EXCEPT ![r] = "create.subscribe"]
                 /\ arg' = [arg EXCEPT ![r] = end]
                 /\ UNCHANGED <<faults, strayed>>
              \/ /\ Fault
                 /\ LostAnswers
                 /\ row' = new
                 /\ strayed' = TRUE
                 /\ UNCHANGED <<pc, arg>>
    BY <1>1 DEF CreateInsert
  <2>2. InsertTimer(type, start, end) \in Rows /\ end \in Int
    BY NewRows, TypesAssumption, BoundAssumption DEF Times
  <2>3. UNCHANGED <<cached, service, notices, snap>> /\ pc[r] = "idle"
    BY <1>1 DEF CreateInsert
  <2>4. CASE /\ row' = InsertTimer(type, start, end)
             /\ pc' = [pc EXCEPT ![r] = "create.subscribe"]
             /\ arg' = [arg EXCEPT ![r] = end]
             /\ UNCHANGED <<faults, strayed>>
    BY <2>2, <2>3, <2>4 DEF TypeOK, Labels, Moved, MovedAlone, Settling
  <2>5. CASE Fault /\ row' = InsertTimer(type, start, end) /\ strayed' = TRUE /\ UNCHANGED <<pc, arg>>
    BY <2>2, <2>3, <2>5 DEF TypeOK, Fault, Moved, MovedAlone
  <2> QED
    BY <2>1, <2>4, <2>5
<1>2. CASE CreateSubscribe(r)
  <2>1. CacheCall(r, TRUE, "create.add", "create.undoInsert")
    BY <1>2 DEF CreateSubscribe
  <2>2. MovedAlone(r) /\ pc'[r] \in {"create.add", "create.undoInsert"} /\ UNCHANGED strayed
    BY <2>1, CacheCallMoves DEF Labels
  <2> QED
    BY <2>2 DEF TypeOK, Moved, Settling
<1>3. CASE CreateAdd(r)
  <2> DEFINE accepted == AcceptsAdd(service, arg[r], clock)
  <2>1. ServiceCall(r, accepted, arg[r], "idle", "create.undoSubscribe") /\ UNCHANGED strayed
    BY <1>3 DEF CreateAdd
  <2>2. arg[r] \in Int /\ accepted \in BOOLEAN /\ (accepted => Registered(arg[r]))
    BY DEF TypeOK, AcceptsAdd, Registered, NoEntry
  <2> HIDE DEF accepted
  <2>3. /\ MovedAlone(r)
        /\ pc'[r] \in {"idle", "create.undoSubscribe"}
        /\ pc'[r] = "idle" => Registered(service')
    <3>1. "idle" \in Labels /\ "create.undoSubscribe" \in Labels /\ "idle" # "create.undoSubscribe"
      BY DEF Labels
    <3>2. arg[r] \in Entries
      BY <2>2 DEF Entries
    <3> QED
      BY <2>1, <2>2, <3>1, <3>2, ServiceCallMoves
  <2> QED
    BY <2>1, <2>3 DEF TypeOK, Moved, Settling
<1>4. CASE CreateUndoSubscribe(r)
  <2>1. CacheCall(r, FALSE, "create.undoInsert", "create.undoInsert")
    BY <1>4 DEF CreateUndoSubscribe
  <2>2. MovedAlone(r) /\ pc'[r] = "create.undoInsert" /\ UNCHANGED strayed
    BY <2>1, CacheCallMoves DEF Labels
  <2> QED
    BY <2>2 DEF TypeOK, Moved, Settling
<1>5. CASE CreateUndoInsert(r)
  <2>1. StorageCall(r, DeleteTimer(row), "idle", "idle") /\ strayed' = (strayed \/ Running(row'))
    BY <1>5 DEF CreateUndoInsert
  <2>2. DeleteTimer(row) \in Rows
    BY RowTypes DEF TypeOK
  <2>3. MovedAlone(r) /\ pc'[r] = "idle"
    BY <2>1, <2>2, StorageCallMoves DEF Labels
  <2>4. strayed' \in BOOLEAN
    BY <2>1 DEF TypeOK, Running, Live
  <2> QED
    BY <2>1, <2>3, <2>4 DEF Moved
<1> QED
  BY <1>1, <1>2, <1>3, <1>4, <1>5 DEF CreateStep

\* Every step of a Delete is such a move.
LEMMA DeleteMoves ==
    ASSUME IInv, NEW r \in Req, DeleteStep(r)
    PROVE  Moved(r)
<1> USE DEF IInv
<1>1. CASE DeleteRead(r)
  <2>1. /\ Live(row)
        /\ Begin(r, "Delete", IF row.paused THEN "delete.mark" ELSE "delete.remove", 0)
    BY <1>1 DEF DeleteRead
  <2>2. (IF row.paused THEN "delete.mark" ELSE "delete.remove") \in Labels
    BY DEF Labels
  <2>3. /\ MovedAlone(r) /\ pc[r] = "idle" /\ snap'[r] = row
        /\ pc'[r] = IF row.paused THEN "delete.mark" ELSE "delete.remove"
        /\ UNCHANGED <<row, service, strayed>>
    BY <2>1, <2>2, BeginMoves
  <2> QED
    BY <2>3 DEF TypeOK, Moved, Settling
<1>2. CASE DeleteRemove(r)
  <2>1. /\ pc[r] = "delete.remove"
        /\ ServiceCall(r, AcceptsRemove(service), NoEntry, "delete.mark", "delete.mark")
        /\ UNCHANGED strayed
    BY <1>2 DEF DeleteRemove
  <2>2. AcceptsRemove(service) \in BOOLEAN /\ NoEntry \in Entries
    BY DEF AcceptsRemove, Registered, NoEntry, Entries
  <2>3. ~snap[r].paused
    BY <2>1 DEF RemoveReadRunning
  <2>4. MovedAlone(r) /\ pc'[r] = "delete.mark" /\ snap' = snap
    BY <2>1, <2>2, ServiceCallMoves DEF Labels
  <2> QED
    BY <2>1, <2>3, <2>4 DEF TypeOK, Moved, Settling
<1>3. CASE DeleteMark(r)
  <2>1. /\ pc[r] = "delete.mark"
        /\ StorageCall(r, DeleteTimer(row), "delete.send", "idle")
        /\ strayed' = (strayed \/ (Failed /\ Running(row') /\ ~snap[r].paused))
    BY <1>3 DEF DeleteMark
  <2>2. DeleteTimer(row) \in Rows /\ ~Running(DeleteTimer(row))
    BY RowTypes, RowRunning DEF TypeOK
  <2>3. strayed' \in BOOLEAN
    BY <2>1 DEF TypeOK, Running, Live, Failed
  <2>4. /\ MovedAlone(r) /\ pc'[r] \in {"delete.send", "idle"}
        /\ service' = service
        /\ row' = DeleteTimer(row) \/ (row' = row /\ Failed)
    BY <2>1, <2>2, StorageCallMoves DEF Labels
  <2> QED
    BY <2>1, <2>2, <2>3, <2>4 DEF TypeOK, Moved, Settling
<1>4. CASE DeleteSend(r)
  <2>1. pc[r] = "delete.send" /\ notices' = notices + 1 /\ Goto(r, "idle")
        /\ UNCHANGED <<row, cached, service, faults, strayed>>
    BY <1>4 DEF DeleteSend
  <2> QED
    BY <2>1, GotoMoves DEF TypeOK, Labels, Moved, MovedAlone, Settling
<1> QED
  BY <1>1, <1>2, <1>3, <1>4 DEF DeleteStep

\* Every step of an Update is such a move.
LEMMA UpdateMoves ==
    ASSUME IInv, NEW r \in Req, UpdateStep(r)
    PROVE  Moved(r)
<1> USE DEF IInv
<1>1. CASE UpdateRead(r)
  <2>1. PICK new \in Times : Begin(r, "Update", "update.store", new)
    BY <1>1 DEF UpdateRead
  <2>2. new \in Int /\ "update.store" \in Labels
    BY BoundAssumption DEF Times, Labels
  <2>3. /\ MovedAlone(r) /\ pc[r] = "idle" /\ pc'[r] = "update.store"
        /\ UNCHANGED <<row, service, strayed>>
    BY <2>1, <2>2, BeginMoves
  <2> QED
    BY <2>3 DEF TypeOK, Moved, Settling
<1>2. CASE UpdateStore(r)
  <2> DEFINE ok == IF snap[r].paused THEN "idle" ELSE "update.service"
  <2>1. /\ pc[r] = "update.store"
        /\ StorageCall(r, UpdateTimer(row, arg[r]), ok, "idle")
        /\ UNCHANGED strayed
    BY <1>2 DEF UpdateStore
  <2>2. /\ UpdateTimer(row, arg[r]) \in Rows
        /\ Running(UpdateTimer(row, arg[r])) <=> Running(row)
    BY RowTypes, RowRunning DEF TypeOK
  <2>3. ok \in {"idle", "update.service"} /\ ok \in Labels
    BY DEF Labels
  <2> HIDE DEF ok
  <2>4. /\ MovedAlone(r) /\ pc'[r] \in {ok, "idle"} /\ service' = service
        /\ row' = UpdateTimer(row, arg[r]) \/ row' = row
    BY <2>1, <2>2, <2>3, StorageCallMoves DEF Labels
  <2> QED
    BY <2>1, <2>2, <2>3, <2>4 DEF TypeOK, Moved, Settling
<1>3. CASE UpdateService(r)
  <2> DEFINE accepted == AcceptsUpdate(service, arg[r], clock)
  <2>1. /\ pc[r] = "update.service"
        /\ ServiceCall(r, accepted, arg[r], "idle", "update.undo")
        /\ UNCHANGED strayed
    BY <1>3 DEF UpdateService
  <2>2. arg[r] \in Int /\ accepted \in BOOLEAN /\ (accepted => Registered(arg[r]))
    BY DEF TypeOK, AcceptsUpdate, Registered, NoEntry
  <2> HIDE DEF accepted
  <2>3. /\ MovedAlone(r) /\ pc'[r] \in {"idle", "update.undo"}
        /\ UNCHANGED row
        /\ service' = service \/ Registered(service')
    BY <2>1, <2>2, ServiceCallMoves DEF Labels, Entries
  <2> QED
    BY <2>1, <2>3 DEF TypeOK, Moved, Settling
<1>4. CASE UpdateUndo(r)
  <2>1. /\ pc[r] = "update.undo"
        /\ StorageCall(r, UpdateTimer(row, snap[r].end), "idle", "idle")
        /\ UNCHANGED strayed
    BY <1>4 DEF UpdateUndo
  <2>2. snap[r].end \in Int
    BY DEF TypeOK, Rows
  <2>3. /\ UpdateTimer(row, snap[r].end) \in Rows
        /\ Running(UpdateTimer(row, snap[r].end)) <=> Running(row)
    BY <2>2, RowTypes, RowRunning DEF TypeOK
  <2>4. /\ MovedAlone(r) /\ pc'[r] = "idle" /\ service' = service
        /\ row' = UpdateTimer(row, snap[r].end) \/ row' = row
    BY <2>1, <2>3, StorageCallMoves DEF Labels
  <2> QED
    BY <2>1, <2>3, <2>4 DEF TypeOK, Moved, Settling
<1> QED
  BY <1>1, <1>2, <1>3, <1>4 DEF UpdateStep

\* Every step of a Stop is such a move.
LEMMA StopMoves ==
    ASSUME IInv, NEW r \in Req, StopStep(r)
    PROVE  Moved(r)
<1> USE DEF IInv
<1>1. CASE StopRead(r)
  <2>1. PICK skew \in PauseSkew : Begin(r, "Stop", "stop.service", clock - skew)
    BY <1>1 DEF StopRead
  <2>2. clock - skew \in Int /\ "stop.service" \in Labels
    BY SkewAssumption DEF TypeOK, Labels
  <2>3. /\ MovedAlone(r) /\ pc[r] = "idle" /\ pc'[r] = "stop.service"
        /\ UNCHANGED <<row, service, strayed>>
    BY <2>1, <2>2, BeginMoves
  <2> QED
    BY <2>3 DEF TypeOK, Moved, Settling
<1>2. CASE StopService(r)
  <2>1. /\ pc[r] = "stop.service"
        /\ ServiceCall(r, AcceptsRemove(service), NoEntry, "stop.store", "idle")
        /\ strayed' = (strayed \/ (Failed /\ service' # service))
    BY <1>2 DEF StopService
  <2>2. AcceptsRemove(service) \in BOOLEAN /\ NoEntry \in Entries
    BY DEF AcceptsRemove, Registered, NoEntry, Entries
  <2>3. /\ MovedAlone(r) /\ UNCHANGED row
        /\ \/ pc'[r] = "stop.store"
           \/ pc'[r] = "idle" /\ (service' = service \/ Failed)
    BY <2>1, <2>2, ServiceCallMoves DEF Labels
  <2>4. strayed' \in BOOLEAN
    BY <2>1 DEF TypeOK, Failed
  <2> QED
    BY <2>1, <2>3, <2>4 DEF TypeOK, Moved, Settling
<1>3. CASE StopStore(r)
  <2>1. /\ pc[r] = "stop.store"
        /\ StorageCall(r, UpdatePauseTime(row, arg[r], TRUE), "idle", "stop.undo")
        /\ UNCHANGED strayed
    BY <1>3 DEF StopStore
  <2>2. /\ UpdatePauseTime(row, arg[r], TRUE) \in Rows
        /\ ~Running(UpdatePauseTime(row, arg[r], TRUE))
    BY RowTypes, RowRunning DEF TypeOK
  <2>3. /\ MovedAlone(r)
        /\ \/ pc'[r] = "idle" /\ row' = UpdatePauseTime(row, arg[r], TRUE)
           \/ pc'[r] = "stop.undo"
    BY <2>1, <2>2, StorageCallMoves DEF Labels
  <2> QED
    BY <2>1, <2>2, <2>3 DEF TypeOK, Moved, Settling
<1>4. CASE StopUndo(r)
  <2> DEFINE accepted == AcceptsAdd(service, snap[r].end, clock)
  <2>1. /\ ServiceCall(r, accepted, snap[r].end, "idle", "idle")
        /\ strayed' = (strayed \/ (Running(row) /\ ~Registered(service')))
    BY <1>4 DEF StopUndo
  <2>2. snap[r].end \in Entries /\ accepted \in BOOLEAN
    BY DEF TypeOK, Rows, Entries, AcceptsAdd, Registered
  <2> HIDE DEF accepted
  <2>3. MovedAlone(r) /\ pc'[r] = "idle" /\ UNCHANGED row
    BY <2>1, <2>2, ServiceCallMoves DEF Labels
  <2>4. strayed' \in BOOLEAN
    BY <2>1 DEF TypeOK, Running, Live, Registered
  <2> QED
    BY <2>1, <2>3, <2>4 DEF Moved
<1> QED
  BY <1>1, <1>2, <1>3, <1>4 DEF StopStep

\* Every step of a Start is such a move.
LEMMA StartMoves ==
    ASSUME IInv, NEW r \in Req, StartStep(r)
    PROVE  Moved(r)
<1> USE DEF IInv
<1> snap[r].end \in Int /\ snap[r].pauseTime \in Int /\ arg[r] \in Int /\ ZeroTime \in Int
  BY DEF TypeOK, Rows, ZeroTime
<1>1. CASE StartRead(r)
  <2> DEFINE end == row.end + (clock - row.pauseTime)
  <2>1. Begin(r, "Start", "start.time", end)
    BY <1>1 DEF StartRead
  <2>2. end \in Int /\ "start.time" \in Labels
    BY DEF TypeOK, Rows, Labels
  <2> HIDE DEF end
  <2>3. /\ MovedAlone(r) /\ pc[r] = "idle" /\ pc'[r] = "start.time"
        /\ UNCHANGED <<row, service, strayed>>
    BY <2>1, <2>2, BeginMoves
  <2> QED
    BY <2>3 DEF TypeOK, Moved, Settling
<1>2. CASE StartTime(r)
  <2>1. /\ pc[r] = "start.time"
        /\ StorageCall(r, UpdateTime(row, arg[r]), "start.pause", "idle")
        /\ UNCHANGED strayed
    BY <1>2 DEF StartTime
  <2>2. /\ UpdateTime(row, arg[r]) \in Rows
        /\ Running(UpdateTime(row, arg[r])) <=> Running(row)
    BY RowTypes, RowRunning DEF TypeOK
  <2>3. /\ MovedAlone(r) /\ pc'[r] \in {"start.pause", "idle"} /\ service' = service
        /\ row' = UpdateTime(row, arg[r]) \/ row' = row
    BY <2>1, <2>2, StorageCallMoves DEF Labels
  <2> QED
    BY <2>1, <2>2, <2>3 DEF TypeOK, Moved, Settling
<1>3. CASE StartPause(r)
  <2>1. /\ pc[r] = "start.pause"
        /\ StorageCall(r, UpdatePauseTime(row, ZeroTime, FALSE), "start.service", "start.undoTime")
        /\ strayed' = (strayed \/ (Failed /\ Running(row') /\ ~Running(row)))
    BY <1>3 DEF StartPause
  <2>2. UpdatePauseTime(row, ZeroTime, FALSE) \in Rows
    BY RowTypes DEF TypeOK
  <2>3. /\ MovedAlone(r) /\ service' = service
        /\ pc'[r] = "start.service" \/ (pc'[r] = "start.undoTime" /\ Failed)
    BY <2>1, <2>2, StorageCallMoves DEF Labels
  <2>4. strayed' \in BOOLEAN
    BY <2>1 DEF TypeOK, Running, Live, Failed
  <2> QED
    BY <2>1, <2>3, <2>4 DEF TypeOK, Moved, Settling
<1>4. CASE StartService(r)
  <2> DEFINE accepted == AcceptsAdd(service, arg[r], clock)
  <2>1. /\ ServiceCall(r, accepted, arg[r], "idle", "start.undoPause")
        /\ strayed' = (strayed /\ ~Registered(service'))
    BY <1>4 DEF StartService
  <2>2. arg[r] \in Int /\ accepted \in BOOLEAN /\ (accepted => Registered(arg[r]))
    BY DEF TypeOK, AcceptsAdd, Registered, NoEntry
  <2> HIDE DEF accepted
  <2>3. /\ MovedAlone(r) /\ pc'[r] \in {"idle", "start.undoPause"}
        /\ pc'[r] = "idle" => Registered(service')
    BY <2>1, <2>2, ServiceCallMoves DEF Labels, Entries
  <2>4. strayed' \in BOOLEAN
    BY <2>1 DEF TypeOK, Registered
  <2> QED
    BY <2>3, <2>4 DEF Moved, Settling
<1>5. CASE StartUndoPause(r)
  <2> DEFINE new == UpdatePauseTime(row, snap[r].pauseTime, TRUE)
  <2>1. /\ StorageCall(r, new, "start.undoTime", "start.undoTime")
        /\ strayed' = (strayed \/ Running(row'))
    BY <1>5 DEF StartUndoPause
  <2>2. new \in Rows
    BY RowTypes DEF TypeOK
  <2> HIDE DEF new
  <2>3. MovedAlone(r) /\ pc'[r] = "start.undoTime"
    BY <2>1, <2>2, StorageCallMoves DEF Labels
  <2>4. strayed' \in BOOLEAN
    BY <2>1 DEF TypeOK, Running, Live
  <2> QED
    BY <2>1, <2>3, <2>4 DEF Moved
<1>6. CASE StartUndoTime(r)
  <2>1. /\ pc[r] = "start.undoTime"
        /\ StorageCall(r, UpdateTime(row, snap[r].end), "idle", "idle")
        /\ UNCHANGED strayed
    BY <1>6 DEF StartUndoTime
  <2>2. /\ UpdateTime(row, snap[r].end) \in Rows
        /\ Running(UpdateTime(row, snap[r].end)) <=> Running(row)
    BY RowTypes, RowRunning DEF TypeOK
  <2>3. /\ MovedAlone(r) /\ pc'[r] = "idle" /\ service' = service
        /\ row' = UpdateTime(row, snap[r].end) \/ row' = row
    BY <2>1, <2>2, StorageCallMoves DEF Labels
  <2> QED
    BY <2>1, <2>2, <2>3 DEF TypeOK, Moved, Settling
<1> QED
  BY <1>1, <1>2, <1>3, <1>4, <1>5, <1>6 DEF StartStep

\* Every step of a Reset is such a move.
LEMMA ResetMoves ==
    ASSUME IInv, NEW r \in Req, ResetStep(r)
    PROVE  Moved(r)
<1> USE DEF IInv
<1> /\ snap[r].end \in Int /\ snap[r].duration \in Int /\ arg[r] \in Int
    /\ arg[r] - snap[r].duration \in Int
  BY DEF TypeOK, Rows
<1>1. CASE ResetRead(r)
  <2> DEFINE end == clock + row.duration
  <2>1. Begin(r, "Reset", "reset.time", end)
    BY <1>1 DEF ResetRead
  <2>2. end \in Int /\ "reset.time" \in Labels
    BY DEF TypeOK, Rows, Labels
  <2> HIDE DEF end
  <2>3. /\ MovedAlone(r) /\ pc[r] = "idle" /\ pc'[r] = "reset.time"
        /\ UNCHANGED <<row, service, strayed>>
    BY <2>1, <2>2, BeginMoves
  <2> QED
    BY <2>3 DEF TypeOK, Moved, Settling
<1>2. CASE ResetTime(r)
  <2> DEFINE ok == IF snap[r].paused THEN "reset.pause" ELSE "idle"
  <2>1. /\ pc[r] = "reset.time"
        /\ StorageCall(r, UpdateTime(row, arg[r]), ok, "idle")
        /\ UNCHANGED strayed
    BY <1>2 DEF ResetTime
  <2>2. /\ UpdateTime(row, arg[r]) \in Rows
        /\ Running(UpdateTime(row, arg[r])) <=> Running(row)
    BY RowTypes, RowRunning DEF TypeOK
  <2>3. ok \in {"idle", "reset.pause"} /\ ok \in Labels
    BY DEF Labels
  <2> HIDE DEF ok
  <2>4. /\ MovedAlone(r) /\ pc'[r] \in {ok, "idle"} /\ service' = service
        /\ row' = UpdateTime(row, arg[r]) \/ row' = row
    BY <2>1, <2>2, <2>3, StorageCallMoves DEF Labels
  <2> QED
    BY <2>1, <2>2, <2>3, <2>4 DEF TypeOK, Moved, Settling
<1>3. CASE ResetPause(r)
  <2> DEFINE new == UpdatePauseTime(row, arg[r] - snap[r].duration, TRUE)
  <2>1. /\ pc[r] = "reset.pause"
        /\ StorageCall(r, new, "idle", "reset.undo")
        /\ UNCHANGED strayed
    BY <1>3 DEF ResetPause
  <2>2. new \in Rows /\ ~Running(new)
    BY RowTypes, RowRunning DEF TypeOK
  <2> HIDE DEF new
  <2>3. /\ MovedAlone(r) /\ pc'[r] \in {"idle", "reset.undo"} /\ service' = service
        /\ row' = new \/ row' = row
    BY <2>1, <2>2, StorageCallMoves DEF Labels
  <2> QED
    BY <2>1, <2>2, <2>3 DEF TypeOK, Moved, Settling
<1>4. CASE ResetUndo(r)
  <2>1. /\ pc[r] = "reset.undo"
        /\ StorageCall(r, UpdateTime(row, snap[r].end), "idle", "idle")
        /\ UNCHANGED strayed
    BY <1>4 DEF ResetUndo
  <2>2. /\ UpdateTime(row, snap[r].end) \in Rows
        /\ Running(UpdateTime(row, snap[r].end)) <=> Running(row)
    BY RowTypes, RowRunning DEF TypeOK
  <2>3. /\ MovedAlone(r) /\ pc'[r] = "idle" /\ service' = service
        /\ row' = UpdateTime(row, snap[r].end) \/ row' = row
    BY <2>1, <2>2, StorageCallMoves DEF Labels
  <2> QED
    BY <2>1, <2>2, <2>3 DEF TypeOK, Moved, Settling
<1> QED
  BY <1>1, <1>2, <1>3, <1>4 DEF ResetStep
\* A step of a request keeps the invariant.
LEMMA RequestPreserves ==
    ASSUME IInv, NEW r \in Req, RequestStep(r)
    PROVE  IInv'
<1>1. Moved(r)
  BY CreateMoves, DeleteMoves, UpdateMoves, StopMoves, StartMoves, ResetMoves DEF RequestStep
<1>2. UNCHANGED <<handlerVars, worldVars>>
  BY DEF RequestStep
<1> QED
  BY <1>1, <1>2, MovedPreserves

-----------------------------------------------------------------------------
(* Ticks, expiry handlers, notifications, restarts and the clock *)

\* A tick either starts a handler or is noted as lost.
LEMMA FirePreserves ==
    ASSUME IInv, Fire
    PROVE  IInv'
<1> USE DEF IInv
<1>1. /\ UNCHANGED <<row, cached, pc, snap, arg, hsnap, notices, clock, up, crashes, faults>>
      /\ service' = NoEntry
  BY DEF Fire, requestVars, worldVars
<1>2. RemoveReadRunning'
  BY <1>1 DEF RemoveReadRunning
<1>3. CASE /\ \E h \in Handler : hpc[h] = "idle" /\ hpc' = [hpc EXCEPT ![h] = "tick"]
           /\ UNCHANGED strayed
  <2>1. PICK h \in Handler : hpc' = [hpc EXCEPT ![h] = "tick"]
    BY <1>3
  <2>2. hpc' \in [Handler -> HandlerLabels] /\ Expiring(h)'
    BY <2>1 DEF TypeOK, HandlerLabels, Expiring
  <2>3. TypeOK'
    BY <1>1, <1>3, <2>2 DEF TypeOK, NoEntry, Entries
  <2>4. Watched'
    BY <2>2 DEF Watched, AlwaysWatched
  <2> QED
    BY <1>2, <2>3, <2>4
<1>4. CASE strayed' = (strayed \/ Running(row)) /\ UNCHANGED hpc
  <2>1. TypeOK'
    BY <1>1, <1>4 DEF TypeOK, NoEntry, Entries, Running, Live
  <2>2. Watched'
    BY <1>1, <1>4 DEF Watched, AlwaysWatched
  <2> QED
    BY <1>2, <2>1, <2>2
<1> QED
  BY <1>3, <1>4 DEF Fire

\* What clearExpiredTimer writes is a timer that does not run.
LEMMA ClearedStops ==
    ASSUME NEW t \in Rows, NEW read \in Rows
    PROVE  Cleared(t, read) \in Rows /\ ~Running(Cleared(t, read))
<1>1. read.end - read.duration \in Int
  BY DEF Rows
<1> QED
  BY <1>1, RowTypes, RowRunning DEF Cleared

\* A handler that goes on changes its own two variables.
LEMMA HandlerGotoMoves ==
    ASSUME TypeOK, NEW h \in Handler, NEW label \in HandlerLabels, NEW t \in Rows,
           HandlerGoto(h, label, t)
    PROVE  /\ hpc' \in [Handler -> HandlerLabels] /\ hsnap' \in [Handler -> Rows]
           /\ hpc'[h] = label
           /\ \A g \in Handler : g # h => hpc'[g] = hpc[g]
  BY DEF TypeOK, HandlerGoto

\* A handler's step keeps the invariant: it does not end before the timer is
\* paused or deleted, or before a failure has been noted.
LEMMA HandlerPreserves ==
    ASSUME IInv, NEW h \in Handler, HandlerStep(h)
    PROVE  IInv'
<1> USE DEF IInv
<1>1. UNCHANGED <<pc, snap, arg, clock, up, crashes>>
  BY DEF HandlerStep, requestVars, worldVars
<1>2. RemoveReadRunning'
  BY <1>1 DEF RemoveReadRunning
<1>3. CASE ExpiredRead(h)
  <2>1. UNCHANGED <<row, cached, service, notices>> /\ row \in Rows
    BY <1>3 DEF ExpiredRead, TypeOK
  <2>2. \/ HandlerGoto(h, "clear", row) /\ UNCHANGED <<faults, strayed>>
        \/ ~Live(row) /\ HandlerGoto(h, "idle", NoRow) /\ UNCHANGED <<faults, strayed>>
        \/ /\ HandlerGoto(h, "idle", NoRow)
           /\ faults' = faults + 1
           /\ strayed' = (strayed \/ Running(row))
    BY <1>3 DEF ExpiredRead, Fault
  <2>3. /\ hpc' \in [Handler -> HandlerLabels] /\ hsnap' \in [Handler -> Rows]
        /\ hpc'[h] = "clear" \/ ~Running(row') \/ strayed'
    BY <2>1, <2>2, NewRows, HandlerGotoMoves DEF HandlerLabels, Running
  <2>4. faults' \in Nat
    BY <2>2 DEF TypeOK
  <2>5. strayed' \in BOOLEAN
    BY <2>2 DEF TypeOK, Running, Live
  <2>6. TypeOK'
    BY <1>1, <2>1, <2>3, <2>4, <2>5 DEF TypeOK
  <2>7. Watched'
    BY <2>3 DEF Watched, AlwaysWatched, Expiring
  <2> QED
    BY <1>2, <2>6, <2>7
<1>4. CASE ExpiredClear(h)
  <2> DEFINE new == Cleared(row, hsnap[h])
  <2>1. new \in Rows /\ ~Running(new)
    BY ClearedStops DEF TypeOK
  <2> HIDE DEF new
  <2>2. /\ HandlerGoto(h, "uncache", NoRow) \/ HandlerGoto(h, "idle", NoRow)
        /\ \/ row' = new /\ UNCHANGED <<faults, strayed>>
           \/ /\ row' \in {row, new}
              /\ faults' = faults + 1
              /\ strayed' = (strayed \/ Running(row'))
        /\ UNCHANGED <<cached, service, notices>>
    BY <1>4 DEF ExpiredClear, new, Fault, Outcomes
  <2>3. hpc' \in [Handler -> HandlerLabels] /\ hsnap' \in [Handler -> Rows]
    BY <2>2, NewRows, HandlerGotoMoves DEF HandlerLabels
  <2>4. faults' \in Nat
    BY <2>2 DEF TypeOK
  <2>5. strayed' \in BOOLEAN /\ row' \in Rows
    BY <2>1, <2>2 DEF TypeOK, Running, Live
  <2>6. TypeOK'
    BY <1>1, <2>2, <2>3, <2>4, <2>5 DEF TypeOK
  <2>7. Watched'
    BY <2>1, <2>2 DEF Watched, AlwaysWatched
  <2> QED
    BY <1>2, <2>6, <2>7
<1>5. CASE ExpiredUncache(h)
  <2>1. /\ hpc[h] = "uncache"
        /\ HandlerGoto(h, "idle", NoRow)
        /\ cached' \in {FALSE, cached} /\ faults' \in {faults, faults + 1}
        /\ UNCHANGED <<row, service, notices, strayed>>
    BY <1>5 DEF ExpiredUncache, Fault, Outcomes
  <2>2. /\ hpc' \in [Handler -> HandlerLabels] /\ hsnap' \in [Handler -> Rows]
        /\ \A g \in Handler : g # h => hpc'[g] = hpc[g]
    BY <2>1, NewRows, HandlerGotoMoves DEF HandlerLabels
  <2>3. TypeOK'
    <3>1. faults' \in Nat
      BY <2>1 DEF TypeOK
    <3>2. cached' \in BOOLEAN
      BY <2>1 DEF TypeOK
    <3> QED
      BY <1>1, <2>1, <2>2, <3>1, <3>2 DEF TypeOK
  <2>4. \A g \in Handler : Expiring(g) => Expiring(g)'
    BY <2>1, <2>2 DEF Expiring
  <2>5. \A q \in Req : Settling(q) => Settling(q)'
    BY <1>1 DEF Settling
  <2>6. Watched'
    BY <2>1, <2>4, <2>5 DEF Watched, AlwaysWatched
  <2> QED
    BY <1>2, <2>3, <2>6
<1> QED
  BY <1>3, <1>4, <1>5 DEF HandlerStep

\* Handling a delete notification touches the cache alone.
LEMMA TimerDeletePreserves ==
    ASSUME IInv, TimerDelete
    PROVE  IInv'
<1> USE DEF IInv
<1>1. /\ UNCHANGED <<row, service, pc, snap, arg, hpc, hsnap, clock, up, crashes, strayed>>
      /\ notices > 0 /\ notices' = notices - 1
      /\ cached' \in {FALSE, cached} /\ faults' \in {faults, faults + 1}
  BY DEF TimerDelete, requestVars, handlerVars, worldVars, Fault, Outcomes
<1>2. TypeOK'
  <2>1. faults' \in Nat /\ notices' \in Nat
    BY <1>1 DEF TypeOK
  <2>2. cached' \in BOOLEAN
    BY <1>1 DEF TypeOK
  <2> QED
    BY <1>1, <2>1, <2>2 DEF TypeOK
<1>3. RemoveReadRunning' /\ Watched'
  BY <1>1 DEF RemoveReadRunning, Watched, AlwaysWatched, Settling, Expiring
<1> QED
  BY <1>2, <1>3

\* A crash ends every request and handler; what that leaves unwatched is noted.
LEMMA CrashPreserves ==
    ASSUME IInv, Crash
    PROVE  IInv'
<1> USE DEF IInv
<1>1. TypeOK'
  <2>1. strayed' \in BOOLEAN
    BY DEF Crash, TypeOK, Running, Live, Registered
  <2>2. /\ pc' \in [Req -> Labels] /\ snap' \in [Req -> Rows] /\ arg' \in [Req -> Int]
        /\ hpc' \in [Handler -> HandlerLabels] /\ hsnap' \in [Handler -> Rows]
    BY NewRows DEF Crash, Labels, HandlerLabels
  <2>3. crashes' \in Nat /\ notices' \in Nat
    BY DEF Crash, TypeOK
  <2> QED
    BY <2>1, <2>2, <2>3 DEF Crash, TypeOK
<1>2. RemoveReadRunning'
  BY DEF Crash, RemoveReadRunning
<1>3. Watched'
  BY DEF Crash, Watched, AlwaysWatched, Running, Live, Registered
<1> QED
  BY <1>1, <1>2, <1>3

\* Invoke never removes an entry.
LEMMA RestartPreserves ==
    ASSUME IInv, Restart
    PROVE  IInv'
<1> USE DEF IInv
<1> DEFINE put == IF Live(row) /\ row.end > clock THEN row.end ELSE service
<1>1. /\ UNCHANGED <<row, pc, snap, arg, hpc, hsnap, notices, clock, crashes>>
      /\ up' = TRUE
      /\ service' \in {service, put}
      /\ cached' \in {cached, cached \/ Live(row)}
      /\ faults' \in {faults, faults + 1}
      /\ strayed' = (strayed /\ ~Registered(service'))
  BY DEF Restart, requestVars, handlerVars, Fault
<1>2. put \in Entries /\ (Registered(service) => Registered(put))
  BY DEF TypeOK, Rows, Entries, Registered, NoEntry
<1> HIDE DEF put
<1>3. TypeOK'
  <2>1. faults' \in Nat /\ service' \in Entries
    BY <1>1, <1>2 DEF TypeOK
  <2>2. cached' \in BOOLEAN /\ strayed' \in BOOLEAN
    BY <1>1 DEF TypeOK, Registered, Live
  <2> QED
    BY <1>1, <2>1, <2>2 DEF TypeOK
<1>4. RemoveReadRunning'
  BY <1>1 DEF RemoveReadRunning
<1>5. Watched'
  BY <1>1, <1>2 DEF Watched, AlwaysWatched, Settling, Expiring
<1> QED
  BY <1>3, <1>4, <1>5

-----------------------------------------------------------------------------
(* The theorems *)

\* Nothing is there at first: no timer runs.
LEMMA InitInvariant == Init => IInv
<1> SUFFICES ASSUME Init PROVE IInv
  OBVIOUS
<1>1. TypeOK
  <2>1. /\ pc \in [Req -> Labels] /\ snap \in [Req -> Rows] /\ arg \in [Req -> Int]
        /\ hpc \in [Handler -> HandlerLabels] /\ hsnap \in [Handler -> Rows]
    BY NewRows DEF Init, Labels, HandlerLabels
  <2>2. service \in Entries
    BY DEF Init, Entries, NoEntry
  <2> QED
    BY <2>1, <2>2, NewRows DEF Init, TypeOK
<1>2. RemoveReadRunning /\ Watched
  BY DEF Init, RemoveReadRunning, Watched, AlwaysWatched, Running, Live, NoRow
<1> QED
  BY <1>1, <1>2 DEF IInv

\* Every step keeps the invariant.
LEMMA NextInvariant == IInv /\ [Next]_vars => IInv'
<1> SUFFICES ASSUME IInv, [Next]_vars PROVE IInv'
  OBVIOUS
<1>1. CASE \E r \in Req : RequestStep(r)
  BY <1>1, RequestPreserves
<1>2. CASE Fire
  BY <1>2, FirePreserves
<1>3. CASE \E h \in Handler : HandlerStep(h)
  BY <1>3, HandlerPreserves
<1>4. CASE TimerDelete
  BY <1>4, TimerDeletePreserves
<1>5. CASE Crash
  BY <1>5, CrashPreserves
<1>6. CASE Restart
  BY <1>6, RestartPreserves
<1>7. CASE Clock
  <2>1. TypeOK'
    BY <1>7 DEF IInv, TypeOK, Clock, requestVars, handlerVars
  <2>2. RemoveReadRunning' /\ Watched'
    BY <1>7 DEF IInv, RemoveReadRunning, Watched, AlwaysWatched, Settling, Expiring, Clock, requestVars, handlerVars
  <2> QED
    BY <2>1, <2>2 DEF IInv
<1>8. CASE UNCHANGED vars
  <2>1. TypeOK'
    BY <1>8 DEF IInv, TypeOK, vars, requestVars, handlerVars, worldVars
  <2>2. RemoveReadRunning' /\ Watched'
    BY <1>8 DEF IInv, RemoveReadRunning, Watched, AlwaysWatched, Settling, Expiring,
                vars, requestVars, handlerVars, worldVars
  <2> QED
    BY <2>1, <2>2 DEF IInv
<1> QED
  BY <1>1, <1>2, <1>3, <1>4, <1>5, <1>6, <1>7, <1>8 DEF Next

\* The invariant holds in every reachable state.
THEOREM Invariance == Spec => []IInv
  BY InitInvariant, NextInvariant, PTL DEF Spec

\* Every variable keeps its type, for any number of requests and handlers.
THEOREM TypeCorrect == Spec => []TypeOK
<1>1. IInv => TypeOK
  BY DEF IInv
<1> QED
  BY <1>1, Invariance, PTL

\* However many requests of the creator and ticks interleave, with failing
\* calls, lost answers and restarts, a running timer has an entry in the timer
\* service or somebody on the way to settle it, unless one of the failures that
\* the sagas do not compensate is noted in strayed.
THEOREM RunningIsWatched == Spec => []Watched
<1>1. IInv => Watched
  BY DEF IInv
<1> QED
  BY <1>1, Invariance, PTL

-----------------------------------------------------------------------------
(* Without failures and restarts nothing is ever noted in strayed *)

\* Nothing has failed, the application runs and no Stop is being undone.
Clean == /\ ~strayed
         /\ up
         /\ \A r \in Req : pc[r] # "stop.undo"

\* Request r has moved alone, not to the compensation of a Stop, and strayed
\* has stayed FALSE.
KeptClean(r) ==
    /\ ~strayed'
    /\ pc'[r] # "stop.undo"
    /\ \A q \in Req : q # r => pc'[q] = pc[q]

\* What remains of the calls when none of them fails.
LEMMA CallsSucceed ==
    ASSUME TypeOK, MaxFaults = 0, NEW r \in Req
    PROVE  /\ ~Fault
           /\ \A label : Goto(r, label) =>
                  /\ pc'[r] = label
                  /\ \A q \in Req : q # r => pc'[q] = pc[q]
           /\ \A op, label, time : Begin(r, op, label, time) =>
                  /\ pc'[r] = label
                  /\ \A q \in Req : q # r => pc'[q] = pc[q]
                  /\ UNCHANGED strayed
           /\ \A new, ok, err : StorageCall(r, new, ok, err) => row' = new /\ Goto(r, ok) /\ ~Failed
           /\ \A accepted, new, ok, err : ServiceCall(r, accepted, new, ok, err) =>
                  (Goto(r, ok) \/ Goto(r, err)) /\ ~Failed
<1>1. ~Fault
  BY DEF Fault, TypeOK
<1>2. \A label : Goto(r, label) => pc'[r] = label /\ \A q \in Req : q # r => pc'[q] = pc[q]
  BY DEF Goto, TypeOK
<1>3. \A op, label, time : Begin(r, op, label, time) =>
          /\ pc'[r] = label
          /\ \A q \in Req : q # r => pc'[q] = pc[q]
          /\ UNCHANGED strayed
  BY DEF Begin, TypeOK
<1>4. \A new, ok, err : StorageCall(r, new, ok, err) => row' = new /\ Goto(r, ok) /\ ~Failed
  BY <1>1 DEF StorageCall, Failed
<1>5. \A accepted, new, ok, err : ServiceCall(r, accepted, new, ok, err) =>
          (Goto(r, ok) \/ Goto(r, err)) /\ ~Failed
  BY <1>1 DEF ServiceCall, Failed
<1> QED
  BY <1>1, <1>2, <1>3, <1>4, <1>5

\* A request that no call of fails strays no timer.
LEMMA RequestKeepsClean ==
    ASSUME TypeOK, Clean, MaxFaults = 0, NEW r \in Req, RequestStep(r)
    PROVE  Clean'
<1> USE DEF KeptClean
<1>0. ~Fault
  BY CallsSucceed
<1>1. ~strayed /\ up' /\ pc[r] # "stop.undo"
  BY DEF RequestStep, worldVars, Clean
<1> SUFFICES KeptClean(r)
  BY <1>1 DEF Clean
<1>2. CASE CreateStep(r)
  <2>1. CASE CreateInsert(r)
    BY <1>1, <2>1, CallsSucceed DEF CreateInsert, TypeOK
  <2>2. CASE CreateSubscribe(r)
    <3>1. Goto(r, "create.add") /\ UNCHANGED strayed
      BY <1>0, <2>2 DEF CreateSubscribe, CacheCall
    <3> QED
      BY <1>1, <3>1, CallsSucceed
  <2>3. CASE CreateAdd(r)
    BY <1>1, <2>3, CallsSucceed DEF CreateAdd
  <2>4. CASE CreateUndoSubscribe(r)
    <3>1. Goto(r, "create.undoInsert") /\ UNCHANGED strayed
      BY <1>0, <2>4 DEF CreateUndoSubscribe, CacheCall
    <3> QED
      BY <1>1, <3>1, CallsSucceed
  <2>5. CASE CreateUndoInsert(r)
    <3>1. /\ row' = DeleteTimer(row) /\ Goto(r, "idle")
          /\ strayed' = (strayed \/ Running(row'))
      BY <1>0, <2>5 DEF CreateUndoInsert, StorageCall
    <3>2. ~Running(row')
      BY <3>1, RowRunning DEF TypeOK
    <3>3. ~strayed'
      BY <1>1, <3>1, <3>2, Zenon
    <3> QED
      BY <3>1, <3>3, CallsSucceed
  <2> QED
    BY <1>2, <2>1, <2>2, <2>3, <2>4, <2>5 DEF CreateStep
<1>3. CASE DeleteStep(r)
  <2>1. CASE DeleteRead(r)
    <3>1. (IF row.paused THEN "delete.mark" ELSE "delete.remove") # "stop.undo"
      OBVIOUS
    <3> QED
      BY <1>1, <2>1, <3>1, CallsSucceed DEF DeleteRead
  <2>2. CASE DeleteRemove(r)
    BY <1>1, <2>2, CallsSucceed DEF DeleteRemove
  <2>3. CASE DeleteMark(r)
    <3>1. /\ Goto(r, "delete.send") /\ ~Failed
          /\ strayed' = (strayed \/ (Failed /\ Running(row') /\ ~snap[r].paused))
      BY <1>0, <2>3 DEF DeleteMark, StorageCall, Failed
    <3>2. ~strayed'
      BY <1>1, <3>1, Zenon
    <3> QED
      BY <3>1, <3>2, CallsSucceed
  <2>4. CASE DeleteSend(r)
    BY <1>1, <2>4, CallsSucceed DEF DeleteSend
  <2> QED
    BY <1>3, <2>1, <2>2, <2>3, <2>4 DEF DeleteStep
<1>4. CASE UpdateStep(r)
  <2>1. CASE UpdateRead(r)
    BY <1>1, <2>1, CallsSucceed DEF UpdateRead
  <2>2. CASE UpdateStore(r)
    <3>1. (IF snap[r].paused THEN "idle" ELSE "update.service") # "stop.undo"
      OBVIOUS
    <3> QED
      BY <1>1, <2>2, <3>1, CallsSucceed DEF UpdateStore
  <2>3. CASE UpdateService(r)
    BY <1>1, <2>3, CallsSucceed DEF UpdateService
  <2>4. CASE UpdateUndo(r)
    BY <1>1, <2>4, CallsSucceed DEF UpdateUndo
  <2> QED
    BY <1>4, <2>1, <2>2, <2>3, <2>4 DEF UpdateStep
<1>5. CASE StopStep(r)
  <2>1. CASE StopRead(r)
    BY <1>1, <2>1, CallsSucceed DEF StopRead
  <2>2. CASE StopService(r)
    <3>1. /\ Goto(r, "stop.store") \/ Goto(r, "idle")
          /\ ~Failed
          /\ strayed' = (strayed \/ (Failed /\ service' # service))
      BY <1>0, <2>2 DEF StopService, ServiceCall, Failed
    <3>2. ~strayed'
      BY <1>1, <3>1, Zenon
    <3> QED
      BY <3>1, <3>2, CallsSucceed
  <2>3. CASE StopStore(r)
    <3>1. Goto(r, "idle") /\ UNCHANGED strayed
      BY <1>0, <2>3 DEF StopStore, StorageCall
    <3> QED
      BY <1>1, <3>1, CallsSucceed
  <2> QED
    BY <1>1, <1>5, <2>1, <2>2, <2>3 DEF StopStep, StopUndo
<1>6. CASE StartStep(r)
  <2>1. CASE StartRead(r)
    BY <1>1, <2>1, CallsSucceed DEF StartRead
  <2>2. CASE StartTime(r)
    BY <1>1, <2>2, CallsSucceed DEF StartTime
  <2>3. CASE StartPause(r)
    <3>1. /\ Goto(r, "start.service") /\ ~Failed
          /\ strayed' = (strayed \/ (Failed /\ Running(row') /\ ~Running(row)))
      BY <1>0, <2>3 DEF StartPause, StorageCall, Failed
    <3>2. ~strayed'
      BY <1>1, <3>1, Zenon
    <3> QED
      BY <3>1, <3>2, CallsSucceed
  <2>4. CASE StartService(r)
    <3>1. /\ Goto(r, "idle") \/ Goto(r, "start.undoPause")
          /\ strayed' = (strayed /\ ~Registered(service'))
      BY <1>0, <2>4 DEF StartService, ServiceCall
    <3>2. ~strayed'
      BY <1>1, <3>1, Zenon
    <3> QED
      BY <3>1, <3>2, CallsSucceed
  <2>5. CASE StartUndoPause(r)
    <3>1. snap[r].pauseTime \in Int
      BY DEF TypeOK, Rows
    <3>2. /\ row' = UpdatePauseTime(row, snap[r].pauseTime, TRUE)
          /\ Goto(r, "start.undoTime")
          /\ strayed' = (strayed \/ Running(row'))
      BY <1>0, <2>5 DEF StartUndoPause, StorageCall
    <3>3. ~Running(row')
      BY <3>1, <3>2, RowRunning DEF TypeOK
    <3>4. ~strayed'
      BY <1>1, <3>2, <3>3, Zenon
    <3>5. Goto(r, "start.undoTime")
      BY <3>2
    <3> QED
      BY <3>4, <3>5, CallsSucceed
  <2>6. CASE StartUndoTime(r)
    BY <1>1, <2>6, CallsSucceed DEF StartUndoTime
  <2> QED
    BY <1>6, <2>1, <2>2, <2>3, <2>4, <2>5, <2>6 DEF StartStep
<1>7. CASE ResetStep(r)
  <2>1. CASE ResetRead(r)
    BY <1>1, <2>1, CallsSucceed DEF ResetRead
  <2>2. CASE ResetTime(r)
    <3>1. (IF snap[r].paused THEN "reset.pause" ELSE "idle") # "stop.undo"
      OBVIOUS
    <3> QED
      BY <1>1, <2>2, <3>1, CallsSucceed DEF ResetTime
  <2>3. CASE ResetPause(r)
    <3>1. Goto(r, "idle") /\ UNCHANGED strayed
      BY <1>0, <2>3 DEF ResetPause, StorageCall
    <3> QED
      BY <1>1, <3>1, CallsSucceed
  <2>4. CASE ResetUndo(r)
    BY <1>1, <2>4, CallsSucceed DEF ResetUndo
  <2> QED
    BY <1>7, <2>1, <2>2, <2>3, <2>4 DEF ResetStep
<1> QED
  BY <1>2, <1>3, <1>4, <1>5, <1>6, <1>7 DEF RequestStep

\* Every step keeps Clean.
LEMMA NextKeepsClean ==
    ASSUME MaxFaults = 0, MaxCrashes = 0, IInv, Clean, [Next]_vars
    PROVE  Clean'
<1> USE DEF IInv
<1>1. ~Fault
  BY DEF Fault, TypeOK
<1>2. CASE \E r \in Req : RequestStep(r)
  BY <1>2, RequestKeepsClean
<1>3. CASE Fire
  BY <1>3 DEF Fire, Clean, requestVars, worldVars
<1>4. CASE \E h \in Handler : HandlerStep(h)
  <2>1. PICK h \in Handler : HandlerStep(h)
    BY <1>4
  <2>2. UNCHANGED <<pc, up>>
    BY <2>1 DEF HandlerStep, requestVars, worldVars
  <2>3. ~strayed'
    BY <1>1, <2>1 DEF HandlerStep, ExpiredRead, ExpiredClear, ExpiredUncache, Clean
  <2> QED
    BY <2>2, <2>3 DEF Clean
<1>5. CASE TimerDelete
  BY <1>5 DEF TimerDelete, Clean, requestVars, worldVars
<1>6. CASE Crash
  BY <1>6 DEF Crash, TypeOK
<1>7. CASE Restart
  BY <1>7 DEF Restart, Clean
<1>8. CASE Clock
  BY <1>8 DEF Clock, Clean, requestVars
<1>9. CASE UNCHANGED vars
  BY <1>9 DEF Clean, vars, requestVars, worldVars
<1> QED
  BY <1>2, <1>3, <1>4, <1>5, <1>6, <1>7, <1>8, <1>9 DEF Next

\* When no call fails and the application is not restarted, no interleaving of
\* any number of the creator's requests with ticks and expiry handlers leaves a
\* running timer that nothing will ever fire.
THEOREM RacesAreSafe ==
    ASSUME MaxFaults = 0, MaxCrashes = 0
    PROVE  Spec => []AlwaysWatched
<1>1. Init => Clean
  BY DEF Init, Clean
<1>2. IInv /\ Clean /\ [Next]_vars => Clean'
  BY NextKeepsClean
<1>3. IInv /\ Clean => AlwaysWatched
  BY DEF IInv, Clean, Watched
<1> QED
  BY <1>1, <1>2, <1>3, Invariance, PTL DEF Spec
=============================================================================
