--------------------------- MODULE TimerApiProofs ---------------------------
(***************************************************************************)
(* Proofs about TimerApi.  A request changes one timer, so the argument is *)
(* about one timer: Sound holds of it between requests, every operation of *)
(* the use cases keeps it (one lemma each), and so do expiry and time.     *)
(***************************************************************************)
EXTENDS TimerApi, TLAPS, FiniteSetTheorems

\* What holds of a timer whatever was requested so far: the creator is a
\* member, and the two stores of subscribers agree while the timer lives.
Sound(t) ==
    /\ t.row.exists => t.creator \in t.members
    /\ ~t.row.exists => t.cached = {} /\ ~t.row.deleted
    /\ Live(t.row) => t.cached = t.members

\* What holds of a timer at second now while all its times are checked: it is
\* long enough, and the second from which its duration counts lies neither in
\* the future nor after its pause.
LongRow(row, now) ==
    /\ row.duration >= MinDuration
    /\ row.end - row.duration <= now
    /\ row.paused => row.end - row.duration <= row.pauseTime

Long(t, now) == Live(t.row) => LongRow(t.row, now)

\* What RefusalLeaves says of one outcome.
Leaves(t, a) ==
    a.code # "ok" =>
        \/ a.timer = t
        \/ /\ ~Live(t.row) /\ ~Live(a.timer.row)
           /\ a.timer.cached = t.cached /\ a.timer.entry = t.entry

Good(t, a) == a.timer \in Timers /\ Sound(a.timer) /\ Leaves(t, a)

\* A refusal that leaves the timer alone.
LEMMA RefuseGood ==
    ASSUME NEW t \in Timers, NEW code, Sound(t)
    PROVE  Good(t, Refuse(t, code))
BY DEF Good, Refuse, Leaves

\* The row after each statement.
LEMMA RowTypes ==
    /\ \A type \in TimerTypes, start, end \in Int : InsertTimer(type, start, end) \in Rows
    /\ \A row \in Rows : DeleteTimer(row) \in Rows
    /\ \A row \in Rows, end \in Int : UpdateTime(row, end) \in Rows /\ UpdateTimer(row, end) \in Rows
    /\ \A row \in Rows, time \in Int, paused \in BOOLEAN : UpdatePauseTime(row, time, paused) \in Rows
PROOF
  <1>1. \A type \in TimerTypes, start, end \in Int : InsertTimer(type, start, end) \in Rows
    BY DEF Rows, InsertTimer, ZeroTime
  <1>2. \A row \in Rows : DeleteTimer(row) \in Rows
    BY DEF Rows, DeleteTimer
  <1>3. \A row \in Rows, end \in Int : UpdateTime(row, end) \in Rows
    BY DEF Rows, UpdateTime
  <1>4. \A row \in Rows, end \in Int : UpdateTimer(row, end) \in Rows
    <2> SUFFICES ASSUME NEW row \in Rows, NEW end \in Int PROVE UpdateTimer(row, end) \in Rows
      OBVIOUS
    <2> DEFINE longer == row.duration + (end - row.end)
    <2>1. longer \in Int
      BY DEF Rows
    <2> HIDE DEF longer
    <2>2. UpdateTimer(row, end) = [row EXCEPT !.end = end, !.duration = longer]
      BY DEF UpdateTimer, longer
    <2> QED BY <2>1, <2>2 DEF Rows
  <1>5. \A row \in Rows, time \in Int, paused \in BOOLEAN : UpdatePauseTime(row, time, paused) \in Rows
    BY DEF Rows, UpdatePauseTime
  <1> QED BY <1>1, <1>2, <1>3, <1>4, <1>5

\* A request that Validate lets pass.
LEMMA Validated ==
    ASSUME NEW q \in RequestTypes, Validate(q) = "ok"
    PROVE  q.type \in TimerTypes /\ q.left + q.ago >= MinDuration
BY BoundAssumption DEF Validate, ValidateFields, RequestTypes

\* Create, after Validate.
LEMMA CreateGood ==
    ASSUME NEW t \in Timers, NEW q \in RequestTypes, NEW now \in Nat, Sound(t),
           Validate(q) = "ok"
    PROVE  /\ Good(t, Create(t, q, now))
           /\ \/ Create(t, q, now).code = "ok" /\ q.ago < 0
              \/ Long(t, now) => Long(Create(t, q, now).timer, now)
           /\ Live(t.row) => Live(Create(t, q, now).timer.row)
PROOF
  <1> DEFINE new == Inserted(t, q, now)
             gone == [new EXCEPT !.row = DeleteTimer(new.row)]
             end == now + q.left
  <1>1. q.type \in TimerTypes /\ q.left + q.ago >= MinDuration
    BY Validated
  <1>2. q.left \in Int /\ q.ago \in Int /\ q.user \in User /\ now - q.ago \in Int /\ end \in Int
    BY DEF RequestTypes
  <1>3. InsertTimer(q.type, now - q.ago, end) \in Rows
    BY <1>1, <1>2, RowTypes
  <1>4. /\ new \in Timers
        /\ new.row = InsertTimer(q.type, now - q.ago, end)
        /\ new.creator = q.user /\ new.members = {q.user}
        /\ new.cached = t.cached /\ new.entry = t.entry
    BY <1>2, <1>3 DEF Timers, Inserted
  <1>5. /\ new.row.exists /\ ~new.row.deleted /\ ~new.row.paused
        /\ new.row.end = end
        /\ new.row.duration = end - (now - q.ago)
    BY <1>4 DEF InsertTimer
  <1>6. /\ gone \in Timers
        /\ gone.row = DeleteTimer(new.row)
        /\ gone.creator = q.user /\ gone.members = {q.user}
        /\ gone.cached = t.cached /\ gone.entry = t.entry
    BY <1>4, RowTypes DEF Timers
  <1>7. gone.row.exists /\ gone.row.deleted
    BY <1>4, <1>5, <1>6 DEF DeleteTimer, Timers, Rows
  <1> HIDE DEF new, gone, end
  <1>8. Create(t, q, now) =
          IF InsertStatement(t, q) # "ok" THEN Refuse(t, InsertStatement(t, q))
          ELSE IF q.user \in t.cached THEN Refuse(gone, "user_already_subscriber")
          ELSE IF AddError(t.entry, end, now) # "ok"
               THEN Refuse([gone EXCEPT !.cached = {}], AddError(t.entry, end, now))
          ELSE Accept([new EXCEPT !.cached = t.cached \cup {q.user}, !.entry = end])
    BY <1>5 DEF Create, new, gone, end
  <1>9. CASE InsertStatement(t, q) # "ok"
    <2>1. Create(t, q, now) = Refuse(t, InsertStatement(t, q))
      BY <1>8, <1>9
    <2> QED BY <2>1, RefuseGood DEF Refuse
  <1>10. CASE InsertStatement(t, q) = "ok" /\ q.user \in t.cached
    <2>1. ~t.row.exists
      BY <1>10 DEF InsertStatement
    <2> QED BY <2>1, <1>10 DEF Sound
  <1>11. CASE InsertStatement(t, q) = "ok" /\ q.user \notin t.cached /\ AddError(t.entry, end, now) # "ok"
    <2> DEFINE left == [gone EXCEPT !.cached = {}]
    <2>1. Create(t, q, now) = Refuse(left, AddError(t.entry, end, now))
      BY <1>8, <1>11
    <2>2. ~t.row.exists
      BY <1>11 DEF InsertStatement
    <2>3. /\ left \in Timers /\ left.row = gone.row /\ left.cached = {} /\ left.entry = t.entry
          /\ left.creator = q.user /\ left.members = {q.user}
      BY <1>6 DEF Timers
    <2> HIDE DEF left
    <2>4. ~Live(left.row) /\ ~Live(t.row) /\ t.cached = {}
      BY <1>7, <2>2, <2>3 DEF Live, Sound
    <2>5. Sound(left)
      BY <1>7, <2>3, <2>4 DEF Sound
    <2> QED BY <2>1, <2>3, <2>4, <2>5 DEF Good, Leaves, Refuse, Long
  <1>12. CASE InsertStatement(t, q) = "ok" /\ q.user \notin t.cached /\ AddError(t.entry, end, now) = "ok"
    <2> DEFINE made == [new EXCEPT !.cached = t.cached \cup {q.user}, !.entry = end]
    <2>1. Create(t, q, now) = Accept(made)
      BY <1>8, <1>12
    <2>2. ~t.row.exists
      BY <1>12 DEF InsertStatement
    <2>3. t.cached = {}
      BY <2>2 DEF Sound
    <2>4. end \in Entries
      BY <1>2 DEF Entries, end
    <2>5. t.cached \cup {q.user} = {q.user} /\ {q.user} \in SUBSET User
      BY <1>2, <2>3
    <2>6. /\ made \in Timers /\ made.row = new.row /\ made.cached = {q.user}
          /\ made.creator = q.user /\ made.members = {q.user}
      BY <1>4, <2>4, <2>5 DEF Timers
    <2> HIDE DEF made
    <2>7. Sound(made)
      BY <1>2, <1>5, <2>6 DEF Sound, end
    <2>8. q.ago < 0 \/ Long(made, now)
      BY <1>1, <1>2, <1>5, <2>6 DEF Long, LongRow, end
    <2>9. ~Live(t.row)
      BY <2>2 DEF Live
    <2> QED BY <2>1, <2>6, <2>7, <2>8, <2>9 DEF Good, Leaves, Accept
  <1> QED BY <1>9, <1>10, <1>11, <1>12

\* Delete.
LEMMA DeleteGood ==
    ASSUME NEW t \in Timers, NEW q \in RequestTypes, NEW now \in Nat, Sound(t)
    PROVE  /\ Good(t, Delete(t, q))
           /\ Long(t, now) => Long(Delete(t, q).timer, now)
PROOF
  <1> DEFINE gone == [t EXCEPT !.row = DeleteTimer(t.row),
                               !.entry = IF t.row.paused THEN t.entry ELSE NoEntry,
                               !.cached = {}]
  <1>1. CASE CheckAccess(t, q.user) # "ok"
    <2>1. Delete(t, q) = Refuse(t, CheckAccess(t, q.user))
      BY <1>1 DEF Delete, Check
    <2> QED BY <2>1, RefuseGood DEF Refuse
  <1>2. CASE CheckAccess(t, q.user) = "ok"
    <2>1. Delete(t, q) = Accept(gone)
      BY <1>2 DEF Delete, Check
    <2>2. DeleteTimer(t.row) \in Rows /\ DeleteTimer(t.row).deleted
          /\ DeleteTimer(t.row).exists = t.row.exists
      BY RowTypes DEF Timers, Rows, DeleteTimer
    <2>3. Live(t.row)
      BY <1>2 DEF CheckAccess
    <2>4. (IF t.row.paused THEN t.entry ELSE NoEntry) \in Entries
      BY DEF Timers, Entries, NoEntry
    <2>5. /\ gone \in Timers /\ gone.row = DeleteTimer(t.row)
          /\ gone.creator = t.creator /\ gone.members = t.members
      BY <2>2, <2>4 DEF Timers
    <2> HIDE DEF gone
    <2>6. ~Live(gone.row) /\ gone.row.exists
      BY <2>2, <2>3, <2>5 DEF Live
    <2>7. Sound(gone)
      BY <2>5, <2>6, <2>2 DEF Sound
    <2> QED BY <2>1, <2>5, <2>6, <2>7 DEF Good, Leaves, Accept, Long
  <1> QED BY <1>1, <1>2

\* Update.  The second from which the duration counts stays where it is, and
\* unless the timer is paused the new end is far enough from now.
LEMMA UpdateGood ==
    ASSUME NEW t \in Timers, NEW q \in RequestTypes, NEW now \in Nat, Sound(t)
    PROVE  /\ Good(t, Update(t, q, now))
           /\ Long(t, now) /\ (Update(t, q, now).code = "ok" => ~t.row.paused)
                => Long(Update(t, q, now).timer, now)
           /\ Live(t.row) => Live(Update(t, q, now).timer.row)
PROOF
  <1> DEFINE end == now + q.left
             row == UpdateTimer(t.row, end)
             moved == [t EXCEPT !.row = row]
             told == [moved EXCEPT !.entry = end]
  <1>1. end \in Int /\ end \in Entries
    BY DEF RequestTypes, Entries
  <1>2. /\ row \in Rows
        /\ row.exists = t.row.exists /\ row.deleted = t.row.deleted
        /\ row.paused = t.row.paused /\ row.pauseTime = t.row.pauseTime
        /\ row.end = end /\ row.duration = t.row.duration + (end - t.row.end)
    BY <1>1, RowTypes DEF Timers, Rows, UpdateTimer
  <1> HIDE DEF row
  <1>3. /\ moved \in Timers /\ moved.row = row /\ moved.creator = t.creator
        /\ moved.members = t.members /\ moved.cached = t.cached
    BY <1>2 DEF Timers
  <1> HIDE DEF moved
  <1>4. /\ told \in Timers /\ told.row = row /\ told.creator = t.creator
        /\ told.members = t.members /\ told.cached = t.cached
    BY <1>1, <1>3 DEF Timers
  <1> HIDE DEF told, end
  <1>5. t.row.end \in Int /\ t.row.duration \in Int /\ t.row.pauseTime \in Int
    BY DEF Timers, Rows
  <1>6. row.end - row.duration = t.row.end - t.row.duration
    BY <1>1, <1>2, <1>5
  <1>7. ASSUME NEW s \in {moved, told} PROVE Sound(s)
    BY <1>2, <1>3, <1>4, <1>6 DEF Sound, Live
  <1>12. ASSUME NEW s \in {moved, told} PROVE Live(t.row) => Live(s.row)
    BY <1>2, <1>3, <1>4 DEF Live
  <1>8. \/ \E code : Update(t, q, now) = Refuse(t, code)
        \/ /\ CheckAccess(t, q.user) = "ok" /\ CheckSettingsEndTime(t, q, now) = "ok"
           /\ \/ t.row.paused /\ Update(t, q, now) = Accept(moved)
              \/ ~t.row.paused /\ Update(t, q, now) = Accept(told)
    BY DEF Update, Check, moved, told, row, end
  <1>9. CASE \E code : Update(t, q, now) = Refuse(t, code)
    <2>1. PICK code : Update(t, q, now) = Refuse(t, code)
      BY <1>9
    <2> QED BY <2>1, RefuseGood DEF Refuse
  <1>10. CASE t.row.paused /\ Update(t, q, now) = Accept(moved)
    BY <1>3, <1>7, <1>10, <1>12 DEF Good, Leaves, Accept
  <1>11. CASE /\ CheckAccess(t, q.user) = "ok" /\ CheckSettingsEndTime(t, q, now) = "ok"
              /\ ~t.row.paused /\ Update(t, q, now) = Accept(told)
    <2>1. Live(t.row)
      BY <1>11 DEF CheckAccess
    <2>2. end - now >= MinDuration
      BY <1>1, <1>11, BoundAssumption DEF CheckSettingsEndTime, end
    <2>3. Long(t, now) => t.row.end - t.row.duration <= now
      BY <2>1 DEF Long, LongRow
    <2>4. Long(t, now) => LongRow(row, now)
      BY <1>1, <1>2, <1>5, <1>6, <1>11, <2>2, <2>3, BoundAssumption DEF LongRow
    <2>5. Long(t, now) => Long(told, now)
      BY <1>4, <2>4 DEF Long
    <2> QED BY <1>4, <1>7, <1>11, <1>12, <2>5 DEF Good, Leaves, Accept
  <1> QED BY <1>8, <1>9, <1>10, <1>11

\* Subscribe and Unsubscribe: the cache and the table change together.
LEMMA SubscribeGood ==
    ASSUME NEW t \in Timers, NEW q \in RequestTypes, NEW now \in Nat, Sound(t)
    PROVE  /\ Good(t, Subscribe(t, q))
           /\ Long(t, now) => Long(Subscribe(t, q).timer, now)
           /\ Live(t.row) => Live(Subscribe(t, q).timer.row)
PROOF
  <1> DEFINE more == [t EXCEPT !.cached = t.cached \cup {q.user}, !.members = t.members \cup {q.user}]
  <1>1. t.cached \cup {q.user} \in SUBSET User /\ t.members \cup {q.user} \in SUBSET User
    BY DEF Timers, RequestTypes
  <1>2. /\ more \in Timers /\ more.row = t.row /\ more.creator = t.creator
        /\ more.cached = t.cached \cup {q.user} /\ more.members = t.members \cup {q.user}
    BY <1>1 DEF Timers
  <1> HIDE DEF more
  <1>3. \/ \E code : Subscribe(t, q) = Refuse(t, code)
        \/ Live(t.row) /\ Subscribe(t, q) = Accept(more)
    BY DEF Subscribe, more
  <1>4. CASE \E code : Subscribe(t, q) = Refuse(t, code)
    <2>1. PICK code : Subscribe(t, q) = Refuse(t, code)
      BY <1>4
    <2> QED BY <2>1, RefuseGood DEF Refuse
  <1>5. CASE Live(t.row) /\ Subscribe(t, q) = Accept(more)
    <2>1. Sound(more)
      BY <1>2, <1>5 DEF Sound, Live
    <2> QED BY <1>2, <1>5, <2>1 DEF Good, Leaves, Accept, Long
  <1> QED BY <1>3, <1>4, <1>5

LEMMA UnsubscribeGood ==
    ASSUME NEW t \in Timers, NEW q \in RequestTypes, NEW now \in Nat, Sound(t)
    PROVE  /\ Good(t, Unsubscribe(t, q))
           /\ Long(t, now) => Long(Unsubscribe(t, q).timer, now)
           /\ Live(t.row) => Live(Unsubscribe(t, q).timer.row)
PROOF
  <1> DEFINE less == [t EXCEPT !.cached = t.cached \ {q.user}, !.members = t.members \ {q.user}]
  <1>1. t.cached \ {q.user} \in SUBSET User /\ t.members \ {q.user} \in SUBSET User
    BY DEF Timers
  <1>2. /\ less \in Timers /\ less.row = t.row /\ less.creator = t.creator
        /\ less.cached = t.cached \ {q.user} /\ less.members = t.members \ {q.user}
    BY <1>1 DEF Timers
  <1> HIDE DEF less
  <1>3. \/ \E code : Unsubscribe(t, q) = Refuse(t, code)
        \/ /\ Live(t.row) /\ t.creator # q.user
           /\ Unsubscribe(t, q) = Accept(less)
    BY DEF Unsubscribe, CachedSubscribers, Check, Refuse, less
  <1>4. CASE \E code : Unsubscribe(t, q) = Refuse(t, code)
    <2>1. PICK code : Unsubscribe(t, q) = Refuse(t, code)
      BY <1>4
    <2> QED BY <2>1, RefuseGood DEF Refuse
  <1>5. CASE Live(t.row) /\ t.creator # q.user /\ Unsubscribe(t, q) = Accept(less)
    <2>1. Sound(less)
      BY <1>2, <1>5 DEF Sound, Live
    <2> QED BY <1>2, <1>5, <2>1 DEF Good, Leaves, Accept, Long
  <1> QED BY <1>3, <1>4, <1>5

\* An operation that changes the row's times and the entry alone.
LEMMA RowGood ==
    ASSUME NEW t \in Timers, NEW now \in Nat, NEW row \in Rows, NEW entry \in Entries,
           Sound(t), Live(t.row),
           row.exists = t.row.exists, row.deleted = t.row.deleted
    PROVE  /\ Good(t, Accept([t EXCEPT !.row = row, !.entry = entry]))
           /\ (LongRow(t.row, now) => LongRow(row, now)) =>
                  (Long(t, now) => Long(Accept([t EXCEPT !.row = row, !.entry = entry]).timer, now))
           /\ Live(Accept([t EXCEPT !.row = row, !.entry = entry]).timer.row)
PROOF
  <1> DEFINE s == [t EXCEPT !.row = row, !.entry = entry]
  <1>1. /\ s \in Timers /\ s.row = row /\ s.creator = t.creator
        /\ s.members = t.members /\ s.cached = t.cached
    BY DEF Timers
  <1> HIDE DEF s
  <1>2. Sound(s)
    BY <1>1 DEF Sound, Live
  <1>3. /\ (LongRow(t.row, now) => LongRow(row, now)) => (Long(t, now) => Long(s, now))
        /\ Live(s.row)
    BY <1>1 DEF Long, Live
  <1>4. Good(t, Accept(s)) /\ Accept(s).timer = s
    BY <1>1, <1>2 DEF Good, Leaves, Accept
  <1> QED BY <1>3, <1>4 DEF s

LEMMA CountdownChecked ==
    ASSUME NEW t, NEW q, CheckCountDownTimer(t, q.user) = "ok"
    PROVE  Live(t.row)
BY DEF CheckCountDownTimer

LEMMA StopGood ==
    ASSUME NEW t \in Timers, NEW q \in RequestTypes, NEW now \in Nat, Sound(t)
    PROVE  /\ Good(t, Stop(t, q, now))
           /\ \/ Stop(t, q, now).code = "ok" /\ now - q.ago < t.row.end - t.row.duration
              \/ Long(t, now) => Long(Stop(t, q, now).timer, now)
           /\ Live(t.row) => Live(Stop(t, q, now).timer.row)
PROOF
  <1> DEFINE row == UpdatePauseTime(t.row, now - q.ago, TRUE)
             s == [t EXCEPT !.row = row, !.entry = NoEntry]
  <1>1. now - q.ago \in Int
    BY DEF RequestTypes
  <1>2. /\ row \in Rows
        /\ row.exists = t.row.exists /\ row.deleted = t.row.deleted /\ row.duration = t.row.duration
        /\ row.end = t.row.end /\ row.paused /\ row.pauseTime = now - q.ago
    BY <1>1, RowTypes DEF Timers, Rows, UpdatePauseTime
  <1> HIDE DEF row
  <1>3. NoEntry \in Entries
    BY DEF NoEntry, Entries
  <1>4. \/ \E code : Stop(t, q, now) = Refuse(t, code)
        \/ /\ CheckCountDownTimer(t, q.user) = "ok" /\ ~t.row.paused
           /\ Stop(t, q, now) = Accept(s)
    BY DEF Stop, Check, row
  <1>5. CASE \E code : Stop(t, q, now) = Refuse(t, code)
    <2>1. PICK code : Stop(t, q, now) = Refuse(t, code)
      BY <1>5
    <2> QED BY <2>1, RefuseGood DEF Refuse
  <1>6. CASE /\ CheckCountDownTimer(t, q.user) = "ok" /\ ~t.row.paused
             /\ Stop(t, q, now) = Accept(s)
    <2>1. Live(t.row)
      BY <1>6, CountdownChecked
    <2>2. \/ now - q.ago < t.row.end - t.row.duration
          \/ LongRow(t.row, now) => LongRow(row, now)
      BY <1>1, <1>2 DEF LongRow, Timers, Rows
    <2>3. /\ Good(t, Accept(s)) /\ Live(Accept(s).timer.row)
          /\ (LongRow(t.row, now) => LongRow(row, now)) =>
                 (Long(t, now) => Long(Accept(s).timer, now))
      BY <1>2, <1>3, <2>1, RowGood
    <2> HIDE DEF s
    <2> QED BY <1>6, <2>2, <2>3 DEF Accept
  <1> QED BY <1>4, <1>5, <1>6

LEMMA StartGood ==
    ASSUME NEW t \in Timers, NEW q \in RequestTypes, NEW now \in Nat, Sound(t)
    PROVE  /\ Good(t, Start(t, q, now))
           /\ Long(t, now) => Long(Start(t, q, now).timer, now)
           /\ Live(t.row) => Live(Start(t, q, now).timer.row)
PROOF
  <1> DEFINE end == t.row.end + (now - t.row.pauseTime)
             moved == UpdateTime(t.row, end)
             row == UpdatePauseTime(moved, ZeroTime, FALSE)
             s == [t EXCEPT !.row = row, !.entry = end]
  <1>1. t.row.end \in Int /\ t.row.duration \in Int /\ t.row.pauseTime \in Int /\ end \in Int
    BY DEF Timers, Rows
  <1>2. end \in Entries
    BY <1>1 DEF Entries
  <1>3. /\ moved \in Rows
        /\ moved.exists = t.row.exists /\ moved.deleted = t.row.deleted
        /\ moved.duration = t.row.duration /\ moved.end = end
    BY <1>1 DEF Timers, Rows, UpdateTime
  <1> HIDE DEF moved
  <1>7. row \in Rows
    <2>1. moved \in Rows /\ ZeroTime \in Int
      BY <1>3 DEF ZeroTime
    <2> HIDE DEF end
    <2>2. UpdatePauseTime(moved, ZeroTime, FALSE) \in Rows
      BY ONLY <2>1, RowTypes
    <2> QED BY <2>2
  <1>8. row.exists = t.row.exists /\ row.deleted = t.row.deleted /\ row.duration = t.row.duration
    BY <1>3 DEF Rows, UpdatePauseTime
  <1>9. row.end = end
    BY <1>3 DEF Rows, UpdatePauseTime
  <1>10. ~row.paused
    BY <1>3 DEF Rows, UpdatePauseTime
  <1> HIDE DEF row
  <1>4. \/ \E code : Start(t, q, now) = Refuse(t, code)
        \/ /\ CheckCountDownTimer(t, q.user) = "ok" /\ t.row.paused
           /\ Start(t, q, now) = Accept(s)
    BY DEF Start, Check, row, moved
  <1>5. CASE \E code : Start(t, q, now) = Refuse(t, code)
    <2>1. PICK code : Start(t, q, now) = Refuse(t, code)
      BY <1>5
    <2> QED BY <2>1, RefuseGood DEF Refuse
  <1>6. CASE /\ CheckCountDownTimer(t, q.user) = "ok" /\ t.row.paused
             /\ Start(t, q, now) = Accept(s)
    <2>1. Live(t.row)
      BY <1>6, CountdownChecked
    <2>2. LongRow(t.row, now) => t.row.end - t.row.duration <= t.row.pauseTime
      BY <1>6 DEF LongRow
    <2>3. LongRow(t.row, now) => LongRow(row, now)
      BY <1>1, <1>8, <1>9, <1>10, <2>2 DEF LongRow
    <2> HIDE DEF s, end
    <2>4. Good(t, Accept(s)) /\ (Long(t, now) => Long(Accept(s).timer, now)) /\ Live(Accept(s).timer.row)
      BY <1>2, <1>7, <1>8, <2>1, <2>3, RowGood DEF s
    <2> QED BY <1>6, <2>4
  <1> QED BY <1>4, <1>5, <1>6

LEMMA ResetGood ==
    ASSUME NEW t \in Timers, NEW q \in RequestTypes, NEW now \in Nat, Sound(t)
    PROVE  /\ Good(t, Reset(t, q, now))
           /\ Long(t, now) => Long(Reset(t, q, now).timer, now)
           /\ Live(t.row) => Live(Reset(t, q, now).timer.row)
PROOF
  <1> DEFINE end == now + t.row.duration
             moved == UpdateTime(t.row, end)
             row == IF t.row.paused THEN UpdatePauseTime(moved, now, TRUE) ELSE moved
             s == [t EXCEPT !.row = row]
  <1>1. t.row.duration \in Int /\ end \in Int
    BY DEF Timers, Rows
  <1>2. /\ moved \in Rows
        /\ moved.exists = t.row.exists /\ moved.deleted = t.row.deleted
        /\ moved.duration = t.row.duration /\ moved.end = end
        /\ moved.paused = t.row.paused
    BY <1>1 DEF Timers, Rows, UpdateTime
  <1>3. /\ row \in Rows
        /\ row.exists = t.row.exists /\ row.deleted = t.row.deleted
        /\ row.duration = t.row.duration /\ row.end = end
        /\ row.paused => row.pauseTime = now
    <2> HIDE DEF moved, end
    <2>1. CASE t.row.paused
      <3>1. row = UpdatePauseTime(moved, now, TRUE)
        BY <2>1
      <3>2. row \in Rows
        <4>1. moved \in Rows /\ now \in Int
          BY <1>2
        <4>2. UpdatePauseTime(moved, now, TRUE) \in Rows
          BY ONLY <4>1, RowTypes
        <4> QED BY <3>1, <4>2
      <3>3. row.exists = t.row.exists /\ row.deleted = t.row.deleted
        BY <1>2, <3>1 DEF Rows, UpdatePauseTime
      <3>4. row.duration = t.row.duration /\ row.end = end
        BY <1>2, <3>1 DEF Rows, UpdatePauseTime
      <3>5. row.pauseTime = now
        BY <1>2, <3>1 DEF Rows, UpdatePauseTime
      <3> QED BY <3>2, <3>3, <3>4, <3>5
    <2>2. CASE ~t.row.paused
      BY <1>2, <2>2
    <2> QED BY <2>1, <2>2
  <1> HIDE DEF row
  <1>4. \/ \E code : Reset(t, q, now) = Refuse(t, code)
        \/ CheckCountDownTimer(t, q.user) = "ok" /\ Reset(t, q, now) = Accept(s)
    BY DEF Reset, Check, row
  <1>5. CASE \E code : Reset(t, q, now) = Refuse(t, code)
    <2>1. PICK code : Reset(t, q, now) = Refuse(t, code)
      BY <1>5
    <2> QED BY <2>1, RefuseGood DEF Refuse
  <1>6. CASE CheckCountDownTimer(t, q.user) = "ok" /\ Reset(t, q, now) = Accept(s)
    <2>1. Live(t.row)
      BY <1>6, CountdownChecked
    <2>2. LongRow(t.row, now) => LongRow(row, now)
      BY <1>1, <1>3 DEF LongRow
    <2>3. s = [t EXCEPT !.row = row, !.entry = t.entry] /\ t.entry \in Entries
      BY DEF Timers
    <2> HIDE DEF s, end
    <2>4. Good(t, Accept(s)) /\ (Long(t, now) => Long(Accept(s).timer, now)) /\ Live(Accept(s).timer.row)
      BY <1>3, <2>1, <2>2, <2>3, RowGood
    <2> QED BY <1>6, <2>4
  <1> QED BY <1>4, <1>5, <1>6

\* What a request that is parsed does, by its route.
LEMMA Routes ==
    ASSUME NEW t, NEW q \in RequestTypes, NEW now
    PROVE  /\ q.call = "create" => Handle(t, q, now) = Check(Validate(q), t, Create(t, q, now))
           /\ q.call = "delete" => Handle(t, q, now) = Delete(t, q)
           /\ q.call = "update" => Handle(t, q, now) = Update(t, q, now)
           /\ q.call = "subscribe" => Handle(t, q, now) = Subscribe(t, q)
           /\ q.call = "unsubscribe" => Handle(t, q, now) = Unsubscribe(t, q)
           /\ q.call = "stop" => Handle(t, q, now) = Stop(t, q, now)
           /\ q.call = "start" => Handle(t, q, now) = Start(t, q, now)
           /\ q.call = "reset" => Handle(t, q, now) = Reset(t, q, now)
           /\ q.call \notin Changes => /\ Handle(t, q, now).timer = t
                                       /\ \/ \E code : Handle(t, q, now) = Refuse(t, code)
                                          \/ Handle(t, q, now) = Accept(t)
PROOF
  <1>1. q.call \notin Changes => \/ \E code : Handle(t, q, now) = Refuse(t, code)
                                 \/ Handle(t, q, now) = Accept(t)
    BY DEF Handle, Changes, Lists, GetTimer, TimerSubscribers, CachedSubscribers, ListStatement, Check
  <1>2. q.call \notin Changes => Handle(t, q, now).timer = t
    BY <1>1 DEF Refuse, Accept
  <1> QED BY <1>1, <1>2 DEF Handle, Lists

\* An answer is a refusal before the handler, or the handler's.
LEMMA AnswerCases ==
    ASSUME NEW t, NEW q, NEW now
    PROVE  \/ \E code : Answer(t, q, now) = Refuse(t, code)
           \/ Answer(t, q, now) = Handle(t, q, now)
BY DEF Answer, Check

LEMMA HandleGood ==
    ASSUME NEW t \in Timers, NEW q \in RequestTypes, NEW now \in Nat, Sound(t)
    PROVE  /\ Good(t, Handle(t, q, now))
           /\ \/ Handle(t, q, now).code = "ok" /\ Unchecked(t, q, now)
              \/ Long(t, now) => Long(Handle(t, q, now).timer, now)
           /\ q.call = "delete" \/ (Live(t.row) => Live(Handle(t, q, now).timer.row))
PROOF
  <1>1. CASE q.call = "create"
    <2>1. CASE Validate(q) = "ok"
      <3>1. Handle(t, q, now) = Create(t, q, now)
        BY <1>1, <2>1, Routes DEF Check
      <3> QED BY <1>1, <2>1, <3>1, CreateGood DEF Unchecked
    <2>2. CASE Validate(q) # "ok"
      <3>1. Handle(t, q, now) = Refuse(t, Validate(q))
        BY <1>1, <2>2, Routes DEF Check
      <3> QED BY <3>1, RefuseGood DEF Refuse
    <2> QED BY <2>1, <2>2
  <1>2. CASE q.call = "delete"
    BY <1>2, Routes, DeleteGood
  <1>3. CASE q.call = "update"
    <2>1. Handle(t, q, now) = Update(t, q, now)
      BY <1>3, Routes
    <2>2. /\ Good(t, Update(t, q, now))
          /\ Long(t, now) /\ (Update(t, q, now).code = "ok" => ~t.row.paused)
               => Long(Update(t, q, now).timer, now)
          /\ Live(t.row) => Live(Update(t, q, now).timer.row)
      BY UpdateGood
    <2> QED BY <1>3, <2>1, <2>2 DEF Unchecked
  <1>4. CASE q.call = "subscribe"
    BY <1>4, Routes, SubscribeGood
  <1>5. CASE q.call = "unsubscribe"
    BY <1>5, Routes, UnsubscribeGood
  <1>6. CASE q.call = "stop"
    <2>1. Handle(t, q, now) = Stop(t, q, now)
      BY <1>6, Routes
    <2>2. /\ Good(t, Stop(t, q, now))
          /\ \/ Stop(t, q, now).code = "ok" /\ now - q.ago < t.row.end - t.row.duration
             \/ Long(t, now) => Long(Stop(t, q, now).timer, now)
          /\ Live(t.row) => Live(Stop(t, q, now).timer.row)
      BY StopGood
    <2> QED BY <1>6, <2>1, <2>2 DEF Unchecked
  <1>7. CASE q.call = "start"
    <2>1. Handle(t, q, now) = Start(t, q, now)
      BY <1>7, Routes
    <2>2. /\ Good(t, Start(t, q, now))
          /\ Long(t, now) => Long(Start(t, q, now).timer, now)
          /\ Live(t.row) => Live(Start(t, q, now).timer.row)
      BY StartGood
    <2> QED BY <2>1, <2>2
  <1>8. CASE q.call = "reset"
    <2>1. Handle(t, q, now) = Reset(t, q, now)
      BY <1>8, Routes
    <2>2. /\ Good(t, Reset(t, q, now))
          /\ Long(t, now) => Long(Reset(t, q, now).timer, now)
          /\ Live(t.row) => Live(Reset(t, q, now).timer.row)
      BY ResetGood
    <2> QED BY <2>1, <2>2
  <1>9. CASE q.call \notin Changes
    <2>1. CASE Handle(t, q, now) = Accept(t)
      BY <2>1 DEF Good, Leaves, Accept
    <2>2. CASE \E code : Handle(t, q, now) = Refuse(t, code)
      <3>1. PICK code : Handle(t, q, now) = Refuse(t, code)
        BY <2>2
      <3> QED BY <3>1, RefuseGood DEF Refuse
    <2> QED BY <1>9, <2>1, <2>2, Routes
  <1> QED BY <1>1, <1>2, <1>3, <1>4, <1>5, <1>6, <1>7, <1>8, <1>9 DEF Changes

\* The answer to any request.
LEMMA AnswerGood ==
    ASSUME NEW t \in Timers, NEW q \in Requests, NEW now \in Nat, Sound(t)
    PROVE  /\ Good(t, Answer(t, q, now))
           /\ \/ Answer(t, q, now).code = "ok" /\ Unchecked(t, q, now)
              \/ Long(t, now) => Long(Answer(t, q, now).timer, now)
           /\ q.call = "delete" \/ (Live(t.row) => Live(Answer(t, q, now).timer.row))
PROOF
  <1>1. q \in RequestTypes
    BY RequestAssumption
  <1>2. CASE Answer(t, q, now) = Handle(t, q, now)
    BY <1>1, <1>2, HandleGood
  <1>3. CASE \E code : Answer(t, q, now) = Refuse(t, code)
    <2>1. PICK code : Answer(t, q, now) = Refuse(t, code)
      BY <1>3
    <2> QED BY <2>1, RefuseGood DEF Refuse
  <1> QED BY <1>2, <1>3, AnswerCases

-----------------------------------------------------------------------------
(* Expiry and time *)

LEMMA ExpiredGood ==
    ASSUME NEW t \in Timers, NEW now \in Nat, Sound(t), Live(t.row)
    PROVE  /\ Expired(t) \in Timers
           /\ Sound(Expired(t))
           /\ Long(t, now) => Long(Expired(t), now)
PROOF
  <1>1. NoEntry \in Entries
    BY DEF NoEntry, Entries
  <1>2. CASE t.row.type = "DATE"
    <2> DEFINE s == [t EXCEPT !.row = DeleteTimer(t.row), !.cached = {}, !.entry = NoEntry]
    <2>1. DeleteTimer(t.row) \in Rows /\ DeleteTimer(t.row).deleted
          /\ DeleteTimer(t.row).exists = t.row.exists
      BY RowTypes DEF Timers, Rows, DeleteTimer
    <2>2. /\ s \in Timers /\ s.row = DeleteTimer(t.row)
          /\ s.creator = t.creator /\ s.members = t.members
      BY <1>1, <2>1 DEF Timers
    <2>3. Expired(t) = s
      BY <1>2 DEF Expired
    <2> HIDE DEF s
    <2>4. ~Live(s.row) /\ s.row.exists
      BY <2>1, <2>2 DEF Live
    <2>5. Sound(s)
      BY <2>1, <2>2, <2>4 DEF Sound
    <2> QED BY <2>2, <2>3, <2>4, <2>5 DEF Long
  <1>3. CASE t.row.type # "DATE"
    <2> DEFINE from == t.row.end - t.row.duration
               row == UpdatePauseTime(t.row, from, TRUE)
               s == [t EXCEPT !.row = row, !.entry = NoEntry]
    <2>1. t.row \in Rows /\ t.row.end \in Int /\ t.row.duration \in Int /\ from \in Int
      BY DEF Timers, Rows
    <2>3. Expired(t) = s
      BY <1>3 DEF Expired
    <2>4. from = t.row.end - t.row.duration
      OBVIOUS
    <2> HIDE DEF from
    <2>5. row \in Rows
      BY <2>1 DEF Rows, UpdatePauseTime
    <2>6. /\ row.exists = t.row.exists /\ row.deleted = t.row.deleted /\ row.duration = t.row.duration
          /\ row.end = t.row.end /\ row.paused /\ row.pauseTime = from
      BY <2>1 DEF Rows, UpdatePauseTime
    <2> HIDE DEF row
    <2>7. LongRow(t.row, now) => LongRow(row, now)
      BY <2>1, <2>4, <2>6 DEF LongRow
    <2> HIDE DEF s
    <2>8. Good(t, Accept(s)) /\ (Long(t, now) => Long(Accept(s).timer, now)) /\ Live(Accept(s).timer.row)
      BY <1>1, <2>5, <2>6, <2>7, RowGood DEF s
    <2> QED BY <2>3, <2>8 DEF Good, Accept
  <1> QED BY <1>2, <1>3

\* A countdown that ends lives on.
LEMMA ExpiredLives ==
    ASSUME NEW t \in Timers, Live(t.row), t.row.type # "DATE"
    PROVE  Live(Expired(t).row)
PROOF
  <1> DEFINE row == UpdatePauseTime(t.row, t.row.end - t.row.duration, TRUE)
  <1>1. Live(row)
    BY DEF Live, Timers, Rows, UpdatePauseTime
  <1>2. Expired(t) = [t EXCEPT !.row = row, !.entry = NoEntry]
    BY DEF Expired
  <1> HIDE DEF row
  <1>3. Expired(t).row = row
    BY <1>2 DEF Timers
  <1> QED BY <1>1, <1>3

\* Time only brings the second closer from which a duration counts.
LEMMA LaterLong ==
    ASSUME NEW t \in Timers, NEW now \in Nat, Long(t, now)
    PROVE  Long(t, now + 1)
BY DEF Long, LongRow, Timers, Rows

-----------------------------------------------------------------------------
(* The invariant *)

Unread == [User -> [Id -> NotificationTypes \cup {"none"}]]

IInv == /\ TypeOK
        /\ \A id \in Id : Sound(db[id])
        /\ \A id \in Id \ unchecked : Long(db[id], clock)

LEMMA ListsInId ==
    \A d, u, list : ListOf(d, u, list) \subseteq Id
BY DEF ListOf, UserTimers, UserCreatedTimers, UserSubscriptions

LEMMA NotifiedType ==
    ASSUME unread \in Unread, NEW users, NEW id \in Id, NEW type \in NotificationTypes
    PROVE  /\ Notified(users, id, type) \in Unread
           /\ \A u \in User :
                 Notified(users, id, type)[u][id] =
                     IF u \in users /\ unread[u][id] = "none" THEN type ELSE unread[u][id]
BY DEF Notified, Unread

LEMMA WalkTypes ==
    /\ NoWalk \in Walks
    /\ walk \in Walks /\ WalkOn => walk' \in Walks
PROOF
  <1>1. SomeUser \in User
    BY UserAssumption DEF SomeUser
  <1>2. NoWalk \in Walks
    BY <1>1 DEF NoWalk, Walks, Lists
  <1>3. ASSUME walk \in Walks, WalkOn PROVE walk' \in Walks
    <2>1. CASE walk.state = "open"
      <3>1. PICK due, shown : /\ due \in {walk.due, {}} /\ shown \in {walk.shown, {}}
                              /\ walk' = [walk EXCEPT !.due = due, !.shown = shown]
        BY <1>3, <2>1 DEF WalkOn
      <3>2. due \in SUBSET Id /\ shown \in SUBSET Id
        BY <1>3, <3>1 DEF Walks
      <3> QED BY <1>3, <3>1, <3>2 DEF Walks
    <2>2. CASE walk.state # "open"
      BY <1>2, <1>3, <2>2 DEF WalkOn
    <2> QED BY <2>1, <2>2
  <1> QED BY <1>2, <1>3

LEMMA InitIInv == Init => IInv
PROOF
  <1> SUFFICES ASSUME Init PROVE IInv
    OBVIOUS
  <1>1. SomeUser \in User
    BY UserAssumption DEF SomeUser
  <1>2. NoRow \in Rows /\ ~NoRow.exists /\ ~NoRow.deleted
    BY DEF NoRow, Rows, ZeroTime, TimerTypes
  <1>3. NoTimer \in Timers /\ NoTimer.row = NoRow /\ NoTimer.cached = {}
    BY <1>1, <1>2 DEF NoTimer, Timers, Entries, NoEntry
  <1>4. \A id \in Id : db[id] = NoTimer
    BY DEF Init
  <1>5. TypeOK
    BY <1>3, WalkTypes DEF TypeOK, Init, NotificationTypes
  <1>6. Sound(NoTimer) /\ Long(NoTimer, clock)
    BY <1>2, <1>3 DEF Sound, Long, Live
  <1> QED BY <1>4, <1>5, <1>6 DEF IInv

\* A step that changes one timer into another sound one.
LEMMA OneTimer ==
    ASSUME IInv, NEW id \in Id, NEW s \in Timers, Sound(s),
           db' = [db EXCEPT ![id] = s], clock' = clock,
           unchecked \subseteq unchecked', unchecked' \subseteq Id,
           id \in unchecked' \/ (Long(db[id], clock) => Long(s, clock)),
           unread' \in Unread, WalkOn
    PROVE  IInv'
PROOF
  <1>1. db \in [Id -> Timers] /\ clock \in Nat /\ walk \in Walks
    BY DEF IInv, TypeOK
  <1>2. db' \in [Id -> Timers]
    BY <1>1
  <1>3. walk' \in Walks
    BY <1>1, WalkTypes
  <1>4. TypeOK'
    BY <1>1, <1>2, <1>3 DEF TypeOK, Unread
  <1>5. \A x \in Id : db'[x] = IF x = id THEN s ELSE db[x]
    BY <1>1
  <1>6. (\A x \in Id : Sound(db[x]))'
    BY <1>5 DEF IInv
  <1>7. (\A x \in Id \ unchecked : Long(db[x], clock))'
    BY <1>5 DEF IInv
  <1> QED BY <1>4, <1>6, <1>7 DEF IInv

LEMMA StepIInv == IInv /\ [Next]_vars => IInv'
PROOF
  <1> SUFFICES ASSUME IInv, [Next]_vars PROVE IInv'
    OBVIOUS
  <1>0. /\ db \in [Id -> Timers] /\ clock \in Nat /\ walk \in Walks
        /\ unread \in Unread /\ unchecked \in SUBSET Id
        /\ \A id \in Id : db[id] \in Timers /\ Sound(db[id])
    BY DEF IInv, TypeOK, Unread
  <1>1. ASSUME NEW q \in Requests, Serve(q) PROVE IInv'
    <2> DEFINE t == db[q.id]
               a == Answer(t, q, clock)
    <2>1. q.id \in Id /\ t \in Timers /\ Sound(t)
      BY <1>0, RequestAssumption DEF RequestTypes
    <2>2. /\ a.timer \in Timers /\ Sound(a.timer)
          /\ \/ a.code = "ok" /\ Unchecked(t, q, clock)
             \/ Long(t, clock) => Long(a.timer, clock)
      BY <1>0, <2>1, AnswerGood DEF Good
    <2>3. db' = [db EXCEPT ![q.id] = a.timer] /\ clock' = clock /\ WalkOn
      BY <1>1 DEF Serve
    <2>4. unchecked' = IF a.code = "ok" /\ Unchecked(t, q, clock)
                       THEN unchecked \cup {q.id} ELSE unchecked
      BY <1>1 DEF Serve
    <2>6. unread' \in Unread
      <3>1. unread' = unread \/ unread' = Notified(Told(t, FALSE), q.id, "delete")
        BY <1>1 DEF Serve
      <3>2. Notified(Told(t, FALSE), q.id, "delete") \in Unread
        BY <1>0, <2>1, NotifiedType DEF NotificationTypes
      <3> QED BY <1>0, <3>1, <3>2
    <2> HIDE DEF a, t
    <2>7. /\ unchecked \subseteq unchecked' /\ unchecked' \subseteq Id
          /\ q.id \in unchecked' \/ (Long(t, clock) => Long(a.timer, clock))
      BY <1>0, <2>1, <2>2, <2>4
    <2> QED BY <2>1, <2>2, <2>3, <2>6, <2>7, OneTimer DEF t
  <1>2. ASSUME NEW q \in Requests, ClearNotifications(q) PROVE IInv'
    <2>1. unread' \in Unread
      BY <1>0, <1>2 DEF ClearNotifications, Unread
    <2> QED BY <1>0, <1>2, <2>1 DEF ClearNotifications, IInv, TypeOK, Unread
  <1>3. ASSUME NEW id \in Id, Expire(id) PROVE IInv'
    <2>1. clock' = clock /\ unchecked' = unchecked /\ WalkOn
      BY <1>3 DEF Expire
    <2>3. unread' \in Unread
      <3>1. unread' = unread \/ unread' = Notified(Told(db[id], TRUE), id, "expired")
        BY <1>3 DEF Expire
      <3>2. Notified(Told(db[id], TRUE), id, "expired") \in Unread
        BY <1>0, NotifiedType DEF NotificationTypes
      <3> QED BY <1>0, <3>1, <3>2
    <2>4. CASE Live(db[id].row)
      <3>1. db' = [db EXCEPT ![id] = Expired(db[id])]
        BY <1>3, <2>4 DEF Expire
      <3>2. /\ Expired(db[id]) \in Timers /\ Sound(Expired(db[id]))
            /\ Long(db[id], clock) => Long(Expired(db[id]), clock)
        BY <1>0, <2>4, ExpiredGood
      <3> QED BY <1>0, <2>1, <2>3, <3>1, <3>2, OneTimer
    <2>5. CASE ~Live(db[id].row)
      <3> DEFINE s == [db[id] EXCEPT !.entry = NoEntry]
      <3>1. db' = [db EXCEPT ![id] = s]
        BY <1>3, <2>5 DEF Expire
      <3>2. /\ s \in Timers /\ s.row = db[id].row /\ s.cached = db[id].cached
            /\ s.creator = db[id].creator /\ s.members = db[id].members
        BY <1>0 DEF Timers, Entries, NoEntry
      <3> HIDE DEF s
      <3>3. Sound(s) /\ Long(s, clock)
        BY <1>0, <2>5, <3>2 DEF Sound, Long
      <3> QED BY <1>0, <2>1, <2>3, <3>1, <3>2, <3>3, OneTimer
    <2> QED BY <2>4, <2>5
  <1>4. CASE Clock
    <2>1. \A id \in Id \ unchecked : Long(db[id], clock + 1)
      BY <1>0, LaterLong DEF IInv
    <2> QED BY <1>0, <1>4, <2>1 DEF Clock, IInv, TypeOK
  <1>5. ASSUME NEW w \in Walked, BeginWalk(w[1], w[2]) PROVE IInv'
    <2>1. w[1] \in User /\ w[2] \in Lists
      BY WalkAssumption
    <2>2. ListOf(db, w[1], w[2]) \in SUBSET Id
      BY ListsInId
    <2>3. walk' \in Walks
      BY <1>5, <2>1, <2>2, WalkTypes DEF BeginWalk, Walks
    <2> QED BY <1>0, <1>5, <2>3 DEF BeginWalk, IInv, TypeOK
  <1>6. CASE NextPage
    <2> DEFINE page == Page(db, walk.user, walk.list, walk.offset)
    <2>1. page \in SUBSET Id
      BY ListsInId DEF Page
    <2>2. /\ walk.due \ page \in SUBSET Id /\ walk.shown \cup page \in SUBSET Id
          /\ walk.offset + Limit \in Nat
      BY <1>0, <2>1, BoundAssumption DEF Walks
    <2>3. PICK state \in {"done", "open"}, twice \in BOOLEAN :
            walk' = [walk EXCEPT !.state = state, !.offset = walk.offset + Limit,
                                 !.due = walk.due \ page, !.shown = walk.shown \cup page,
                                 !.twice = twice]
      <3> HIDE DEF page
      <3> QED BY <1>0, <1>6 DEF NextPage, page, Walks
    <2> HIDE DEF page
    <2>4. walk' \in Walks
      BY <1>0, <2>2, <2>3 DEF Walks
    <2> QED BY <1>0, <1>6, <2>4 DEF NextPage, IInv, TypeOK
  <1>7. CASE UNCHANGED vars
    BY <1>7 DEF vars, IInv, TypeOK
  <1> QED BY <1>1, <1>2, <1>3, <1>4, <1>5, <1>6, <1>7 DEF Next

LEMMA Invariant == Spec => []IInv
BY InitIInv, StepIInv, PTL DEF Spec

-----------------------------------------------------------------------------
(* Theorems *)

\* The stores, the notifications and a client's walk keep their types.
THEOREM TypeCorrect == Spec => []TypeOK
PROOF
  <1>1. IInv => TypeOK
    BY DEF IInv
  <1> QED BY <1>1, Invariant, PTL

\* The two lists of a user's own and of his subscriptions divide the whole.
THEOREM ListsDivide == Spec => []ListsAgree
PROOF
  <1>1. IInv => ListsAgree
    <2> SUFFICES ASSUME IInv, NEW u \in User
                 PROVE  /\ UserTimers(db, u) = UserCreatedTimers(db, u) \cup UserSubscriptions(db, u)
                        /\ UserCreatedTimers(db, u) \cap UserSubscriptions(db, u) = {}
      BY DEF ListsAgree
    <2>1. \A id \in Id : Live(db[id].row) => db[id].creator \in db[id].members
      BY DEF IInv, Sound, Live
    <2> QED BY <2>1 DEF UserTimers, UserCreatedTimers, UserSubscriptions
  <1> QED BY <1>1, Invariant, PTL

\* Refusals leave no trace but the id of a Create that was undone.
THEOREM RefusalsLeave == Spec => []RefusalLeaves
PROOF
  <1>1. IInv => RefusalLeaves
    <2> SUFFICES ASSUME IInv, NEW q \in Requests
                 PROVE  Leaves(db[q.id], Answer(db[q.id], q, clock))
      BY DEF RefusalLeaves, Leaves
    <2>1. q.id \in Id
      BY RequestAssumption DEF RequestTypes
    <2>2. db[q.id] \in Timers /\ Sound(db[q.id]) /\ clock \in Nat
      BY <2>1 DEF IInv, TypeOK
    <2> QED BY <2>2, AnswerGood DEF Good
  <1> QED BY <1>1, Invariant, PTL

\* No sequence of requests and expiries makes a timer shorter than the minimum
\* while all its times are ones that the code compares.
THEOREM DurationsKept == Spec => []DurationKept
PROOF
  <1>1. IInv => DurationKept
    BY DEF IInv, Long, LongRow, DurationKept
  <1> QED BY <1>1, Invariant, PTL

\* An answer to Delete that takes the timer away.
LEMMA DeleteAnswer ==
    ASSUME NEW t \in Timers, NEW q \in RequestTypes, NEW now \in Nat, q.call = "delete",
           Live(t.row), ~Live(Answer(t, q, now).timer.row)
    PROVE  Answer(t, q, now).code = "ok" /\ Answer(t, q, now).timer.row.exists
PROOF
  <1>1. Answer(t, q, now) = Delete(t, q)
    BY AnswerCases, Routes DEF Refuse
  <1>2. CheckAccess(t, q.user) = "ok"
    BY <1>1 DEF Delete, Check, Refuse
  <1> DEFINE gone == [t EXCEPT !.row = DeleteTimer(t.row),
                               !.entry = IF t.row.paused THEN t.entry ELSE NoEntry,
                               !.cached = {}]
  <1>3. Delete(t, q) = Accept(gone)
    BY <1>2 DEF Delete, Check
  <1>4. gone.row = DeleteTimer(t.row)
    BY DEF Timers
  <1>5. DeleteTimer(t.row).exists
    BY DEF Timers, Rows, DeleteTimer, Live
  <1> HIDE DEF gone
  <1> QED BY <1>1, <1>3, <1>4, <1>5 DEF Accept

\* What u finds of timer id once it is gone, with the rows as in EndIsTold.
Finds(id, u) ==
    IF unread[u][id] = "none"
    THEN \/ <<id, "delete">> \in UserNotifications(db, u)'
         \/ db[id].row.type = "DATE" /\ <<id, "expired">> \in UserNotifications(db, u)'
    ELSE <<id, unread[u][id]>> \in UserNotifications(db, u)'

\* A user who is told, or who has an older notification, finds it.
LEMMA FindsIt ==
    ASSUME unread \in Unread, NEW users, NEW id \in Id, NEW u \in users, u \in User,
           NEW type \in NotificationTypes,
           type = "delete" \/ db[id].row.type = "DATE",
           unread' = Notified(users, id, type), db'[id].row.exists
    PROVE  Finds(id, u)
PROOF
  <1>1. unread'[u][id] = IF unread[u][id] = "none" THEN type ELSE unread[u][id]
    BY NotifiedType
  <1>2. unread[u][id] \in NotificationTypes \cup {"none"}
    BY DEF Unread
  <1>3. ASSUME NEW n \in NotificationTypes, unread'[u][id] = n
        PROVE  <<id, n>> \in UserNotifications(db, u)'
    BY <1>3 DEF UserNotifications
  <1>4. CASE unread[u][id] = "none"
    <2>1. <<id, type>> \in UserNotifications(db, u)'
      BY <1>1, <1>3, <1>4
    <2>2. type = "delete" \/ (type = "expired" /\ db[id].row.type = "DATE")
      BY DEF NotificationTypes
    <2> QED BY <1>4, <2>1, <2>2 DEF Finds
  <1>5. CASE unread[u][id] # "none"
    <2>1. unread[u][id] \in NotificationTypes /\ unread'[u][id] = unread[u][id]
      BY <1>1, <1>2, <1>5
    <2> QED BY <1>3, <1>5, <2>1 DEF Finds
  <1> QED BY <1>4, <1>5

\* Nobody but the creator, who knows, is left without the notification of a
\* timer's end, unless an older one of the timer lies unread.
THEOREM EndsAreTold == Spec => EndIsTold
PROOF
  <1>1. ASSUME IInv, [Next]_vars, NEW id \in Id, Live(db[id].row), ~Live(db'[id].row),
               NEW u \in db[id].members \ {db[id].creator}
        PROVE  Finds(id, u)
    <2>1. /\ db \in [Id -> Timers] /\ db[id] \in Timers /\ clock \in Nat /\ unread \in Unread
          /\ Sound(db[id]) /\ db[id].cached = db[id].members
      BY <1>1 DEF IInv, TypeOK, Sound, Unread
    <2>2. db'[id] # db[id]
      BY <1>1
    <2>6. u \in User /\ u \in Told(db[id], FALSE) /\ u \in Told(db[id], TRUE)
      BY <1>1, <2>1 DEF Timers, Told
    <2>3. ASSUME NEW q \in Requests, Serve(q) PROVE Finds(id, u)
      <3> DEFINE a == Answer(db[q.id], q, clock)
      <3>1. q \in RequestTypes
        BY RequestAssumption
      <3>2. db' = [db EXCEPT ![q.id] = a.timer]
        BY <2>3 DEF Serve
      <3>3. q.id = id /\ db'[id] = a.timer
        BY <2>1, <2>2, <3>2
      <3>4. q.call = "delete"
        BY <1>1, <2>1, <3>3, AnswerGood
      <3>5. a.code = "ok" /\ a.timer.row.exists
        BY <1>1, <2>1, <3>1, <3>3, <3>4, DeleteAnswer
      <3>6. unread' = Notified(Told(db[id], FALSE), id, "delete")
        BY <2>3, <3>3, <3>4, <3>5 DEF Serve
      <3> QED BY <2>1, <2>6, <3>3, <3>5, <3>6, FindsIt DEF NotificationTypes
    <2>4. ASSUME NEW x \in Id, Expire(x) PROVE Finds(id, u)
      <3>1. PICK s : db' = [db EXCEPT ![x] = s]
        BY <2>4 DEF Expire
      <3>2. x = id
        BY <2>1, <2>2, <3>1
      <3>3. /\ db' = [db EXCEPT ![id] = Expired(db[id])]
            /\ unread' = Notified(Told(db[id], TRUE), id, "expired")
        BY <1>1, <2>4, <3>2 DEF Expire
      <3>4. db'[id] = Expired(db[id])
        BY <2>1, <3>3
      <3>5. db[id].row.type = "DATE"
        BY <1>1, <2>1, <3>4, ExpiredLives
      <3>6. DeleteTimer(db[id].row).exists
        BY <1>1, <2>1 DEF Timers, Rows, DeleteTimer, Live
      <3>7. db'[id].row = DeleteTimer(db[id].row)
        BY <2>1, <3>4, <3>5 DEF Expired, Timers
      <3> QED BY <2>1, <2>6, <3>3, <3>5, <3>6, <3>7, FindsIt DEF NotificationTypes
    <2>5. ASSUME db' = db PROVE FALSE
      BY <2>2, <2>5
    <2> QED BY <1>1, <2>3, <2>4, <2>5 DEF Next, ClearNotifications, Clock, BeginWalk, NextPage, vars
  <1>2. IInv /\ [Next]_vars =>
          [\A id \in Id : Live(db[id].row) /\ ~Live(db'[id].row) =>
             \A u \in db[id].members \ {db[id].creator} :
               IF unread[u][id] = "none"
               THEN \/ <<id, "delete">> \in UserNotifications(db, u)'
                    \/ db[id].row.type = "DATE" /\ <<id, "expired">> \in UserNotifications(db, u)'
               ELSE <<id, unread[u][id]>> \in UserNotifications(db, u)']_vars
    BY <1>1 DEF Finds
  <1> QED BY <1>2, Invariant, PTL DEF Spec, EndIsTold

-----------------------------------------------------------------------------
(* Repeated requests *)

\* A statement that writes what is there.
LEMMA SameRow ==
    ASSUME NEW row \in Rows
    PROVE  /\ UpdateTime(row, row.end) = row
           /\ UpdateTimer(row, row.end) = row
           /\ row.paused => UpdatePauseTime(row, row.pauseTime, TRUE) = row
PROOF
  <1>1. UpdateTime(row, row.end) = row
    BY DEF Rows, UpdateTime
  <1>2. UpdateTimer(row, row.end) = row
    <2>1. row.duration + (row.end - row.end) = row.duration
      BY DEF Rows
    <2>2. UpdateTimer(row, row.end) = [row EXCEPT !.end = row.end, !.duration = row.duration]
      BY <2>1 DEF UpdateTimer
    <2> QED BY <2>2 DEF Rows
  <1>3. ASSUME row.paused PROVE UpdatePauseTime(row, row.pauseTime, TRUE) = row
    <2>1. row.paused = TRUE
      BY <1>3 DEF Rows
    <2>2. UpdatePauseTime(row, row.pauseTime, TRUE) = [row EXCEPT !.paused = row.paused, !.pauseTime = row.pauseTime]
      BY <2>1 DEF UpdatePauseTime
    <2> QED BY <2>2 DEF Rows
  <1> QED BY <1>1, <1>2, <1>3

LEMMA SameTimer ==
    ASSUME NEW t \in Timers
    PROVE  /\ [t EXCEPT !.row = t.row] = t
           /\ [t EXCEPT !.row = t.row, !.entry = t.entry] = t
           /\ [[t EXCEPT !.row = t.row] EXCEPT !.entry = t.entry] = t
           /\ [t EXCEPT !.cached = t.cached, !.members = t.members] = t
BY DEF Timers

\* Each operation, done twice in one second.
LEMMA CreateTwice ==
    ASSUME NEW t \in Timers, NEW q \in RequestTypes, NEW now \in Nat, NEW s,
           Create(t, q, now).timer = s
    PROVE  Create(s, q, now).timer = s
PROOF
  <1>2. CASE InsertStatement(t, q) # "ok"
    <2>1. s = t
      BY <1>2 DEF Create, Refuse
    <2> QED BY <2>1
  <1>3. CASE InsertStatement(t, q) = "ok"
    <2> DEFINE new == Inserted(t, q, now)
               gone == [new EXCEPT !.row = DeleteTimer(new.row)]
               left == [gone EXCEPT !.cached = {}]
               made == [new EXCEPT !.cached = t.cached \cup {q.user}, !.entry = new.row.end]
               row == InsertTimer(q.type, now - q.ago, now + q.left)
    <2>1. row.exists /\ DeleteTimer(row).exists
      BY DEF InsertTimer, DeleteTimer
    <2> HIDE DEF row
    <2>2. new.row = row /\ gone.row = DeleteTimer(row) /\ left.row = gone.row /\ made.row = row
      BY DEF Inserted, Timers, row
    <2>3. s \in {gone, left, made}
      <3>1. Create(t, q, now).timer \in {gone, left, made}
        BY <1>3 DEF Create, Refuse, Accept
      <3> QED BY <3>1
    <2> HIDE DEF new, gone, left, made
    <2>4. InsertStatement(s, q) # "ok"
      BY <2>1, <2>2, <2>3 DEF InsertStatement
    <2> QED BY <2>4 DEF Create, Refuse
  <1> QED BY <1>2, <1>3

LEMMA DeleteTwice ==
    ASSUME NEW t \in Timers, NEW q \in RequestTypes, NEW s, Delete(t, q).timer = s
    PROVE  Delete(s, q).timer = s
PROOF
  <1>1. CASE CheckAccess(t, q.user) # "ok"
    <2>1. s = t
      BY <1>1 DEF Delete, Check, Refuse
    <2> QED BY <2>1
  <1>2. CASE CheckAccess(t, q.user) = "ok"
    <2>1. s = [t EXCEPT !.row = DeleteTimer(t.row),
                        !.entry = IF t.row.paused THEN t.entry ELSE NoEntry,
                        !.cached = {}]
      BY <1>2 DEF Delete, Check, Accept
    <2>2. s.row = DeleteTimer(t.row)
      BY <2>1 DEF Timers
    <2>3. DeleteTimer(t.row).deleted
      BY DEF Timers, Rows, DeleteTimer
    <2>4. CheckAccess(s, q.user) # "ok"
      BY <2>2, <2>3 DEF CheckAccess, Live
    <2> QED BY <2>4 DEF Delete, Check, Refuse
  <1> QED BY <1>1, <1>2

LEMMA UpdateTwice ==
    ASSUME NEW t \in Timers, NEW q \in RequestTypes, NEW now \in Nat, NEW s \in Timers,
           Update(t, q, now).timer = s
    PROVE  Update(s, q, now).timer = s
PROOF
  <1> DEFINE end == now + q.left
             moved(x) == [x EXCEPT !.row = UpdateTimer(x.row, end)]
             told(x) == [moved(x) EXCEPT !.entry = end]
  <1>1. ASSUME NEW x
        PROVE  \/ \E code : Update(x, q, now) = Refuse(x, code)
               \/ x.row.paused /\ Update(x, q, now) = Accept(moved(x))
               \/ ~x.row.paused /\ Update(x, q, now) = Accept(told(x))
    BY DEF Update, Check
  <1>2. end \in Int
    BY DEF RequestTypes
  <1> HIDE DEF end
  <1>3. UpdateTimer(t.row, end).end = end /\ UpdateTimer(t.row, end).paused = t.row.paused
    BY <1>2 DEF Timers, Rows, UpdateTimer
  <1>4. CASE \E code : Update(t, q, now) = Refuse(t, code)
    BY <1>4 DEF Refuse
  <1>5. CASE t.row.paused /\ Update(t, q, now) = Accept(moved(t))
    <2>1. s = moved(t)
      BY <1>5 DEF Accept
    <2>2. s.row = UpdateTimer(t.row, end)
      BY <2>1 DEF Timers
    <2>3. s.row.end = end /\ s.row.paused
      BY <1>3, <1>5, <2>2
    <2>4. UpdateTimer(s.row, end) = s.row
      BY <2>3, SameRow DEF Timers
    <2>5. moved(s) = s
      BY <2>4, SameTimer
    <2> HIDE DEF moved, told
    <2>6. (\E code : Update(s, q, now) = Refuse(s, code)) \/ Update(s, q, now) = Accept(s)
      BY <1>1, <2>3, <2>5
    <2> QED BY <2>6 DEF Accept, Refuse
  <1>6. CASE ~t.row.paused /\ Update(t, q, now) = Accept(told(t))
    <2>1. s = told(t)
      BY <1>6 DEF Accept
    <2>2. s.row = UpdateTimer(t.row, end) /\ s.entry = end
      BY <2>1 DEF Timers
    <2>3. s.row.end = end /\ ~s.row.paused
      BY <1>3, <1>6, <2>2
    <2>4. UpdateTimer(s.row, end) = s.row
      BY <2>3, SameRow DEF Timers
    <2>5. told(s) = s
      BY <2>2, <2>4, SameTimer
    <2> HIDE DEF moved, told
    <2>6. (\E code : Update(s, q, now) = Refuse(s, code)) \/ Update(s, q, now) = Accept(s)
      BY <1>1, <2>3, <2>5
    <2> QED BY <2>6 DEF Accept, Refuse
  <1> HIDE DEF moved, told
  <1> QED BY <1>1, <1>4, <1>5, <1>6

LEMMA SubscribeTwice ==
    ASSUME NEW t \in Timers, NEW q \in RequestTypes, NEW s, Subscribe(t, q).timer = s
    PROVE  Subscribe(s, q).timer = s
PROOF
  <1> DEFINE more == [t EXCEPT !.cached = t.cached \cup {q.user}, !.members = t.members \cup {q.user}]
  <1>1. s = t \/ s = more
    BY DEF Subscribe, Refuse, Accept
  <1>2. CASE s = more
    <2>1. q.user \in s.cached
      BY <1>2 DEF Timers
    <2>2. \E code : Subscribe(s, q) = Refuse(s, code)
      BY <2>1 DEF Subscribe
    <2> QED BY <2>2 DEF Refuse
  <1> QED BY <1>1, <1>2

LEMMA UnsubscribeTwice ==
    ASSUME NEW t \in Timers, NEW q \in RequestTypes, NEW s \in Timers, Unsubscribe(t, q).timer = s
    PROVE  Unsubscribe(s, q).timer = s
PROOF
  <1> DEFINE less(x) == [x EXCEPT !.cached = x.cached \ {q.user}, !.members = x.members \ {q.user}]
  <1>1. s = t \/ s = less(t)
    BY DEF Unsubscribe, CachedSubscribers, Check, Refuse, Accept
  <1>2. CASE s = less(t)
    <2>1. s.cached = t.cached \ {q.user} /\ s.members = t.members \ {q.user}
      BY <1>2 DEF Timers
    <2>2. s.cached \ {q.user} = s.cached /\ s.members \ {q.user} = s.members
      BY <2>1
    <2>3. less(s) = s
      BY <2>2, SameTimer
    <2>4. (\E code : Unsubscribe(s, q) = Refuse(s, code)) \/ Unsubscribe(s, q) = Accept(less(s))
      BY DEF Unsubscribe, CachedSubscribers, Check
    <2> HIDE DEF less
    <2> QED BY <2>3, <2>4 DEF Refuse, Accept
  <1> QED BY <1>1, <1>2

LEMMA StopTwice ==
    ASSUME NEW t \in Timers, NEW q \in RequestTypes, NEW now \in Nat, NEW s,
           Stop(t, q, now).timer = s
    PROVE  Stop(s, q, now).timer = s
PROOF
  <1> DEFINE row == UpdatePauseTime(t.row, now - q.ago, TRUE)
             stopped == [t EXCEPT !.row = row, !.entry = NoEntry]
  <1>1. row.paused
    BY DEF Timers, Rows, UpdatePauseTime
  <1>2. s = t \/ s = stopped
    BY DEF Stop, Check, Refuse, Accept
  <1> HIDE DEF row
  <1>3. CASE s = stopped
    <2>1. s.row.paused
      BY <1>1, <1>3 DEF Timers
    <2>2. \E code : Stop(s, q, now) = Refuse(s, code)
      BY <2>1 DEF Stop, Check
    <2> QED BY <2>2 DEF Refuse
  <1> HIDE DEF stopped
  <1> QED BY <1>2, <1>3

LEMMA StartTwice ==
    ASSUME NEW t \in Timers, NEW q \in RequestTypes, NEW now \in Nat, NEW s,
           Start(t, q, now).timer = s
    PROVE  Start(s, q, now).timer = s
PROOF
  <1> DEFINE end == t.row.end + (now - t.row.pauseTime)
             row == UpdatePauseTime(UpdateTime(t.row, end), ZeroTime, FALSE)
             started == [t EXCEPT !.row = row, !.entry = end]
  <1>1. s = t \/ s = started
    BY DEF Start, Check, Refuse, Accept
  <1> HIDE DEF end
  <1>2. ~row.paused
    BY DEF Timers, Rows, UpdatePauseTime, UpdateTime
  <1> HIDE DEF row
  <1>3. CASE s = started
    <2>1. ~s.row.paused
      BY <1>2, <1>3 DEF Timers
    <2>2. \E code : Start(s, q, now) = Refuse(s, code)
      BY <2>1 DEF Start, Check
    <2> QED BY <2>2 DEF Refuse
  <1> HIDE DEF started
  <1> QED BY <1>1, <1>3

LEMMA ResetTwice ==
    ASSUME NEW t \in Timers, NEW q \in RequestTypes, NEW now \in Nat, NEW s \in Timers,
           Reset(t, q, now).timer = s
    PROVE  Reset(s, q, now).timer = s
PROOF
  <1> DEFINE end(x) == now + x.row.duration
             row(x) == IF x.row.paused THEN UpdatePauseTime(UpdateTime(x.row, end(x)), now, TRUE)
                       ELSE UpdateTime(x.row, end(x))
             again(x) == [x EXCEPT !.row = row(x)]
  <1>1. ASSUME NEW x
        PROVE  (\E code : Reset(x, q, now) = Refuse(x, code)) \/ Reset(x, q, now) = Accept(again(x))
    BY DEF Reset, Check
  <1>2. CASE \E code : Reset(t, q, now) = Refuse(t, code)
    BY <1>2 DEF Refuse
  <1>3. CASE Reset(t, q, now) = Accept(again(t))
    <2>1. s = again(t)
      <3> HIDE DEF again
      <3> QED BY <1>3 DEF Accept
    <2>2. s.row = row(t)
      BY <2>1 DEF Timers
    <2>3. end(t) \in Int
      BY DEF Timers, Rows
    <2> DEFINE e == end(t)
    <2>4. e \in Int /\ row(t) = IF t.row.paused THEN UpdatePauseTime(UpdateTime(t.row, e), now, TRUE)
                                ELSE UpdateTime(t.row, e)
      BY <2>3
    <2> HIDE DEF e, row
    <2>5. s.row.end = e /\ s.row.duration = t.row.duration /\ s.row.paused = t.row.paused
      BY <2>2, <2>4 DEF Timers, Rows, UpdateTime, UpdatePauseTime
    <2>6. s.row.paused => s.row.pauseTime = now
      BY <2>2, <2>4, <2>5 DEF Timers, Rows, UpdateTime, UpdatePauseTime
    <2>7. end(s) = s.row.end
      BY <2>5 DEF e
    <2>8. s.row \in Rows
      BY DEF Timers
    <2>9. UpdateTime(s.row, end(s)) = s.row
      BY <2>7, <2>8, SameRow
    <2>10. s.row.paused => UpdatePauseTime(s.row, now, TRUE) = s.row
      BY <2>6, <2>8, SameRow
    <2>11. row(s) = s.row
      BY <2>9, <2>10 DEF row
    <2>12. again(s) = s
      BY <2>11, SameTimer
    <2> HIDE DEF again
    <2>13. (\E code : Reset(s, q, now) = Refuse(s, code)) \/ Reset(s, q, now) = Accept(s)
      BY <1>1, <2>12
    <2> QED BY <2>13 DEF Refuse, Accept
  <1> HIDE DEF again
  <1> QED BY <1>1, <1>2, <1>3

LEMMA HandleTwice ==
    ASSUME NEW t \in Timers, NEW q \in RequestTypes, NEW now \in Nat, NEW s \in Timers,
           Handle(t, q, now).timer = s
    PROVE  Handle(s, q, now).timer = s
PROOF
  <1>1. CASE q.call = "create"
    <2>1. CASE Validate(q) = "ok"
      <3>1. Handle(t, q, now) = Create(t, q, now) /\ Handle(s, q, now) = Create(s, q, now)
        BY <1>1, <2>1, Routes DEF Check
      <3> QED BY <3>1, CreateTwice
    <2>2. CASE Validate(q) # "ok"
      <3>1. Handle(s, q, now) = Refuse(s, Validate(q))
        BY <1>1, <2>2, Routes DEF Check
      <3> QED BY <3>1 DEF Refuse
    <2> QED BY <2>1, <2>2
  <1>2. CASE q.call = "delete"
    BY <1>2, Routes, DeleteTwice
  <1>3. CASE q.call = "update"
    <2>1. Handle(t, q, now) = Update(t, q, now) /\ Handle(s, q, now) = Update(s, q, now)
      BY <1>3, Routes
    <2>2. Update(s, q, now).timer = s
      BY <2>1, UpdateTwice
    <2> QED BY <2>1, <2>2
  <1>4. CASE q.call = "subscribe"
    BY <1>4, Routes, SubscribeTwice
  <1>5. CASE q.call = "unsubscribe"
    BY <1>5, Routes, UnsubscribeTwice
  <1>6. CASE q.call = "stop"
    <2>1. Handle(t, q, now) = Stop(t, q, now) /\ Handle(s, q, now) = Stop(s, q, now)
      BY <1>6, Routes
    <2>2. Stop(s, q, now).timer = s
      BY <2>1, StopTwice
    <2> QED BY <2>1, <2>2
  <1>7. CASE q.call = "start"
    <2>1. Handle(t, q, now) = Start(t, q, now) /\ Handle(s, q, now) = Start(s, q, now)
      BY <1>7, Routes
    <2>2. Start(s, q, now).timer = s
      BY <2>1, StartTwice
    <2> QED BY <2>1, <2>2
  <1>8. CASE q.call = "reset"
    <2>1. Handle(t, q, now) = Reset(t, q, now) /\ Handle(s, q, now) = Reset(s, q, now)
      BY <1>8, Routes
    <2>2. Reset(s, q, now).timer = s
      BY <2>1, ResetTwice
    <2> QED BY <2>1, <2>2
  <1>9. CASE q.call \notin Changes
    BY <1>9, Routes
  <1> QED BY <1>1, <1>2, <1>3, <1>4, <1>5, <1>6, <1>7, <1>8, <1>9 DEF Changes

\* A request may be repeated at once.
THEOREM RetriesSafe == Spec => []RetrySafe
PROOF
  <1>1. IInv => RetrySafe
    <2> SUFFICES ASSUME IInv, NEW q \in Requests
                 PROVE  LET once == Answer(db[q.id], q, clock).timer
                        IN  Answer(once, q, clock).timer = once
      BY DEF RetrySafe
    <2> DEFINE t == db[q.id]
               s == Answer(t, q, clock).timer
    <2>1. q \in RequestTypes /\ q.id \in Id
      BY RequestAssumption DEF RequestTypes
    <2>2. t \in Timers /\ Sound(t) /\ clock \in Nat
      BY <2>1 DEF IInv, TypeOK
    <2>3. s \in Timers
      BY <2>2, AnswerGood DEF Good
    <2> HIDE DEF t
    <2>4. CASE Answer(t, q, clock) = Handle(t, q, clock)
      <3>1. Handle(s, q, clock).timer = s
        BY <2>1, <2>2, <2>3, <2>4, HandleTwice
      <3> HIDE DEF s
      <3>2. Answer(s, q, clock).timer = s
        BY <3>1, AnswerCases DEF Refuse
      <3> QED BY <3>2 DEF s, t
    <2>5. CASE \E code : Answer(t, q, clock) = Refuse(t, code)
      <3>1. s = t
        BY <2>5 DEF Refuse
      <3> QED BY <3>1 DEF t
    <2> QED BY <2>4, <2>5, AnswerCases
  <1> QED BY <1>1, Invariant, PTL

-----------------------------------------------------------------------------
(* Statuses *)

\* The codes that have a status other than the internal error's.
Known == {"ok", "sign_failed", "user_forbidden", "not_found", "subscribers_not_found",
          "color_not_found", "type_not_found", "exists", "wrong_time", "nil_id", "is_paused",
          "is_playing", "user_already_subscriber", "creator_unsubscribe"}

LEMMA KnownStatus ==
    ASSUME NEW q, NEW code \in Known
    PROVE  Status(q, code) # 500
BY DEF Known, Status, HttpCode, Success

\* What the handlers answer to a request whose name fits its column and whose
\* page is one.
LEMMA KnownCodes ==
    ASSUME NEW t \in Timers, NEW q \in RequestTypes, NEW now, q.name # "long",
           q.call \in Lists => q.page # "negative"
    PROVE  Handle(t, q, now).code \in Known
PROOF
  <1>3. /\ \A user : CheckAccess(t, user) \in Known
        /\ \A user : CheckCountDownTimer(t, user) \in Known
        /\ \A end : AddError(t.entry, end, now) \in Known /\ UpdateError(t.entry, end, now) \in Known
        /\ RemoveError(t.entry) \in Known
        /\ UpdateStatement(q) \in Known /\ CheckSettingsEndTime(t, q, now) \in Known
        /\ Validate(q) \in Known
    BY DEF Known, CheckAccess, CheckCountDownTimer, AddError, UpdateError, RemoveError,
           UpdateStatement, CheckSettingsEndTime, Validate, ValidateFields
  <1>4. "ok" \in Known /\ "is_paused" \in Known /\ "is_playing" \in Known /\ "not_found" \in Known
        /\ "user_already_subscriber" \in Known /\ "subscribers_not_found" \in Known
        /\ "creator_unsubscribe" \in Known
    BY DEF Known
  <1>5. CASE q.call = "create"
    <2>1. ASSUME Validate(q) = "ok" PROVE InsertStatement(t, q) \in Known
      <3>1. q.color # "other"
        BY <2>1 DEF Validate, ValidateFields
      <3> QED BY <3>1 DEF InsertStatement, Known
    <2>2. ASSUME Validate(q) = "ok" PROVE Create(t, q, now).code \in Known
      BY <1>3, <1>4, <2>1, <2>2 DEF Create, Refuse, Accept
    <2> QED BY <1>3, <1>5, <2>2, Routes DEF Check, Refuse
  <1>6. CASE q.call = "delete"
    <2>1. Delete(t, q).code \in Known
      BY <1>3, <1>4 DEF Delete, Check, Refuse, Accept
    <2> QED BY <1>6, <2>1, Routes
  <1>7. CASE q.call = "update"
    <2>1. Update(t, q, now).code \in Known
      BY <1>3, <1>4 DEF Update, Check, Refuse, Accept
    <2> QED BY <1>7, <2>1, Routes
  <1>8. CASE q.call = "subscribe"
    <2>1. Subscribe(t, q).code \in Known
      BY <1>4 DEF Subscribe, Refuse, Accept
    <2> QED BY <1>8, <2>1, Routes
  <1>9. CASE q.call = "unsubscribe"
    <2>1. Unsubscribe(t, q).code \in Known
      BY <1>4 DEF Unsubscribe, CachedSubscribers, Check, Refuse, Accept
    <2> QED BY <1>9, <2>1, Routes
  <1>10. CASE q.call = "stop"
    <2>1. Stop(t, q, now).code \in Known
      BY <1>3, <1>4 DEF Stop, Check, Refuse, Accept
    <2> QED BY <1>10, <2>1, Routes
  <1>11. CASE q.call = "start"
    <2>1. Start(t, q, now).code \in Known
      BY <1>3, <1>4 DEF Start, Check, Refuse, Accept
    <2> QED BY <1>11, <2>1, Routes
  <1>12. CASE q.call = "reset"
    <2>1. Reset(t, q, now).code \in Known
      BY <1>3, <1>4 DEF Reset, Check, Refuse, Accept
    <2> QED BY <1>12, <2>1, Routes
  <1>13. CASE q.call \notin Changes
    <2>1. CASE q.call \in Lists
      BY <1>4, <2>1 DEF Handle, Lists, ListStatement, Check, Refuse, Accept
    <2>2. CASE q.call \notin Lists
      BY <1>4, <1>13, <2>2 DEF Handle, Changes, GetTimer, TimerSubscribers, CachedSubscribers,
                               Check, Refuse, Accept
    <2> QED BY <2>1, <2>2
  <1> QED BY <1>5, <1>6, <1>7, <1>8, <1>9, <1>10, <1>11, <1>12, <1>13 DEF Changes

\* Whatever the stores hold, an error that is answered to a well-formed request
\* has its own status, except that of a list's negative offset or limit.
THEOREM NothingInternal == Spec => []NoInternal
PROOF
  <1>1. IInv => NoInternal
    <2> SUFFICES ASSUME IInv, NEW q \in Requests, q.signed, q.parses, q.name # "long",
                        ~(q.call \in Lists /\ q.page = "negative")
                 PROVE  Status(q, Answer(db[q.id], q, clock).code) # 500
      BY DEF NoInternal
    <2>1. q \in RequestTypes /\ db[q.id] \in Timers
      BY RequestAssumption DEF IInv, TypeOK, RequestTypes
    <2>2. Answer(db[q.id], q, clock) = Handle(db[q.id], q, clock)
      BY DEF Answer, Check, VkKeyHandler, Parse
    <2>3. Handle(db[q.id], q, clock).code \in Known
      BY <2>1, KnownCodes
    <2> QED BY <2>2, <2>3, KnownStatus
  <1> QED BY <1>1, Invariant, PTL

-----------------------------------------------------------------------------
(* Reading a list page by page: the order of a list, and its places *)

\* What comes before id, and after it, among the timers of a list.
Earlier(d, all, id) == {x \in all : Before(d, x, id)}
Later(d, all, id) == {x \in all : Before(d, id, x)}

\* The place of id: how many come before it.
Place(d, all, id) == Cardinality(Earlier(d, all, id))

\* The order by creation and id is a strict total one.
LEMMA BeforeOrders ==
    ASSUME NEW d, NEW all \in SUBSET Id, \A x \in all : d[x].created \in Nat
    PROVE  /\ \A x \in all : ~Before(d, x, x)
           /\ \A x, y, z \in all : Before(d, x, y) /\ Before(d, y, z) => Before(d, x, z)
           /\ \A x, y \in all : x = y \/ Before(d, x, y) \/ Before(d, y, x)
BY IdAssumption DEF Before

\* Of the sets that belong to some elements one contains no other.
LEMMA Smallest ==
    ASSUME NEW all, IsFiniteSet(all), NEW some, some # {}, NEW part \in [some -> SUBSET all]
    PROVE  \E x \in some : \A y \in some : ~(part[y] \subseteq part[x] /\ part[y] # part[x])
<1> DEFINE parts == {part[x] : x \in some}
<1>1. parts # {} /\ parts \subseteq FiniteSubsetsOf(all)
  BY FS_FiniteSubsetsOfFinite
<1>2. \E u \in parts : \A v \in parts : ~(<<v, u>> \in StrictSubsetOrdering(all))
  <2> HIDE DEF parts
  <2> QED
    BY <1>1, WFMin, FS_StrictSubsetOrderingWellFounded
<1>3. PICK x \in some : \A v \in parts : ~(<<v, part[x]>> \in StrictSubsetOrdering(all))
  BY <1>2
<1>4. ASSUME NEW y \in some, part[y] \subseteq part[x], part[y] # part[x]
      PROVE  <<part[y], part[x]>> \in StrictSubsetOrdering(all)
  BY <1>4 DEF StrictSubsetOrdering
<1>5. \A y \in some : part[y] \in parts
  OBVIOUS
<1> QED
  BY <1>3, <1>4, <1>5

\* The places of a list are numbers, and without gaps.
LEMMA PlaceType ==
    ASSUME NEW d, NEW all \in SUBSET Id, NEW id
    PROVE  IsFiniteSet(Earlier(d, all, id)) /\ Place(d, all, id) \in Nat
<1>1. IsFiniteSet(Earlier(d, all, id))
  <2>1. Earlier(d, all, id) \in SUBSET Id
    BY DEF Earlier
  <2> QED
    BY <2>1, FS_Subset, IdAssumption
<1> QED
  BY <1>1, FS_CardinalityType DEF Place

\* Somebody sits right before a timer that is not the first.
LEMMA Predecessor ==
    ASSUME NEW d, NEW all \in SUBSET Id, \A x \in all : d[x].created \in Nat,
           NEW id \in all, Earlier(d, all, id) # {}
    PROVE  \E p \in all : Before(d, p, id) /\ Place(d, all, id) = Place(d, all, p) + 1
<1> DEFINE B == Earlier(d, all, id)
           later == [x \in B |-> Later(d, all, x)]
<1>1. IsFiniteSet(all) /\ B \subseteq all
  BY FS_Subset, IdAssumption DEF Earlier
<1>2. PICK p \in B : \A y \in B : ~(later[y] \subseteq later[p] /\ later[y] # later[p])
  <2>1. later \in [B -> SUBSET all]
    BY DEF Later
  <2> HIDE DEF later, B
  <2>2. B # {}
    BY DEF B
  <2> QED
    BY <1>1, <2>1, <2>2, Smallest
<1>3. p \in all /\ Before(d, p, id)
  BY DEF Earlier
<1>4. \A y \in B : ~Before(d, p, y)
  <2> SUFFICES ASSUME NEW y \in B, Before(d, p, y) PROVE FALSE
    OBVIOUS
  <2>1. y \in all /\ Later(d, all, y) \subseteq Later(d, all, p)
    BY <1>3, BeforeOrders DEF Earlier, Later
  <2>2. y \in Later(d, all, p) /\ y \notin Later(d, all, y)
    BY <2>1, BeforeOrders DEF Later
  <2> QED
    BY <1>2, <2>1, <2>2
<1>5. B = Earlier(d, all, p) \cup {p}
  <2>1. ASSUME NEW y \in B PROVE y \in Earlier(d, all, p) \cup {p}
    BY <1>1, <1>3, <1>4, BeforeOrders DEF Earlier
  <2>2. ASSUME NEW y \in Earlier(d, all, p) PROVE y \in B
    BY <1>3, BeforeOrders DEF Earlier
  <2> QED
    BY <2>1, <2>2
<1>6. p \notin Earlier(d, all, p)
  BY <1>3, BeforeOrders DEF Earlier
<1>7. Cardinality(B) = Place(d, all, p) + 1
  BY <1>5, <1>6, PlaceType, FS_AddElement DEF Place
<1> QED
  BY <1>3, <1>7 DEF Place

\* If some timer has the place n or a later one, some timer has the place n.
LEMMA NoGaps ==
    ASSUME NEW d, NEW all \in SUBSET Id, \A x \in all : d[x].created \in Nat,
           NEW n \in Nat, NEW id \in all, Place(d, all, id) >= n
    PROVE  \E m \in all : Place(d, all, m) = n
<1> DEFINE far == {x \in all : Place(d, all, x) >= n}
           earlier == [x \in far |-> Earlier(d, all, x)]
<1>1. IsFiniteSet(all)
  BY FS_Subset, IdAssumption
<1>2. PICK m \in far : \A y \in far : ~(earlier[y] \subseteq earlier[m] /\ earlier[y] # earlier[m])
  <2>1. earlier \in [far -> SUBSET all] /\ far # {}
    BY DEF Earlier
  <2> HIDE DEF earlier, far
  <2> QED
    BY <1>1, <2>1, Smallest
<1>3. CASE Place(d, all, m) = n
  BY <1>3
<1>4. CASE Place(d, all, m) > n
  <2>1. Earlier(d, all, m) # {}
    BY <1>4, FS_EmptySet DEF Place
  <2>2. PICK p \in all : Before(d, p, m) /\ Place(d, all, m) = Place(d, all, p) + 1
    BY <2>1, Predecessor
  <2>3. Place(d, all, p) >= n
    BY <1>4, <2>2, PlaceType
  <2>4. Earlier(d, all, p) \subseteq Earlier(d, all, m)
    BY <2>2, BeforeOrders DEF Earlier
  <2>5. p \in Earlier(d, all, m) /\ p \notin Earlier(d, all, p)
    BY <2>2, BeforeOrders DEF Earlier
  <2> QED
    BY <1>2, <2>3, <2>4, <2>5
<1> QED
  BY <1>3, <1>4, PlaceType

\* A page that is asked for is empty only when nothing is left.
LEMMA PageShows ==
    ASSUME NEW d, NEW u, NEW list, NEW offset \in Nat,
           \A x \in ListOf(d, u, list) : d[x].created \in Nat
    PROVE  /\ \A id \in ListOf(d, u, list) :
                 /\ id \in Page(d, u, list, offset) =>
                        /\ Place(d, ListOf(d, u, list), id) >= offset
                        /\ Place(d, ListOf(d, u, list), id) < offset + Limit
                 /\ Place(d, ListOf(d, u, list), id) >= offset /\ id \notin Page(d, u, list, offset) =>
                        Place(d, ListOf(d, u, list), id) >= offset + Limit
           /\ Page(d, u, list, offset) \subseteq ListOf(d, u, list)
           /\ Page(d, u, list, offset) = {} =>
                  \A id \in ListOf(d, u, list) : Place(d, ListOf(d, u, list), id) < offset
<1> DEFINE all == ListOf(d, u, list)
<1>1. all \in SUBSET Id
  BY ListsInId
<1>2. \A id \in all : Place(d, all, id) \in Nat
  BY <1>1, PlaceType
<1>3. Page(d, u, list, offset) = {id \in all : Place(d, all, id) \in offset .. offset + Limit - 1}
  BY DEF Page, Place, Earlier
<1>4. ASSUME NEW id \in all, Place(d, all, id) >= offset PROVE Page(d, u, list, offset) # {}
  <2>1. PICK m \in all : Place(d, all, m) = offset
    <3> HIDE DEF all
    <3> QED
      BY <1>1, <1>4, NoGaps DEF all
  <2> QED
    BY <1>3, <2>1, BoundAssumption
<1> HIDE DEF all
<1> QED
  BY <1>2, <1>3, <1>4, BoundAssumption DEF all

-----------------------------------------------------------------------------
(* What requests leave of the order: a timer keeps its second of creation   *)

\* A refusal leaves the creation.
LEMMA RefuseCreated ==
    ASSUME NEW t, NEW code
    PROVE  Refuse(t, code).timer.created = t.created
BY DEF Refuse

\* No use case changes when a live timer was created: a second create is refused.
LEMMA HandleCreated ==
    ASSUME NEW t \in Timers, NEW q \in RequestTypes, NEW now, Live(t.row)
    PROVE  Handle(t, q, now).timer.created = t.created
<1>1. CASE q.call = "create"
  <2>1. CASE Validate(q) # "ok"
    <3>1. Handle(t, q, now) = Refuse(t, Validate(q))
      BY <1>1, <2>1, Routes DEF Check
    <3> QED
      BY <3>1, RefuseCreated
  <2>2. CASE Validate(q) = "ok"
    <3>1. Handle(t, q, now) = Create(t, q, now)
      BY <1>1, <2>2, Routes DEF Check
    <3>2. InsertStatement(t, q) # "ok"
      BY DEF InsertStatement, Live
    <3>3. Create(t, q, now) = Refuse(t, InsertStatement(t, q))
      BY <3>2 DEF Create
    <3> QED
      BY <3>1, <3>3, RefuseCreated
  <2> QED
    BY <2>1, <2>2
<1>2. CASE q.call = "delete"
  <2>1. Delete(t, q).timer.created = t.created
    BY DEF Delete, Check, Accept, Refuse, Timers
  <2> QED
    BY <1>2, <2>1, Routes
<1>3. CASE q.call = "update"
  <2>1. Update(t, q, now).timer.created = t.created
    <3> DEFINE end == now + q.left
               moved == [t EXCEPT !.row = UpdateTimer(t.row, end)]
               told == [moved EXCEPT !.entry = end]
    <3>1. moved.created = t.created /\ told.created = t.created
      BY DEF Timers
    <3>2. \/ \E code : Update(t, q, now) = Refuse(t, code)
          \/ Update(t, q, now) = Accept(moved)
          \/ Update(t, q, now) = Accept(told)
      <4> HIDE DEF moved, told
      <4> QED BY DEF Update, Check, moved, told
    <3> HIDE DEF moved, told
    <3> QED
      BY <3>1, <3>2 DEF Refuse, Accept
  <2> QED
    BY <1>3, <2>1, Routes
<1>4. CASE q.call = "subscribe"
  <2>1. Subscribe(t, q).timer.created = t.created
    BY DEF Subscribe, Accept, Refuse, Timers
  <2> QED
    BY <1>4, <2>1, Routes
<1>5. CASE q.call = "unsubscribe"
  <2>1. Unsubscribe(t, q).timer.created = t.created
    BY DEF Unsubscribe, Check, Accept, Refuse, Timers
  <2> QED
    BY <1>5, <2>1, Routes
<1>6. CASE q.call = "stop"
  <2>1. Stop(t, q, now).timer.created = t.created
    BY DEF Stop, Check, Accept, Refuse, Timers
  <2> QED
    BY <1>6, <2>1, Routes
<1>7. CASE q.call = "start"
  <2>1. Start(t, q, now).timer.created = t.created
    BY DEF Start, Check, Accept, Refuse, Timers
  <2> QED
    BY <1>7, <2>1, Routes
<1>8. CASE q.call = "reset"
  <2>1. Reset(t, q, now).timer.created = t.created
    BY DEF Reset, Check, Accept, Refuse, Timers
  <2> QED
    BY <1>8, <2>1, Routes
<1>9. CASE q.call \notin Changes
  BY <1>9, Routes
<1> QED
  BY <1>1, <1>2, <1>3, <1>4, <1>5, <1>6, <1>7, <1>8, <1>9 DEF Changes

\* No step moves a timer that lives to another second of creation.
LEMMA CreatedKept ==
    ASSUME IInv, (\E q \in Requests : Serve(q)) \/ (\E id \in Id : Expire(id)), NEW id \in Id, Live(db[id].row)
    PROVE  db'[id].created = db[id].created
<1>0. db \in [Id -> Timers]
  BY DEF IInv, TypeOK
<1>1. ASSUME NEW q \in Requests, Serve(q) PROVE db'[id].created = db[id].created
  <2>1. q \in RequestTypes /\ q.id \in Id
    BY RequestAssumption DEF RequestTypes
  <2>2. db' = [db EXCEPT ![q.id] = Answer(db[q.id], q, clock).timer]
    BY <1>1 DEF Serve
  <2>3. q.id = id => Answer(db[q.id], q, clock).timer.created = db[q.id].created
    BY <1>0, <2>1, HandleCreated, RefuseCreated, AnswerCases
  <2> QED
    BY <1>0, <2>1, <2>2, <2>3
<1>2. ASSUME NEW x \in Id, Expire(x) PROVE db'[id].created = db[id].created
  <2>1. Expired(db[x]).created = db[x].created
    BY <1>0 DEF Expired, Timers
  <2>2. db' = [db EXCEPT ![x] = Expired(db[x])] \/ db' = [db EXCEPT ![x] = [db[x] EXCEPT !.entry = NoEntry]]
    BY <1>2 DEF Expire
  <2> QED
    BY <1>0, <2>1, <2>2 DEF Timers
<1> QED
  BY <1>1, <1>2

-----------------------------------------------------------------------------
(* The walk of a client through a list *)

\* While a client reads a list, what it is still to be shown sits on the pages
\* to come, and what it was shown and is still in the list sits on those before.
Walking ==
    LET all == ListOf(db, walk.user, walk.list) IN
    walk.state = "open" =>
        /\ walk.due \subseteq all
        /\ \A id \in walk.due : Place(db, all, id) >= walk.offset
        /\ \A id \in walk.shown \cap all : Place(db, all, id) < walk.offset

WalkInv == Walking /\ WalkExact

\* A list in which nothing has been born anew: what has stayed in it has kept
\* its place or moved up when nothing entered, and down when nothing left.
LEMMA PlacesMove ==
    ASSUME NEW d, NEW e, NEW all \in SUBSET Id, NEW more \in SUBSET Id, all \subseteq more,
           \A x \in all : d[x].created = e[x].created, NEW id \in all
    PROVE  Place(d, all, id) <= Place(e, more, id) /\ Place(e, all, id) <= Place(d, more, id)
<1>1. /\ Earlier(d, all, id) \subseteq Earlier(e, more, id)
      /\ Earlier(e, all, id) \subseteq Earlier(d, more, id)
  BY DEF Earlier, Before
<1> QED
  BY <1>1, PlaceType, FS_Subset DEF Place

\* A walk that goes on while requests are served.
LEMMA WalkGoesOn ==
    ASSUME IInv, WalkInv, WalkOn,
           \A x \in Id : Live(db[x].row) => db'[x].created = db[x].created
    PROVE  WalkInv'
<1> DEFINE old == ListOf(db, walk.user, walk.list)
           new == ListOf(db', walk.user, walk.list)
<1>0. walk \in Walks
  BY DEF IInv, TypeOK
<1>1. CASE walk.state # "open"
  <2>1. walk' = NoWalk
    BY <1>1 DEF WalkOn
  <2> QED
    BY <2>1 DEF NoWalk, WalkInv, Walking, WalkExact
<1>2. CASE walk.state = "open"
  <2>1. /\ walk'.state = "open" /\ walk'.user = walk.user /\ walk'.list = walk.list
        /\ walk'.offset = walk.offset /\ walk'.twice = walk.twice
        /\ walk'.due = IF old \subseteq new THEN walk.due ELSE {}
        /\ walk'.shown = IF new \subseteq old THEN walk.shown ELSE {}
    <3>1. walk' = [walk EXCEPT !.due = IF old \subseteq new THEN walk.due ELSE {},
                               !.shown = IF new \subseteq old THEN walk.shown ELSE {}]
      BY <1>2 DEF WalkOn
    <3> HIDE DEF old, new
    <3> QED
      BY <1>0, <1>2, <3>1 DEF Walks
  <2>2. \A x \in old : db'[x].created = db[x].created
    BY ListsInId DEF ListOf, UserTimers, UserCreatedTimers, UserSubscriptions
  <2>3. old \in SUBSET Id /\ new \in SUBSET Id
    BY ListsInId
  <2>4. /\ walk.due \subseteq old
        /\ \A id \in walk.due : Place(db, old, id) >= walk.offset
        /\ \A id \in walk.shown \cap old : Place(db, old, id) < walk.offset
    BY <1>2 DEF WalkInv, Walking
  <2> HIDE DEF old, new
  <2>5. walk'.due \subseteq new /\ \A id \in walk'.due : Place(db', new, id) >= walk.offset
    <3>1. CASE old \subseteq new
      <4> SUFFICES ASSUME NEW id \in walk.due PROVE id \in new /\ Place(db', new, id) >= walk.offset
        BY <2>1, <3>1
      <4>1. id \in old /\ id \in new /\ Place(db, old, id) >= walk.offset
        BY <2>4, <3>1
      <4>2. Place(db, old, id) <= Place(db', new, id)
        BY <2>2, <2>3, <3>1, <4>1, PlacesMove
      <4>3. Place(db, old, id) \in Nat /\ Place(db', new, id) \in Nat /\ walk.offset \in Nat
        BY <1>0, <2>3, PlaceType DEF Walks
      <4> QED
        BY <4>1, <4>2, <4>3
    <3> QED
      BY <2>1, <3>1
  <2>6. \A id \in walk'.shown \cap new : Place(db', new, id) < walk.offset
    <3>1. CASE new \subseteq old
      <4> SUFFICES ASSUME NEW id \in walk.shown \cap new PROVE Place(db', new, id) < walk.offset
        BY <2>1, <3>1
      <4>1. id \in old /\ Place(db, old, id) < walk.offset
        BY <2>4, <3>1
      <4>2. Place(db', new, id) <= Place(db, old, id)
        BY <2>2, <2>3, <3>1, PlacesMove
      <4>3. Place(db, old, id) \in Nat /\ Place(db', new, id) \in Nat /\ walk.offset \in Nat
        BY <1>0, <2>3, PlaceType DEF Walks
      <4> QED
        BY <4>1, <4>2, <4>3
    <3> QED
      BY <2>1, <3>1
  <2> QED
    BY <1>2, <2>1, <2>5, <2>6 DEF WalkInv, Walking, WalkExact, new
<1> QED
  BY <1>1, <1>2

\* The next page: what was to come is on it or still to come.
LEMMA WalkPages ==
    ASSUME IInv, WalkInv, NextPage
    PROVE  WalkInv'
<1> DEFINE all == ListOf(db, walk.user, walk.list)
           page == Page(db, walk.user, walk.list, walk.offset)
<1>0. walk \in Walks /\ walk.offset \in Nat /\ db' = db /\ walk.state = "open"
  BY DEF IInv, TypeOK, Walks, NextPage
<1>1. /\ walk'.state = IF page = {} THEN "done" ELSE "open"
      /\ walk'.user = walk.user /\ walk'.list = walk.list
      /\ walk'.offset = walk.offset + Limit
      /\ walk'.due = walk.due \ page
      /\ walk'.shown = walk.shown \cup page
      /\ walk'.twice = (walk.twice \/ (page \cap walk.shown # {}))
  <2>1. walk' = [walk EXCEPT !.state = IF page = {} THEN "done" ELSE "open",
                             !.offset = walk.offset + Limit,
                             !.due = walk.due \ page,
                             !.shown = walk.shown \cup page,
                             !.twice = walk.twice \/ (page \cap walk.shown # {})]
    BY DEF NextPage
  <2> HIDE DEF page
  <2> QED
    BY <1>0, <2>1 DEF Walks
<1>2. \A x \in all : db[x].created \in Nat
  BY ListsInId DEF IInv, TypeOK, Timers
<1>3. /\ \A id \in all : /\ id \in page => Place(db, all, id) >= walk.offset
                                           /\ Place(db, all, id) < walk.offset + Limit
                         /\ Place(db, all, id) >= walk.offset /\ id \notin page =>
                                Place(db, all, id) >= walk.offset + Limit
      /\ page \subseteq all
      /\ page = {} => \A id \in all : Place(db, all, id) < walk.offset
  BY <1>0, <1>2, PageShows
<1>4. /\ walk.due \subseteq all
      /\ \A id \in walk.due : Place(db, all, id) >= walk.offset
      /\ \A id \in walk.shown \cap all : Place(db, all, id) < walk.offset
      /\ ~walk.twice
  BY <1>0 DEF WalkInv, Walking, WalkExact
<1>5. \A id \in all : Place(db, all, id) \in Nat
  BY ListsInId, PlaceType
<1>6. Limit \in Nat
  BY BoundAssumption
<1> HIDE DEF all, page
<1>7. page = {} => walk.due = {}
  BY <1>0, <1>3, <1>4, <1>5
<1>8. page \cap walk.shown = {}
  BY <1>0, <1>3, <1>4, <1>5
<1>9. /\ walk'.due \subseteq all
      /\ \A id \in walk'.due : Place(db, all, id) >= walk.offset + Limit
  BY <1>1, <1>3, <1>4
<1>10. \A id \in walk'.shown \cap all : Place(db, all, id) < walk.offset + Limit
  BY <1>0, <1>1, <1>3, <1>4, <1>5, <1>6
<1>11. WalkExact'
  BY <1>1, <1>4, <1>7, <1>8 DEF WalkExact
<1> QED
  BY <1>0, <1>1, <1>9, <1>10, <1>11 DEF WalkInv, Walking, all

\* Every step keeps what a client knows of the list it reads.
LEMMA WalkNext == IInv /\ WalkInv /\ [Next]_vars => WalkInv'
<1> SUFFICES ASSUME IInv, WalkInv, [Next]_vars PROVE WalkInv'
  OBVIOUS
<1>1. CASE (\E q \in Requests : Serve(q)) \/ (\E id \in Id : Expire(id))
  <2>1. WalkOn
    BY <1>1 DEF Serve, Expire
  <2> QED
    BY <1>1, <2>1, CreatedKept, WalkGoesOn
<1>2. CASE UNCHANGED <<db, walk>>
  BY <1>2 DEF WalkInv, Walking, WalkExact
<1>3. ASSUME NEW w \in Walked, BeginWalk(w[1], w[2]) PROVE WalkInv'
  <2>1. db' = db /\ walk' = [NoWalk EXCEPT !.state = "open", !.user = w[1], !.list = w[2],
                                           !.due = ListOf(db, w[1], w[2])]
    BY <1>3 DEF BeginWalk
  <2>2. /\ walk'.state = "open" /\ walk'.user = w[1] /\ walk'.list = w[2] /\ walk'.offset = 0
        /\ walk'.due = ListOf(db, w[1], w[2]) /\ walk'.shown = {} /\ ~walk'.twice
    BY <2>1 DEF NoWalk
  <2>3. \A id \in ListOf(db, w[1], w[2]) : Place(db, ListOf(db, w[1], w[2]), id) >= 0
    BY ListsInId, PlaceType
  <2> QED
    BY <2>1, <2>2, <2>3 DEF WalkInv, Walking, WalkExact
<1> QED
  BY <1>1, <1>2, <1>3, WalkPages DEF Next, ClearNotifications, Clock, vars

\* A client that reads one of its lists page by page (LIMIT and OFFSET) misses
\* nothing that was in it from the beginning, if nothing leaves the list
\* meanwhile, and is shown no timer twice, if nothing enters it between the two;
\* requests are served and timers expire between the pages.
THEOREM WalksAreExact == Spec => []WalkExact
<1>1. Init => WalkInv
  BY DEF Init, NoWalk, WalkInv, Walking, WalkExact
<1>2. WalkInv => WalkExact
  BY DEF WalkInv
<1> QED
  BY <1>1, <1>2, WalkNext, Invariant, PTL DEF Spec
=============================================================================
