------------------------------ MODULE TimerRow ------------------------------
(***************************************************************************)
(* One timer as PostgreSQL stores it: its row of "timers" joined with its  *)
(* row of "countdown_timers", and the statements of                        *)
(* internal/database/postgres/timerstorage as functions from row to row.   *)
(* Every statement is keyed by the timer id, so one row is modelled.       *)
(* Times are whole seconds: amidtime.DateTime is sent to PostgreSQL as     *)
(* text without a fraction and every column is timestamp(0).               *)
(***************************************************************************)
EXTENDS Integers

TimerTypes == {"DATE", "COUNTDOWN"}

\* amidtime.DateTime{}: the pause time of a timer that is not paused.
ZeroTime == 0

Rows == [exists    : BOOLEAN,
         type      : TimerTypes,
         end       : Int,
         duration  : Int,
         deleted   : BOOLEAN,
         paused    : BOOLEAN,
         pauseTime : Int]

NoRow == [exists |-> FALSE, type |-> "DATE", end |-> 0, duration |-> 0,
          deleted |-> FALSE, paused |-> FALSE, pauseTime |-> ZeroTime]

\* The rows that the SELECTs return: they all join on NOT is_deleted.
Live(t) == t.exists /\ ~t.deleted

Running(t) == Live(t) /\ ~t.paused

\* Countdown statements join countdown_timers, where DATE timers have no row.
IsCountdown(t) == t.type = "COUNTDOWN"

\* InsertDateTimer, InsertCountdownTimer: is_deleted and is_paused default to
\* false; the duration is computed by CreateTimer.DefaultDuration.
InsertTimer(type, start, end) ==
    [exists |-> TRUE, type |-> type, end |-> end, duration |-> end - start,
     deleted |-> FALSE, paused |-> FALSE, pauseTime |-> ZeroTime]

\* DeleteTimer: a soft delete, the primary key stays taken.
DeleteTimer(t) == [t EXCEPT !.deleted = TRUE]

\* All that can be seen of a timer that was deleted.
GoneRow == DeleteTimer([NoRow EXCEPT !.exists = TRUE])

\* UpdateTime: moves the end alone.
UpdateTime(t, end) == [t EXCEPT !.end = end]

\* Variant of UpdateTimer: the duration stays.
UpdateTimerEndOnly(t, end) == [t EXCEPT !.end = end]

\* UpdateTimer: the duration moves with the end, in one statement and from the
\* end the row has at that moment.
UpdateTimer(t, end) == [t EXCEPT !.end = end,
                                 !.duration = t.duration + (end - t.end)]

\* UpdatePauseTime: both columns at once.
UpdatePauseTime(t, pauseTime, paused) ==
    [t EXCEPT !.paused = paused, !.pauseTime = pauseTime]
=============================================================================
