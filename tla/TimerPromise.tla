---------------------------- MODULE TimerPromise ----------------------------
(***************************************************************************)
(* What the requests of a timer's creator promise, without their calls: a  *)
(* request takes effect in the database and in the timer service at once,  *)
(* or not at all.  Two things are not hidden: a request that stops or      *)
(* deletes a timer first withdraws it from the service, and a Create that  *)
(* fails leaves its id taken.                                              *)
(***************************************************************************)
EXTENDS TimerRow, TimerService

CONSTANTS MinDuration

VARIABLES
    timer,    \* the timer as a client may see it
    entry,    \* its entry in the timer service
    ringing,  \* TRUE iff its end was announced and is being handled
    clock     \* seconds

promiseVars == <<timer, entry, ringing, clock>>

PromiseInit == /\ timer = NoRow
               /\ entry = NoEntry
               /\ ringing = FALSE
               /\ clock = 0

\* The timer may be given to the service, and no earlier end of it is handled.
Enter(end) == /\ ~ringing
              /\ AcceptsAdd(entry, end, clock)
              /\ entry' = end
              /\ UNCHANGED <<ringing, clock>>

Create == /\ ~timer.exists
          /\ timer' = InsertTimer(timer'.type, timer'.end - timer'.duration, timer'.end)
          /\ timer'.duration >= MinDuration
          /\ Enter(timer'.end)

\* The timer changes and the service is not concerned.
Alone == UNCHANGED <<entry, ringing, clock>>

Burn == ~timer.exists /\ timer' = GoneRow /\ Alone

\* The first half of a Stop or a Delete.
Withdraw == /\ Running(timer)
            /\ AcceptsRemove(entry)
            /\ entry' = NoEntry
            /\ UNCHANGED <<timer, ringing, clock>>

Delete == Live(timer) /\ timer' = GoneRow /\ Alone

Stop == /\ Running(timer) /\ IsCountdown(timer)
        /\ ~Registered(entry) /\ ~ringing
        /\ timer' = UpdatePauseTime(timer, timer'.pauseTime, TRUE)
        /\ Alone

\* A Stop that fails.
Readmit == /\ Running(timer) /\ IsCountdown(timer)
           /\ Enter(timer.end)
           /\ UNCHANGED timer

UpdatePaused == /\ Live(timer) /\ timer.paused
                /\ timer' = UpdateTimer(timer, timer'.end)
                /\ Alone

UpdateRunning == /\ Running(timer)
                 /\ timer' = UpdateTimer(timer, timer'.end)
                 /\ AcceptsUpdate(entry, timer'.end, clock)
                 /\ entry' = timer'.end
                 /\ UNCHANGED <<ringing, clock>>

\* The end moves by the time of the pause, as it was when the request came.
Start == /\ Live(timer) /\ IsCountdown(timer) /\ timer.paused
         /\ timer' = UpdatePauseTime(UpdateTime(timer, timer'.end), ZeroTime, FALSE)
         /\ timer'.end - timer.end <= clock - timer.pauseTime
         /\ Enter(timer'.end)

Ring == /\ Registered(entry) /\ entry <= clock
        /\ entry' = NoEntry
        /\ ringing' = TRUE
        /\ UNCHANGED <<timer, clock>>

\* What has ended is settled: a DATE timer goes, a COUNTDOWN timer is paused
\* at its full duration.
Expire == /\ Running(timer)
          /\ ~Registered(entry) /\ ringing
          /\ timer' = IF IsCountdown(timer)
                      THEN UpdatePauseTime(timer, timer.end - timer.duration, TRUE)
                      ELSE GoneRow
          /\ ringing' = FALSE
          /\ UNCHANGED <<entry, clock>>

\* The timer was deleted in time.
Ignore == /\ ~Live(timer)
          /\ ringing /\ ~ringing'
          /\ UNCHANGED <<timer, entry, clock>>

Advance == clock' > clock /\ UNCHANGED <<timer, entry, ringing>>

PromiseNext == \/ Create \/ Burn
               \/ Withdraw \/ Delete \/ Stop \/ Readmit
               \/ UpdatePaused \/ UpdateRunning \/ Start
               \/ Ring \/ Expire \/ Ignore
               \/ Advance

PromiseSpec == PromiseInit /\ [][PromiseNext]_promiseVars
=============================================================================
