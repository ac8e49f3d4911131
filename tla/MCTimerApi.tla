------------------------------ MODULE MCTimerApi ------------------------------
(* Instances of TimerApi for TLC. *)
EXTENDS TimerApi

CONSTANTS alice, bob

\* A well-formed request; times are changed where a call uses them.
Plain(call, user, id) ==
    [call |-> call, user |-> user, id |-> id, signed |-> TRUE, parses |-> TRUE,
     type |-> "COUNTDOWN", name |-> "short", color |-> "known", page |-> "valid",
     ago |-> 0, left |-> MinDuration]

\* Timer 1 is alice's and of either kind, timer 2 a date timer of bob's.  One
\* creation is at the limits of Validate and is refused by the service, one
\* begins later.
Creations == {Plain("create", alice, 1),
              [Plain("create", alice, 1) EXCEPT !.type = "DATE"],
              [Plain("create", alice, 1) EXCEPT !.left = 0, !.ago = MinDuration],
              [Plain("create", alice, 1) EXCEPT !.left = MinDuration + 1, !.ago = -1],
              [Plain("create", bob, 2) EXCEPT !.type = "DATE"]}

Updates == {[Plain("update", alice, 1) EXCEPT !.left = left] :
                left \in {MinDuration - 1, MinDuration}}

\* The clock of alice's client may be a second late when she pauses her timer.
Others == {Plain(call, alice, 1) : call \in {"delete", "start", "reset", "subscribe", "unsubscribe"}}
    \cup {[Plain("stop", alice, 1) EXCEPT !.ago = ago] : ago \in {0, 1}}
    \cup {Plain(call, bob, 1) : call \in {"subscribe", "unsubscribe", "clear"}}
    \cup {Plain("delete", bob, 2)}

\* Reads, and one request for every way to be wrong.
Wrong ==
    {Plain(call, bob, 1) : call \in {"delete", "stop", "timer", "subscribers", "user"}}
    \cup {[Plain("create", bob, 2) EXCEPT !.name = "long"],
          [Plain("create", bob, 2) EXCEPT !.color = "other"],
          [Plain("create", bob, 2) EXCEPT !.type = "OTHER"],
          [Plain("update", alice, 1) EXCEPT !.color = "other"],
          [Plain("update", alice, 1) EXCEPT !.name = "long"],
          [Plain("delete", alice, 1) EXCEPT !.signed = FALSE],
          [Plain("reset", alice, 1) EXCEPT !.parses = FALSE],
          [Plain("user", bob, 1) EXCEPT !.page = "negative"],
          Plain("stop", bob, 2),
          Plain("create", alice, 0)}

MCWalked == {<<bob, "user">>}

MCRequests == Creations \cup Updates \cup Others \cup Wrong
=============================================================================
