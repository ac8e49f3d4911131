--------------------------- MODULE MCTimerSocket ----------------------------
(* Instances of TimerSocket for TLC. *)
EXTENDS TimerSocket, TLC

CONSTANT ws
=============================================================================
