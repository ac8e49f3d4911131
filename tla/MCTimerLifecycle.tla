-------------------------- MODULE MCTimerLifecycle --------------------------
(* Instances of TimerLifecycle for TLC. *)
EXTENDS TimerLifecycle, TLC

Symmetry == Permutations(Req) \cup Permutations(Handler)
=============================================================================
