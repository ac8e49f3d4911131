------------------------------ MODULE MCTicker ------------------------------
(* Instances of Ticker for TLC. *)
EXTENDS Ticker, TLC

\* One id, the same id at two seconds, and two ids at one second.
MCBatches ==
    LET none == [t \in Times |-> <<>>] IN
    {[none EXCEPT ![MaxTime] = <<id>>] : id \in Id}
        \cup {[none EXCEPT ![MaxTime] = <<p[1], p[2]>>] : p \in Id \X Id}
        \cup {[none EXCEPT ![MaxTime] = <<id>>, ![1] = <<id>>] : id \in Id}

Symmetry == Permutations(Id) \cup Permutations(Stream) \cup Permutations(Tick)
=============================================================================
