------------------------ MODULE MCNotificationStream ------------------------
(* Instances of NotificationStream for TLC. *)
EXTENDS NotificationStream, TLC

CONSTANTS creator, subscriber

\* Every timer is the creator's, every stream the subscriber's.
MCCreatorOf == [t \in Timer |-> creator]
MCUserOf == [s \in Stream |-> subscriber]

Symmetry == Permutations(Job)
=============================================================================
