---------------------------- MODULE TimerService ----------------------------
(***************************************************************************)
(* The external timer service as its client, internal/timerservice/grpc.go,*)
(* and the in-repository ticker know it: a table from timer id to the      *)
(* second at which it fires.  One timer's entry is modelled; NoEntry means *)
(* that the id is not in the table.  Each call has the condition under     *)
(* which the service accepts it; a call that is refused changes nothing    *)
(* and its client gets the error named by GrpcError.                       *)
(***************************************************************************)
EXTENDS Integers

NoEntry == -1

Entries == Int

Registered(entry) == entry # NoEntry

\* Add, Start: AlreadyExists for a known id, InvalidArgument for an end that
\* is not in the future.
AcceptsAdd(entry, end, now) == ~Registered(entry) /\ now < end

\* Update: NotFound for an unknown id, InvalidArgument as above.
AcceptsUpdate(entry, end, now) == Registered(entry) /\ now < end

\* Remove, Stop: NotFound for an unknown id.
AcceptsRemove(entry) == Registered(entry)
=============================================================================
