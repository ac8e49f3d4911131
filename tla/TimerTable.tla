----------------------------- MODULE TimerTable -----------------------------
(***************************************************************************)
(* What a timer service promises: a table from timer ids to the seconds at *)
(* which they fire.  An id is added when it is unknown and its second is   *)
(* to come, it may be removed until it fires, and it fires at its second   *)
(* or later, never before.  Any number of ids may be added, or fire, in    *)
(* one step, and the service may be closed, which forgets all of them.     *)
(* These are the rules by which TimerLifecycle uses the service.           *)
(***************************************************************************)
EXTENDS TimerService

CONSTANTS Id

VARIABLES
    entry,  \* entry[id]: the second at which id fires, NoEntry if unknown
    clock   \* the service's clock, in seconds

tableVars == <<entry, clock>>

TableInit == /\ entry = [id \in Id |-> NoEntry]
             /\ clock = 0

Add(ids) ==
    /\ entry' \in [Id -> Int]
    /\ \A id \in Id : IF id \in ids THEN AcceptsAdd(entry[id], entry'[id], clock)
                                    ELSE entry'[id] = entry[id]
    /\ UNCHANGED clock

Forget(ids) ==
    /\ entry' = [id \in Id |-> IF id \in ids THEN NoEntry ELSE entry[id]]
    /\ UNCHANGED clock

Remove(id) == AcceptsRemove(entry[id]) /\ Forget({id})

FireDue(ids) == (\A id \in ids : entry[id] <= clock) /\ Forget(ids)

CloseTable == Forget(Id)

Advance == clock' > clock /\ UNCHANGED entry

TableNext == \/ \E ids \in SUBSET Id : Add(ids) \/ FireDue(ids)
             \/ \E id \in Id : Remove(id)
             \/ CloseTable
             \/ Advance

TableSpec == TableInit /\ [][TableNext]_tableVars
=============================================================================
