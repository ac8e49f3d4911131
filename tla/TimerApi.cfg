CONSTANTS
    alice = alice
    bob = bob
    User = {alice, bob}
    Id = {0, 1, 2}
    Requests <- MCRequests
    MinDuration = 2
    Limit = 1
    Walked <- MCWalked
    MaxTime = 2
    MaxEnd = 4
SPECIFICATION Spec
INVARIANTS WalkExact RetrySafe RefusalLeaves NoInternal DurationKept
PROPERTIES EndIsTold
