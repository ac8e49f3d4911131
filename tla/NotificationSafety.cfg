CONSTANTS
    creator = creator
    subscriber = subscriber
    Timer = {t1}
    User = {creator, subscriber}
    CreatorOf <- MCCreatorOf
    Countdown = {t1}
    Stream = {s1}
    UserOf <- MCUserOf
    Service = {b1}
    Job = {j1, j2}
    Capacity = 1
    ServiceCapacity = 1
    QueueCapacity = 1
    Ops = {"Subscribe", "Unsubscribe", "Delete"}
    MaxFaults = 1
SPECIFICATION Spec
SYMMETRY Symmetry
INVARIANTS SendsToOpen ToldOnce
PROPERTIES EveryoneTold
CHECK_DEADLOCK FALSE
