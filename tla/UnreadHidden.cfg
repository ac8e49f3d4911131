CONSTANTS
    creator = creator
    subscriber = subscriber
    Timer = {t1}
    User = {creator, subscriber}
    CreatorOf <- MCCreatorOf
    Countdown = {t1}
    Stream = {s1}
    UserOf <- MCUserOf
    Service = {}
    Job = {j1, j2}
    Capacity = 1
    ServiceCapacity = 1
    QueueCapacity = 1
    Ops = {}
    MaxFaults = 0
SPECIFICATION Spec
PROPERTIES OfflineIsStored
CHECK_DEADLOCK FALSE
