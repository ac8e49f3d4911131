CONSTANTS
    creator = creator
    subscriber = subscriber
    Timer = {t1}
    User = {creator, subscriber}
    CreatorOf <- MCCreatorOf
    Countdown = {t1}
    Stream = {s1}
    UserOf <- MCUserOf
    Service = {b1}
    Job = {j1, j2}
    Capacity = 1
    ServiceCapacity = 1
    QueueCapacity = 1
    Ops = {}
    MaxFaults = 0
SPECIFICATION FairSpec
PROPERTIES NotificationEnds CloseEnds
CHECK_DEADLOCK FALSE
