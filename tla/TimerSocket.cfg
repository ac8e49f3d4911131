CONSTANTS
    ws = ws
    Socket = {ws}
    Unreliable = {ws}
    EventCapacity = 1
    NotificationCapacity = 1
    ReadLimit = 3
    MaxFrames = 2
    MaxEvents = 2
    MaxNotifications = 2
SPECIFICATION FairSpec
INVARIANTS OneWriter FollowsClient ReaderNotLeft RereadsOnlyBroken
PROPERTIES NotificationsGoOn SocketEnds
CHECK_DEADLOCK FALSE
