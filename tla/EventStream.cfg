CONSTANTS
    Timer = {t1}
    Stream = {s1, s2}
    Sender = {p1, p2}
    Capacity = 1
    MaxEvents = 1
SPECIFICATION FairSpec
INVARIANTS Linked SendsToOpen
PROPERTIES Delivered SendEnds OpenAndCloseEnd
CHECK_DEADLOCK FALSE
