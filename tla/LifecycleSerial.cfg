CONSTANTS
    Req = {r1}
    Handler = {h1, h2}
    Ops = {"Create", "Delete", "Update", "Stop", "Start"}
    Types = {"DATE", "COUNTDOWN"}
    PauseSkew = {0, 1}
    MinDuration = 1
    MaxTime = 4
    Durations = {1, 2, 3, 4}
    LostAnswers = FALSE
    MaxFaults = 1
    MaxCrashes = 0
SPECIFICATION Spec
SYMMETRY Symmetry
INVARIANTS RegisteredIffRunning RegisteredAtEnd
PROPERTIES FullAfterExpiry AllOrNothing
CHECK_DEADLOCK FALSE
