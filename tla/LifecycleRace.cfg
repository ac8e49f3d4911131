CONSTANTS
    Req = {r1, r2}
    Handler = {h1, h2}
    Ops = {"Create", "Delete", "Stop", "Start", "Reset"}
    Types = {"DATE", "COUNTDOWN"}
    PauseSkew = {0}
    MinDuration = 1
    MaxTime = 2
    Durations = {1, 2}
    LostAnswers = FALSE
    MaxFaults = 0
    MaxCrashes = 0
SPECIFICATION FairSpec
INVARIANTS AlwaysWatched
PROPERTIES RunningEnds
CHECK_DEADLOCK FALSE
