CONSTANTS
    Req = {r1}
    Handler = {h1, h2}
    Ops = {"Create", "Delete", "Update", "Stop", "Start", "Reset"}
    Types = {"DATE", "COUNTDOWN"}
    PauseSkew = {0}
    MinDuration = 1
    MaxTime = 3
    Durations = {1, 2, 3}
    LostAnswers = TRUE
    MaxFaults = 3
    MaxCrashes = 1
SPECIFICATION Spec
SYMMETRY Symmetry
INVARIANTS Watched
PROPERTIES RollbackRestores
CHECK_DEADLOCK FALSE
