CONSTANTS
    Creator = creator
    User = {creator, u1, u2}
    Req = {r1, r2}
    LostAnswers = TRUE
    MaxFaults = 2
    MaxCrashes = 1
SPECIFICATION Spec
SYMMETRY Symmetry
INVARIANTS CreatorCached CacheMatchesStorage DeletedForgotten
CHECK_DEADLOCK FALSE
