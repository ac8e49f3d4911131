CONSTANTS
    Id = {a, b}
    Stream = {s1}
    Tick = {g1, g2}
    Batches <- MCBatches
    Readds = TRUE
    Capacity = 1
    MaxListed = 2
    MaxTime = 2
SPECIFICATION Spec
SYMMETRY Symmetry
INVARIANTS Indexed NoGhost OverdueOnlyIfSkipped SendsToOpen
PROPERTIES FiresRegistered
CHECK_DEADLOCK FALSE
