CONSTANTS
    Id = {a}
    Stream = {s1}
    Tick = {g1, g2}
    Batches <- MCBatches
    Readds = FALSE
    Capacity = 1
    MaxListed = 1
    MaxTime = 2
SPECIFICATION FairSpec
PROPERTIES TickEnds ImplementsTable
CHECK_DEADLOCK FALSE
