CONSTANTS
    Calls = {c1, c2}
    Runs = {r1}
    NoRun = NoRun
    Mutations <- AllMutations
    MaxAttempts = 2
    HistoryCap = 2
    BatchSize = 2
    MaxIndex = 3
    MayCrash = TRUE
    Writers = {w1, w2}
    Owners = {o1}
    Copies = {g1}
    MaxVersion = 2
SPECIFICATION FairStores
INVARIANTS
    CutoverReady
PROPERTIES
    EveryCallEnds
    DestinationKept
CHECK_DEADLOCK FALSE
