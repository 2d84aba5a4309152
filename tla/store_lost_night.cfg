CONSTANTS
    Calls = {c1, c2, c3}
    Runs = {r1}
    NoRun = NoRun
    Mutations <- AllMutations
    MaxAttempts = 2
    HistoryCap = 3
    BatchSize = 1
    MaxIndex = 3
    MayCrash = FALSE
SPECIFICATION Spec
SYMMETRY Symmetry
INVARIANT CommittedNightsSurvive
CHECK_DEADLOCK FALSE
