CONSTANTS
    Calls = {c1, c2, c3}
    Runs = {r1}
    NoRun = NoRun
    Mutations <- AllMutations
    MaxAttempts = 2
    HistoryCap = 1
    BatchSize = 1
    MaxIndex = 3
    MayCrash = TRUE
SPECIFICATION Spec
SYMMETRY Symmetry
INVARIANTS
    DraftsExtendTheRow
    ExhaustionNeedsContention
    SerialHistory
PROPERTY ImplementsSerialDocument
CHECK_DEADLOCK FALSE
