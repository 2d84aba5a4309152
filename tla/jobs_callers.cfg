CONSTANTS
    Pages = {p1}
    Jobs = {j1, j2}
    NoJob = NoJob
    Users = {u1}
    Crons = {}
    Nightlies = {n1}
    Pollers = {}
    Kinds = {"run"}
    Strategies = {"mobile"}
    MaxCycles = 2
    Faults = TRUE
    Archives = TRUE
SYMMETRY SymmetricJobs
SPECIFICATION Spec
INVARIANTS
    PageTellsRun
    ArchivedIsQuiet
    NightsInOrder
PROPERTIES
    ImplementsSingleFlight
CHECK_DEADLOCK FALSE
