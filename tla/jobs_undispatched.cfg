CONSTANTS
    Pages = {p1}
    Jobs = {j1, j2}
    NoJob = NoJob
    Users = {u1, u2}
    Crons = {}
    Nightlies = {}
    Pollers = {}
    Kinds = {"run"}
    Strategies = {"mobile"}
    MaxCycles = 1
    Faults = FALSE
    Archives = FALSE
SYMMETRY SymmetricJobs
SPECIFICATION Spec
INVARIANTS
    QueuedIsDispatched
CHECK_DEADLOCK FALSE
