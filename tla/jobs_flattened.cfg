CONSTANTS
    Pages = {p1}
    Jobs = {j1, j2}
    NoJob = NoJob
    Users = {}
    Crons = {c1}
    Nightlies = {}
    Pollers = {r1}
    Kinds = {"run"}
    Strategies = {"mobile"}
    MaxCycles = 2
    Faults = FALSE
    Archives = FALSE
SYMMETRY SymmetricJobs
SPECIFICATION Spec
INVARIANTS
    SleepIsNotFlattened
CHECK_DEADLOCK FALSE
