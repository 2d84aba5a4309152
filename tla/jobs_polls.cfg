CONSTANTS
    Pages = {p1}
    Jobs = {j1, j2}
    NoJob = NoJob
    Users = {}
    Crons = {}
    Nightlies = {n1}
    Pollers = {r1}
    Kinds = {"run"}
    Strategies = {"mobile"}
    MaxCycles = 2
    Faults = TRUE
    Archives = FALSE
SYMMETRY SymmetricJobs
SPECIFICATION Spec
PROPERTIES
    SuccessIsFinal
CHECK_DEADLOCK FALSE
