CONSTANTS
    Pages = {p1}
    Jobs = {j1, j2}
    NoJob = NoJob
    Users = {u1}
    Crons = {}
    Nightlies = {n1}
    Pollers = {}
    Kinds = {"run"}
    Strategies = {"mobile"}
    MaxCycles = 1
    Faults = TRUE
    Archives = FALSE
SPECIFICATION FairSpec
PROPERTIES
    EveryJobSettles
CHECK_DEADLOCK FALSE
