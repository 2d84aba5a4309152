CONSTANTS
    Pages = {x, y}
    MaxLog = 2
    Strategies = {mobile, desktop}
    MaxWindow = 4
    Items = {i1}
    Invocations = {x, y}
    ClaimWindow = 2
    MaxLife = 2
    MaxRetryAfter = 1
    Watched = {x, y}
    MinPages = 2
    MaxCohorts = 2
    MaxNights = 1
    Projects = {a, b}
    Configured = {a}
    Names = {A, B}
    configuredName <- configuredNames
    Editors = {x, y}
    ProjectIds = {a, b}
    Movers = {x, y}
    Refreshes = {x, y}
    MaxScans = 2
    Retention = 1
    Checks = {k1, k2}
    Verifiers = {x, y}
    Accessible = {a, b}
    Changes = {x, y}
    MaxSwitches = 1
    MaxRuns = 1
    MaxTrouble = 1
    Listed = {l1, l2, l3}
    MaxActive = 2
    MaxPriority = 1
    Requested = 3
    MinimumRuns = 2
    MaxCycles = 2
    Syncs = {x, y}
    MaxActivity = 4
SYMMETRY Symmetric
SPECIFICATION Spec
INVARIANTS
    VerdictFromALaterCohort
    ResolvedHeld
    FixedIsWatched
    DecidedByItsOwnLog
    SettledHeldTwice
    ClaimsAreApart
    JudgedWhenComplete
    NamesCollideByKeeping
    DocumentsAgree
    ReportBehindSummary
    ChangeStaysHome
    SavedIsShown
    ActiveIsPolled
    ReportsAreTheRuns
    GivesUpForLack
    CountedOnce
PROPERTIES
    LegalDecisionTakesEffect
    RestoreGivesBack
    NewestReadingStays
    VerdictFollowsTheAnswers
    OthersKeepTheirTier
    TiersKeepTheirOrder
CHECK_DEADLOCK FALSE
