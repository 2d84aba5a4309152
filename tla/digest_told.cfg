CONSTANTS
    Pages = {p1}
    Senders = {s1}
    NumNights = 2
    Window = 1
    MaxAge = 1
    RetryDelay = 1
    Contention = FALSE
    Faults = TRUE
    EndpointSet = "maybe"
SPECIFICATION FairSpec
PROPERTIES
    EveryNightIsTold
