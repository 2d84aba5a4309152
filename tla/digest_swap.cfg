CONSTANTS
    Pages = {p1}
    Senders = {s1, s2}
    NumNights = 1
    Window = 1
    MaxAge = 0
    RetryDelay = 1
    Contention = TRUE
    Faults = FALSE
    EndpointSet = "always"
SYMMETRY SymmetricSenders
SPECIFICATION Spec
INVARIANTS
    OneMessagePerNight
