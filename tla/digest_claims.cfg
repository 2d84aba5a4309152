CONSTANTS
    Pages = {p1, p2}
    Senders = {s1, s2}
    NumNights = 1
    Window = 1
    MaxAge = 2
    RetryDelay = 1
    Contention = TRUE
    Faults = TRUE
    EndpointSet = "always"
SYMMETRY SymmetricSenders
SPECIFICATION Spec
INVARIANTS
    ClaimIsExclusive
    AtMostOnceKnown
    SentWhenSettled
    NoticeIsTold
