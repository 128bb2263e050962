\* Two requests, the second more than the pipe holds; anything fails.
SPECIFICATION FairSpec
CONSTANTS
    MaxInFlight = 2
    MaxRequests = 2
    Large = {2}
    Faults = TRUE
INVARIANTS TypeOK EndIsComplete WorkIsRegistered FailedStartIsReaped
PROPERTIES ImplementsContract RequestsConclude ShutdownConcludesIfRead
CHECK_DEADLOCK FALSE
