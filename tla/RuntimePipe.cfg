\* A worker that does not read a request larger than its pipe.
SPECIFICATION FairSpec
CONSTANTS
    MaxInFlight = 1
    MaxRequests = 1
    Large = {1}
    Faults = FALSE
PROPERTY ShutdownConcludes
CHECK_DEADLOCK FALSE
