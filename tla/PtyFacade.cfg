\* The facade under faults; every second acknowledgement waits in a timer.
SPECIFICATION FairFacadeSpec
CONSTANTS
    HighWater = 2
    LowWater = 0
    ReadBatch = 1
    TurnLimit = 2
    WriteCapacity = 1
    TurnBatches = 1
    WriteLengths <- OneByteWrites
    RequestKinds <- Resizes
    MaxOutput = 3
    MaxInput = 0
    Faults = TRUE
INVARIANTS
    FacadeTypeOK CreditHasOwner ExitDeliversAll
    SerialDelivery FailureIsNativeWhileChildLives
PROPERTIES DisposeCompletes EndIsHeard
CHECK_DEADLOCK FALSE
