\* A kevent failure while output awaits its acknowledgement.
SPECIFICATION FacadeSpec
CONSTANTS
    HighWater = 2
    LowWater = 0
    ReadBatch = 2
    TurnLimit = 2
    WriteCapacity = 1
    TurnBatches = 2
    WriteLengths <- OneByteWrites
    RequestKinds <- Resizes
    MaxOutput = 3
    MaxInput = 0
    Faults = TRUE
INVARIANT FailureReleases
CHECK_DEADLOCK FALSE
