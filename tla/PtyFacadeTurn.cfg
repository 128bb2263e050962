\* The product's configuration: a turn of two batches of the high watermark.
SPECIFICATION FacadeSpec
CONSTANTS
    HighWater = 2
    LowWater = 0
    ReadBatch = 2
    TurnLimit = 2
    WriteCapacity = 1
    TurnBatches = 2
    WriteLengths <- OneByteWrites
    RequestKinds <- Resizes
    MaxOutput = 3
    MaxInput = 0
    Faults = FALSE
INVARIANT FailureIsNative
CHECK_DEADLOCK FALSE
