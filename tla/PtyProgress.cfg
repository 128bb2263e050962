\* Progress under fairness: input, output, exit and close all complete.
SPECIFICATION FairSpec
CONSTANTS
    HighWater = 1
    LowWater = 0
    ReadBatch = 1
    TurnLimit = 0
    WriteCapacity = 1
    TurnBatches = 2
    WriteLengths <- OneByteWrites
    RequestKinds <- Resizes
    MaxOutput = 2
    MaxInput = 1
    Faults = FALSE
PROPERTIES CloseFinishes ExitFinishes OutputDelivered InputDelivered
CHECK_DEADLOCK FALSE
