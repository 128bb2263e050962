\* Two watermarks, no turn limit: batches, pauses, retries and writes under faults.
SPECIFICATION Spec
CONSTANTS
    HighWater = 2
    LowWater = 1
    ReadBatch = 2
    TurnLimit = 0
    WriteCapacity = 2
    TurnBatches = 2
    WriteLengths <- ShortWrites
    RequestKinds <- Signals
    MaxOutput = 3
    MaxInput = 2
    Faults = TRUE
INVARIANTS TypeOK CreditConserved NoLostResume LifecycleOnce ExitIsComplete
    WriteQueueConserved
PROPERTY ImplementsContract
CHECK_DEADLOCK FALSE
