\* Four builds, crashes, failing storage and a verifier that may time out.
SPECIFICATION Spec
CONSTANTS
    MaxBuild = 4
    MaxSequence = 3
    Absent = Absent
    Damaged = Damaged
    NoJournal = NoJournal
    Faults = TRUE
    Unreliable = TRUE
INVARIANTS TypeOK LastGoodKept PreviousIsProven
PROPERTIES SequenceOnce RecoveryResolves
CHECK_DEADLOCK FALSE
