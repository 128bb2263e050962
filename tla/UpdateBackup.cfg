\* A second update while the first one's backup is kept; nothing fails.
SPECIFICATION Spec
CONSTANTS
    MaxBuild = 3
    MaxSequence = 2
    Absent = Absent
    Damaged = Damaged
    NoJournal = NoJournal
    Faults = FALSE
    Unreliable = FALSE
PROPERTY OlderBackupKept
CHECK_DEADLOCK FALSE
