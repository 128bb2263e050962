\* Two sessions spawn at the same time, whatever standard descriptors are open.
SPECIFICATION SpawnSpec
CONSTANTS
    s1 = s1
    s2 = s2
    Sessions <- TwoSessions
    MaxFd = 6
    HostOpen <- AnyStandard
    Faults = TRUE
SYMMETRY SymmetricSessions
INVARIANTS PublishedIsOwn NothingLeaks StartedIsTrue
CHECK_DEADLOCK FALSE
