\* A child, its jobs and the processes that may get their ids.
SPECIFICATION Spec
CONSTANTS
    p1 = p1
    p2 = p2
    p3 = p3
    Pids <- SomePids
    Faults = TRUE
    MemberLimit = 3
    ArgumentLimit = 2
    SingleLimit = 2
    Capacity = 5
    Members <- Group4
    Times <- SomeTimes
    ArgumentLists <- SomeArguments
    Environments <- SomeEnvironments
SYMMETRY Symmetric
INVARIANTS KillIsAimed SnapshotExact
PROPERTY JobIsCurrent
CHECK_DEADLOCK FALSE
