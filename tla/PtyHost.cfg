\* Two sessions that may share one slot, two clients that race for them.
SPECIFICATION Spec
CONSTANTS
    s1 = s1
    s2 = s2
    c1 = c1
    c2 = c2
    Sessions <- TwoSessions
    Clients <- TwoClients
    Generations = 3
    HighWater = 2
    LowWater = 1
    TurnMode = FALSE
    Faults = TRUE
SYMMETRY Symmetric
INVARIANTS HandleExact SlotsAccounted NoSelfJoin NoLostWake
CHECK_DEADLOCK FALSE
