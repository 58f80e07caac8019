SPECIFICATION Spec
CONSTANTS
    Requests = {r1, r2}
    Addresses = {a1, a2}
    Absent = Absent
    Cost = 3
    Burst = 1
    Second = 2
    ClientTTL = 4
    CleanupInterval = 1
    MaxClients = 1
    MaxWait = 1
    Consumers = {c1, c2}
    BlockDuration <- MCBlockDuration
    RetryBackoff = 1
    WorkerStopMargin = 2
    ShutdownTimeout = 2
    CommandTime = 1
    MaxServing = 7
SYMMETRY Symmetry
INVARIANTS
    WaitingPays
    IdleIsForgotten
    CutOffAfterTimeout
    ConsumersStopFirst
PROPERTY
    RateIsKept
CHECK_DEADLOCK FALSE
