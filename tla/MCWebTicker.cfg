SPECIFICATION TickerSpec
CONSTANTS
    EventLimit = 2
    TickerMax = 3
    MaxId = 6
    MaxFlushes = 2
    MaxReloads = 2
    MaxFaults = 2
    MaxMalformed = 1
    NotStored = NotStored
INVARIANTS
    RowsAreOrdered
    NothingIsSkipped
PROPERTIES
    CatchesUp
