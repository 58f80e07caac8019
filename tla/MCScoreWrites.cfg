SPECIFICATION Spec
CONSTANTS
    Players = {p1, p2}
    Boards = {b1, b2}
    MaxScore = 3
    Absent = Absent
    Names = {n1}
    PlayerKeys = {}
    NoKey = NoKey
    Seconds = {0}
    Keys = {k1}
    Amounts <- MCAmounts
    MaxEvents = 3
SYMMETRY Symmetry
INVARIANTS
    TypeOK
    ProjectionIsReplay
    PrefixesInRange
    SnapshotBarrier
    RecordsNameTheirEntry
    EventsHaveOwners
