SPECIFICATION AdminSpec
CONSTANTS
    Players = {p1}
    Boards = {b1}
    MaxScore = 2
    Absent = Absent
    Names = {n1}
    PlayerKeys = {}
    NoKey = NoKey
    Seconds = {0}
    Keys = {}
    Amounts <- MCAmounts
    MaxEvents = 2
    Admins = {a1}
    AdminOps = {"rebuild"}
    Faults = {}
    MaxResends = 0
SYMMETRY Symmetry
INVARIANTS
    PrefixesInRange
