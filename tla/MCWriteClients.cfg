SPECIFICATION ClientSpec
CONSTANTS
    Players = {p1}
    Boards = {b1}
    MaxScore = 1
    Absent = Absent
    Names = {n1}
    PlayerKeys = {}
    NoKey = NoKey
    Seconds = {0}
    Keys = {c1, c2}
    Amounts = {1}
    MaxEvents = 3
    Clients = {c1, c2}
    MaxAttempts = 2
    MaxSends = 2
SYMMETRY Symmetry
INVARIANTS
    OkIsInTheLedger
    AppliedIsRemembered
PROPERTIES
    AppliesOnce
