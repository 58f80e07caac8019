SPECIFICATION ListingSpec
CONSTANTS
    Players = {p1, p2}
    Boards = {1, 2}
    MaxScore = 1
    Absent = Absent
    Names = {n1, n2}
    PlayerKeys = {k1, k2}
    NoKey = NoKey
    Seconds = {0, 1}
    Callers = {c1, c2}
SYMMETRY Symmetry
INVARIANTS
    KeysNameProfiles
    IndexNamesBoards
    ListingIsWhole
    OrderFollowsSeconds
