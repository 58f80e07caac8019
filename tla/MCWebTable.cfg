SPECIFICATION TableSpec
CONSTANTS
    Boards = {b1, b2}
    Players = {p1, p2}
    None = None
    PageSizes = {1, 2}
    MaxSize = 3
    MaxRequests = 3
    MaxHistory = 2
SYMMETRY Symmetry
INVARIANTS
    TableShowsSelection
    SnapsToLastPage
    HistoryMatchesPlayer
CHECK_DEADLOCK FALSE
