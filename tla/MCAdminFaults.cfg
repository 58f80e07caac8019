SPECIFICATION AdminSpec
CONSTANTS
    Players = {p1}
    Boards = {b1, b2}
    MaxScore = 2
    Absent = Absent
    Names = {n1}
    PlayerKeys = {}
    NoKey = NoKey
    Seconds = {0}
    Keys = {}
    Amounts = {1}
    MaxEvents = 2
    Admins = {a1, a2}
    AdminOps = {"rebuild", "verify"}
    Faults = {"error", "death"}
    MaxResends = 1
SYMMETRY Symmetry
CONSTRAINT BoardsStayOpen
INVARIANTS
    VerifyReportsDrift
PROPERTIES
    RebuildRestores
