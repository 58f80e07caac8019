SPECIFICATION QuietSpec
CONSTANTS
    Players = {p1}
    Boards = {b1}
    MaxScore = 3
    Absent = Absent
    Names = {n1}
    PlayerKeys = {}
    NoKey = NoKey
    Seconds = {0}
    Keys = {}
    Amounts = {1}
    MaxEvents = 1
    Admins = {a1, a2}
    AdminOps = {"rebuild"}
    Faults = {}
    MaxResends = 0
SYMMETRY Symmetry
PROPERTIES
    QuietRebuildRestores
