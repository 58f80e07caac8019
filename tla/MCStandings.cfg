SPECIFICATION StandingsSpec
CONSTANTS
    Players = {1, 2}
    Boards = {b1}
    MaxScore = 2
    Absent = Absent
    Names = {n1}
    PlayerKeys = {}
    NoKey = NoKey
    Seconds = {0}
    Keys = {}
    Amounts = {1, 2}
    MaxEvents = 2
    Admins = {a1}
    AdminOps = {"rebuild"}
    Faults = {}
    MaxResends = 0
    LastDay = 2
    Limits = {2}
    Offsets = {0, 1}
INVARIANTS
    RankWithinTotal
    PagesAreFull
    AsOfNowIsLive
PROPERTIES
    AsOfIsFinal
