SPECIFICATION FairSpec
CONSTANTS
    Players = {p1}
    Boards = {b1, b2}
    small = small
    large = large
    Clocks = {2, 3}
    DayLength = 3
    SeqScale = 2
    Radix = 3
    Contents <- MCContents
    BatchCount = 2
    MaxMalformed = 1
    MaxFaults = 1
    PageLimit = 2
INVARIANTS
    NeverLost
    ExactUnlessFaulty
    HistoryHasNoHoles
    PagesAreNewestFirst
    WaitMeansIndexed
PROPERTIES
    CursorAdvances
    EveryEntryArrives
