SPECIFICATION FairSpec
CONSTANTS
    Requests = {r1, r2, r3}
    Timeout = 2
    ReadTimeout = 2
    WriteSlack = 2
INVARIANTS
    OneToolAtATime
    AnswersInTime
PROPERTIES
    SlotComesBack
