SPECIFICATION FairSpec
CONSTANTS
    Callers = {a, b}
    MaxDeaths = 2
    Intervals = {0, 1, 3, 4}
    Floor = 3
    More = 2
    Expiry = 12
    MaxStarts = 3
    Ops = {1, 2}
    Bodies = {1, 2}
    Tolerance = 1
    Skews <- MCSkews
    MaxClock = 3
INVARIANTS
    TypeOK
    MintsAsNeeded
    AsksAgainWithAnother
    EndsAsDecided
    EachCodeOnce
    ReloadKeepsTheSignIn
    AnswerIsOfTheChosen
    AcceptsTheGenuine
PROPERTIES
    EveryFlowEnds
CHECK_DEADLOCK FALSE
