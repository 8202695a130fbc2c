SPECIFICATION FairSpec
CONSTANTS
    Limits = {0, 1, 2, 4}
    Firsts = {0, 1}
    Longest = 4
    Default = 3
    Ceiling = 3
    MaxMoves = 2
    \* Two addresses with a PUT and a DELETE each, one a part of the other, and a POST.
    Written = {"saveListEntry", "removeListEntry", "rateListEntry", "unrateListEntry", "writePost"}
    Retries = 1
    MaxCalls = 2
    MaxForeign = 1
INVARIANTS
    SkipsNothing
    RepeatsNothing
    DoneAsReported
    LastWriteStands
PROPERTIES
    WalksAndWritesEnd
CHECK_DEADLOCK FALSE
