CONSTANTS
    c1 = c1
    c2 = c2
    Callers = {c1, c2}
    Slots = {c1, c2}
    Retries = 1
    MaxMinted = 2
    Libraries <- MCRetryingThrown
SPECIFICATION FairSpec
PROPERTIES EveryCallEnds
