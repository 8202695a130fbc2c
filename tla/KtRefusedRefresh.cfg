CONSTANTS
    Callers = {c1, c2}
    Slots = {c1, c2}
    Retries = 1
    MaxMinted = 3
SPECIFICATION Spec
PROPERTIES RefusedRefreshIsFinal
