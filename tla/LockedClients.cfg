CONSTANTS
    c1 = c1
    c2 = c2
    Callers = {c1, c2}
    Slots = {c1, c2}
    Retries = 1
    MaxMinted = 3
    Libraries <- MCLibraries
SPECIFICATION Spec
INVARIANTS OneRefresh AdoptersRetryWithAnother KeepsItsFamily
PROPERTIES KeptInOrder AdoptersKeep
SYMMETRY Symmetry
