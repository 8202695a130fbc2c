CONSTANTS
    c1 = c1
    c2 = c2
    c3 = c3
    Callers = {c1, c2, c3}
    Limit = 1
    Window = 6
    Second = 4
    Retries = 2
    MaxWait = 10
    GapLength = 3
SPECIFICATION Spec
INVARIANTS BurstGetsThrough RidesOutTheGap IInv
PROPERTIES NotRefusedTwice
SYMMETRY Symmetry
