CONSTANTS
    Slots = {"keeper"}
    MaxMinted = 4
SPECIFICATION Spec
INVARIANTS IInv KilledOnlyWhenCut
CONSTRAINT Bound
