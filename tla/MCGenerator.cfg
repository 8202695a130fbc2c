SPECIFICATION GeneratorSpec
CONSTANTS
    Documents <- MCDocuments
    Emitted <- MCEmitted
    LastContract = 2
    Versions = {1, 2}
    MaxEdits = 1
    MaxPipelines = 2
    MaxReruns = 1
INVARIANTS
    FlatAsOnTheWire
    HoldsWhatIsSent
    SixAskTheSame
    NamesStandApart
    ParsesEveryShape
    TypeOK
    PublishedAsGenerated
    MatchingVersions
    GreenMeansSix
    ProposesWhatGenerates
PROPERTIES
    EveryTagIsSaid
CHECK_DEADLOCK FALSE
