SPECIFICATION CrossingSpec
CONSTANTS
    Files <- CrossingFiles
INVARIANTS
    OutcomeInv
    OnlyEntangledEdgesAreLost
    PanicsAreKnown
    ColumnsAreLinkedLists
    LoneDataBesideNeighbour
