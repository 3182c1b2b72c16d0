SPECIFICATION Spec
CONSTANTS
    l1 = l1
    NoKey = NoKey
    Labels <- OneLabel
    Statements <- DataFiles
    MaxLines = 7
    MaxPools = 2
    MaxArms = 1
    MaxDataNodes = 2
    MaxRecipients = 2
INVARIANTS
    TypeOK
    FlowsRespectPools
    DataBetweenRecipients
    ContinuationsAreAdjacent
