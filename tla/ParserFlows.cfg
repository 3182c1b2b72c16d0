SPECIFICATION Spec
CONSTANTS
    l1 = l1
    NoKey = NoKey
    Labels <- OneLabel
    Statements <- FlowFiles
    MaxLines = 5
    MaxPools = 2
    MaxArms = 2
    MaxDataNodes = 1
    MaxRecipients = 1
INVARIANTS
    ParserInv
    NoDeadEnd
    JumpsReachLandings
PROPERTIES
    BoundaryEventsOnLastTask
