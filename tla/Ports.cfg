SPECIFICATION Spec
CONSTANTS
    Files <- PortFiles
INVARIANTS
    TypeOK
    FlowsSurviveBends
    PortsFollowEdges
    ListsStayWhole
    BendsAreOnTheWay
    FailuresAreKnown
