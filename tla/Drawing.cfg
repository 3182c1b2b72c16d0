SPECIFICATION Spec
CONSTANTS
    Files <- DrawingFiles
INVARIANTS
    TypeOK
    LinesFollowFlows
    MessagesTurnInOrder
    GraphIsRestored
    OutputKeepsFlows
PROPERTIES
    EveryFlowIsDrawn
    DrawingPanicsAreKnown
