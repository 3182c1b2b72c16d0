SPECIFICATION Spec
CONSTANTS
    Files <- LayerFiles
INVARIANTS
    LayersInv
    ListsMirrorGraph
    PanicsOnCycles
    EdgesPointRight
    LongEdgesAreChains
