------------------------------ MODULE MCLayout ------------------------------
(* The files that LayerAssignment is checked on.                            *)
EXTENDS LayerAssignment, LayoutFiles

LayerFiles ==
    Parsed({Loop, LongDiamond(2), BoundaryFlow}
           \union OneData(OneData({Line}, 2), 2)
           \union OneData({Diamond(2), TwoPools}, 2)
           \union OneData({LongDiamond(1)}, 1))
=============================================================================
