SPECIFICATION Spec
CONSTANTS
    SegSpace = 6
    Gaps <- AllGaps
INVARIANTS
    TypeOK
    OverlapsStayOrdered
    CrossingsAreNeeded
    SwapsCross
    NarrowGapsPanic
