SPECIFICATION Spec
CONSTANTS
    SegSpace = 6
    Gaps <- EdgeGaps
INVARIANTS
    OverlapsKeepTheirOrder
