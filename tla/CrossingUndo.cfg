SPECIFICATION CrossingSpec
CONSTANTS
    Files <- LineFiles
INVARIANT
    UndoRestores
