SPECIFICATION Spec
CONSTANTS
    Files <- TurnedFiles
INVARIANTS
    OutputIsWhatWasRead
