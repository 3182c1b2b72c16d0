SPECIFICATION Spec
CONSTANT Diagrams <- AllDiagrams
INVARIANTS
    AnalysisInv
    PathsAreProtected
    AnswersAreRight
PROPERTIES
    AnalysisEnds
