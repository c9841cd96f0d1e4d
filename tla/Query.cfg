CONSTANTS
    a = a
    b = b
    c = c
    d = d
    Known <- MCKnown
    PathKindOf <- MCPathKindOf
    Dirs <- MCDirs
    LineCount <- MCLineCount
SPECIFICATION Spec
INVARIANTS
    PlanFlows
    LabelsTrue
    ResultsTrue
PROPERTY QueryEnds
CHECK_DEADLOCK FALSE
