SPECIFICATION MCSpec
CONSTANTS
    Context = 1
    Diff <- MCDiff
    EmptySha1 = "0"
    LangOf <- MCLangOf
    Untokenized = "untokenized"
    RecordRank <- MCRank
    Limits = {0, 1}
    MaxAborts = 1
INVARIANTS
    LinesTrue
    SyntaxFollows
    SymdexKnows
PROPERTY
    CatchesUp
CHECK_DEADLOCK FALSE
