\* Threads: two readers of lists of more than one file.  MaxJsIdl: 2 for 4.
SPECIFICATION Spec
CONSTANTS
    Trees <- MCTrees
    Rules <- MCRules
    SymOrder <- MCSymOrder
    FileNames <- MCFileNames
    TypeSyms <- MCTypeSyms
    Unsuited = {"m3"}
    JvmSyms = {}
    Threads = 2
    OneThread = 1
    MaxJsIdl = 2
    None = None
    Types <- MCTypes
    Numbers = {"1"}
CHECK_DEADLOCK FALSE
INVARIANTS
    ThreadsDoNotMatter
    LinksBothWays
    OntologyTrue
PROPERTY
    RulesEnd
