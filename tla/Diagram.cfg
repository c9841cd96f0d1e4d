CONSTANTS
    a = a
    b = b
    c = c
    d = d
    k = k
    n = n
    Symbols <- MCSymbols
    AllSymbols <- MCAllSymbols
    Platforms <- MCPlatforms
    Order <- MCOrder
SPECIFICATION MCSpec
INVARIANTS EdgesFollowControl SelectionExact DrawingTrue SourcesKept LayoutTrue
CHECK_DEADLOCK FALSE
