CONSTANTS
    r = r
    a = a
    b = b
    f = f
    g = g
    k = k
    Projects <- EveryProject
    Root = r
    MaxDepth = 5
SPECIFICATION FairSpec
INVARIANTS
    OwnImports
    CalleeBound
PROPERTIES
    Finishes
    LoadedOnce
