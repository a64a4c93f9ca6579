CONSTANTS
    a = a
    b = b
    c = c
    Files = {a, b, c}
    Stems = {a, b, c}
    Stem <- OwnStem
    Jobs = 2
    Broken <- BrokenSaves
    Refused <- RefusedSaves
    MaxSaves = 2
    MaxCrashes = 2
    MayEdit = FALSE
SPECIFICATION FairSpec
INVARIANTS
    CacheSound
    OneWriter
    LinksFresh
PROPERTIES
    ThreadsLinkAll
    BuildEnds
