CONSTANTS
    a = a
    b = b
    c = c
    Files = {a, b}
    Stems = {a, b}
    Stem <- OwnStem
    Jobs = 0
    Broken = {}
    Refused = {}
    MaxSaves = 1
    MaxCrashes = 0
    MayEdit = FALSE
SPECIFICATION Spec
INVARIANTS
    LinksAll
