SPECIFICATION Spec
CONSTANTS
    Vars = {a, b, c, d}
    NoVar = NoVar
    NumRegs = 2
    InitialOffset = 0
    Lengths = {1, 2, 4}
    MaxPos = 4
INVARIANT NoSharing
INVARIANT ActiveExact
PROPERTY SpillsNeeded
