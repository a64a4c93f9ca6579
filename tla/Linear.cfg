SPECIFICATION Spec
CONSTANTS
    p = p
    b1 = b1
    Vars = {p, q, r}
    Params <- TheParams
    Blocks = {b1, b2, b3}
    NoBlock = NoBlock
    ParamBlock <- TheParamBlock
INVARIANT OneOwner
INVARIANT MemorySafe
CHECK_DEADLOCK FALSE
