CONSTANTS
    Modules <- AllModules
    MaxOut = 40
SPECIFICATION FairSpec
CHECK_DEADLOCK FALSE
INVARIANTS
    TypeOK
    LoopsNest
    SelfRestored
    OwnOperands
    HandlersLive
    TameIterators
    Correct
PROPERTIES
    TameTerminates
