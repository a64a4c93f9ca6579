SPECIFICATION FairSpec
CONSTANT Families <- AllFamilies
CHECK_DEADLOCK FALSE
INVARIANTS StackAligned Correct CatchBalanced
PROPERTIES RegistersKept Terminates
