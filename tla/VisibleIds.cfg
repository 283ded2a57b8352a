SPECIFICATION FairSpec
CONSTANTS
    Ids <- MCIds
    None = 0
CHECK_DEADLOCK FALSE
INVARIANTS LeastClosed LoopInv
PROPERTY Terminates
