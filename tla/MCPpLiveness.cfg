CONSTANTS
    v = v
    w = w
    o = o
    Comp <- Components
    Output <- OutputComp
    Programs <- SmallGraphs
SPECIFICATION Spec
INVARIANTS TypeOK NothingDeadIsLive EveryUseIsLive WorkQueueHolds
PROPERTY Terminates
CHECK_DEADLOCK FALSE
