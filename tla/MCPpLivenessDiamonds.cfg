CONSTANTS
    v = v
    w = w
    o = o
    Comp <- Components
    Output <- OutputComp
    Programs <- TwoDiamonds
SPECIFICATION Spec
INVARIANT LiveOutIsUnion
CHECK_DEADLOCK FALSE
