CONSTANT
    Sizes = {8192, 16384}
SPECIFICATION Spec
INVARIANT
    InodesOutsideData
CHECK_DEADLOCK FALSE
