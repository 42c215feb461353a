SPECIFICATION Spec
CONSTANTS
    Names = {n1, n2}
    MaxDepth = 2
INVARIANT TempsRemoved
CHECK_DEADLOCK FALSE
