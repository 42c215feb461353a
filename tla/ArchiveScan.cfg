SPECIFICATION Spec
CONSTANTS
    Names = {n1, n2}
    MaxDepth = 3
INVARIANTS TypeOK CountersMatch DecidedOnce DepthCapped CopiesOutlivePush
PROPERTIES Accounted Ends
CHECK_DEADLOCK FALSE
