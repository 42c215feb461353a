SPECIFICATION Spec
CONSTANTS
    f1 = f1
    f2 = f2
    r1 = r1
    r2 = r2
    a = a
    b = b
    Files = {f1, f2}
    Paths = {f1, f2}
    PathOf <- OneRelativePath
    Walked <- TwoTrees
    Block = {a, b}
    Contents <- MCContents
    Runs = {r1, r2}
    NoIndex = NoIndex
    NoTmp = NoTmp
    MaxTime = 2
    MaxWrites = 0
INVARIANT VerdictsSound
CHECK_DEADLOCK FALSE
