SPECIFICATION Spec
CONSTANTS
    m1 = m1
    m2 = m2
    s1 = s1
    s2 = s2
    Md5s = {m1, m2}
    Sha256s = {s1, s2}
    None = None
    NoFile = NoFile
    Bits = {0, 1, 2}
    BitsOf <- MCBitsOf
    Updates = {u1, u2}
    Scans = {scan1}
    BaseDbs <- MCBaseDbs
    Feeds <- MCFeeds
INVARIANTS TypeOK BaseKept NothingLost UpdateLoads ImportsAreNew LookupsRight
CHECK_DEADLOCK FALSE
