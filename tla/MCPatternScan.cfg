SPECIFICATION Spec
CONSTANTS
    A = A
    B = B
    None = None
    NoPattern = None
    Byte <- MCByte
    Names <- MCNames
    Databases <- MCDatabases
    ChunkSizes = {1, 2, 4}
    MaxFileLen = 5
    MaxRewrites = 1
INVARIANTS TypeOK FoundExactly OneResultPerKey BoundedBuffer
PROPERTIES Searches Terminates
CHECK_DEADLOCK FALSE
