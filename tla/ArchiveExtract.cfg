SPECIFICATION Spec
CONSTANTS
    Names = {a, b, plain}
    PlainName = plain
    Sizes = {0, 1, 2}
    MaxBytes = 2
    MaxFiles = 2
    Absent = Absent
INVARIANTS TypeOK DiskBounded CommandBounded AnswerCovers
PROPERTY Ends
CHECK_DEADLOCK FALSE
