SPECIFICATION Spec
CONSTANTS
    Daemons = {d1, d2}
    Stops = {stop1}
    Statuses = {status1}
    NoFile = NoFile
    EmptyFile = EmptyFile
INVARIANTS TypeOK OrderlyUse CleanExit
PROPERTIES AbsentIsTrue HeardStops
CHECK_DEADLOCK FALSE
