SPECIFICATION Spec
CONSTANTS
    Daemons = {d1, d2}
    Stops = {stop1}
    Statuses = {}
    NoFile = NoFile
    EmptyFile = EmptyFile
INVARIANT OneDaemon
CHECK_DEADLOCK FALSE
