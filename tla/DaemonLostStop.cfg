SPECIFICATION Spec
CONSTANTS
    Daemons = {d1}
    Stops = {stop1}
    Statuses = {status1}
    NoFile = NoFile
    EmptyFile = EmptyFile
PROPERTY SentStops
CHECK_DEADLOCK FALSE
