\* Numbers that wrap after three, windows of three, one station.
SPECIFICATION Spec
CONSTANTS
    s1 = s1
    Stations = {s1}
    MAX_SINKS = 1
    INTERVAL = 2
    REPORT_EVERY = 3
    SEQ_MOD = 3
    None = None
    MaxTime = 7
    MaxRepeats = 1
    MaxRestarts = 1
CHECK_DEADLOCK FALSE
INVARIANTS
    LossWithinStale
    KeepsTheBeat
PROPERTIES
    NoBurst
