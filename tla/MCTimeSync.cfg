\* Two burst lengths, a request every 4 units and an announcement every 12, one fault.
SPECIFICATION Spec
CONSTANTS
    FINE_US = 2
    FINE_LIMIT_US = 4
    COARSE_US = 3
    COARSE_BUCKETS = 1
    RTT_TOLERANCE_NUM = 3
    RTT_TOLERANCE_DEN = 2
    BURSTS <- MCBursts
    I64_MAX = 1000
    None = None
    TICK_INTERVAL = 14
    REQUEST_INTERVAL = 4
    Delays = {1, 2}
    Late = {5}
    Busy = {1}
    Skews <- MCSkews
    MaxTime = 23
    MaxFaults = 1
CHECK_DEADLOCK FALSE
INVARIANTS
    SyncTypeOK
    WithinHalfRoundTrip
    FilterKeepsTheQuick
    BurstEstimates
    PercentileBracketsTheRank
    JitterCountedOnce
