SPECIFICATION MCSpec
CONSTANTS
    SLEW_PPM = 1
    PPM_DENOM = 3
    STEP_ABOVE_US = 2
    RawTimes <- MCRawTimes
    Offsets <- MCOffsets
    ShowTimes = {}
    LEDS = 2
    Leftovers <- MCLeftovers
    Unread = Unread
    FRAME_US = 2
    FLOOR_US = 1
    SYNC_US = 4
    MAX_PEERS = 2
    p1 = p1
    p2 = p2
    p3 = p3
    here = here
    there = there
    Prefixes <- MCPrefixes
    Homes <- MCHomes
    Timers <- MCTimers
    Leads <- MCLeads
    Pictures <- MCPictures
    MaxTurn = 4
    MaxRaw = 8
    MaxCrowd = 3
    MaxBatch = 2
    None = None
INVARIANTS
    CoreIsWoken
    CanAnswer
    NeverPastTheLeader
    StripShowsFrames
PROPERTIES
    FramesGoForward
