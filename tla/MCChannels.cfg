SPECIFICATION ChannelSpec
CONSTANTS
    sender = sender
    app = app
    Producers = {sender, app}
    Prefix <- MCPrefix
    Priority <- MCPriority
    DRIVE = 1
    RENEW = 1
    LEASE = 3
    HOLD = 2
    MaxAhead = 1
    MaxLost = 2
    MaxDepartures = 1
    MaxInFlight = 2
    MaxReboots = 1
    None = None
INVARIANTS
    LeaseIsKept
    GoneInTime
    SliderIsRead
PROPERTIES
    ForemostIsRead
