SPECIFICATION ChannelSpec
CONSTANTS
    sender = sender
    app = app
    Producers = {sender, app}
    Prefix <- MCPrefix
    Priority <- MCPriority
    DRIVE = 1
    RENEW = 1
    LEASE = 4
    HOLD = 3
    MaxAhead = 4
    MaxLost = 0
    MaxDepartures = 0
    MaxInFlight = 2
    MaxReboots = 0
    None = None
INVARIANT FreshValueIsRead
