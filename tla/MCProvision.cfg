SPECIFICATION MCSpec
CONSTANTS
    p1 = p1
    Programs = {p1}
    Effect = p1
    Size <- MCSize
    Torn <- MCTornAny
    Sources = {"show"}
    Show <- MCShow
    Zones = {"all"}
    Priorities = {1}
    SLOTS = 1
    MAX_SOURCES = 1
    MAX_PROGRAM = 2
    Zero = Zero
    Black = Black
    None = None
    Faults = {"lose", "repeat", "swap"}
    MaxFaults = 2
    MaxInFlight = 3
    MayLead = TRUE
    MaxHellos = 2
    MaxReboots = 1
    MaxRestarts = 1
PROPERTIES
    EventuallyLit
    NeverEmptyForGood
