SPECIFICATION SystemSpec
CONSTANTS
    p1 = p1
    Programs = {p1}
    Effect = p1
    Size <- MCSize
    Torn <- MCTornAny
    Sources = {"show"}
    Show <- MCShow
    Zones = {"all"}
    Priorities = {1}
    SLOTS = 1
    MAX_SOURCES = 1
    MAX_PROGRAM = 2
    Zero = Zero
    Black = Black
    None = None
    Faults = {"lose"}
    MaxFaults = 1
    MaxInFlight = 3
    MayLead = FALSE
    MaxHellos = 2
    MaxReboots = 0
    MaxRestarts = 0
PROPERTIES
    LitWhateverIsLost
