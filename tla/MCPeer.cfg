SPECIFICATION MCSpec
CONSTANTS
    Play = Play
    Other = Other
    Alert = Alert
    Programs = {Play, Other, Alert}
    Size <- MCSize
    Torn <- MCTornNone
    Splits = {TRUE, FALSE}
    ShowId = 7
    SecondId = 8
    AlertId = 9
    Sources = {7, 8, 9}
    ShowPriority = 100
    AlertPriority = 230
    Zones = {"all", "first", "second"}
    Priorities = {100, 230}
    SLOTS = 2
    MAX_SOURCES = 3
    MAX_PROGRAM = 2
    Zero = Zero
    Black = Black
    None = None
    Faults = {"lose", "repeat", "swap"}
    MaxFaults = 1
    MaxInFlight = 8
    MaxHellos = 1
    MaxRequests = 2
    MaxAlerts = 1
    MaxReboots = 1
INVARIANTS
    UndividedRendersItsOwn
    OffTakesTheShowOff
PROPERTIES
    ShowReturns
    IsStore
