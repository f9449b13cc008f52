SPECIFICATION Spec
CONSTANTS
    p1 = p1
    Programs = {p1}
    Size <- MCSize
    Torn <- MCTorn
    Sources = {a, b, c}
    Zones = {"first"}
    Priorities = {1}
    SLOTS = 2
    MAX_SOURCES = 2
    MAX_PROGRAM = 2
    Zero = Zero
    Black = Black
    None = None
INVARIANTS
    TypeOK
    TransferSound
    BindingsSound
PROPERTIES
    HeldUntouched
    BindingSticks
    StaysLit
