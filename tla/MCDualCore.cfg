SPECIFICATION Spec
CONSTANTS
    PROGRAMS = 2
    FRAMES = 3
    PASSES = 3
    None = None
INVARIANTS
    NoDataRace
    RendersWhatWasPublished
    OneFrame
PROPERTIES
    EveryPassEnds
