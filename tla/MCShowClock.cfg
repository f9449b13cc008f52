SPECIFICATION MCSpec
CONSTANTS
    SLEW_PPM = 2
    PPM_DENOM = 5
    STEP_ABOVE_US = 3
    MaxRaw = 4
    MaxOffset = 4
    MaxTold = 8
    RawTimes <- MCRawTimes
    Offsets <- MCOffsets
    ShowTimes <- MCShowTimes
INVARIANTS
    TypeOK
    WithinSlewRate
    CorrectionAbsorbed
PROPERTIES
    OnlyARefusedStepLoses
    NeverBackwards
