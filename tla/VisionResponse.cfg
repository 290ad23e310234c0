CONSTANTS
    Streams <- Only13
    FilterCount = 2
    SessCap = 3
    LenMod = 3
SPECIFICATION VisionSpec
CHECK_DEADLOCK FALSE
INVARIANT ResponseBeforeDirect
