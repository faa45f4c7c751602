\* One byte and one application end are enough for the pump never to rest.
CONSTANTS
    Handle = {h1}
    Pump = pump
    MaxBytes = 1
    PipeCap = 1
    BufLen = 1
    ChunkLen = 1
SPECIFICATION FairSpec
CHECK_DEADLOCK FALSE
PROPERTIES NeverSpins
