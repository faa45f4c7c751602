\* A session whose writes are longer than a chunk and whose socketpair holds more
\* than the pump's buffer.
CONSTANTS
    Handle = {h1}
    Pump = pump
    MaxBytes = 3
    PipeCap = 3
    BufLen = 2
    ChunkLen = 1
SPECIFICATION FairSpec
CHECK_DEADLOCK FALSE
INVARIANTS TypeOK SessionOrder LossReported
PROPERTIES BypassForwarded
