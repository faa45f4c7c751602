\* One connect, blocking or not, the reader thread and close(): what is reported
\* is true, and it reaches whoever waits for it.
CONSTANTS
    Handle = {h1}
SPECIFICATION FairSpec
CHECK_DEADLOCK FALSE
INVARIANTS ConnectTruth GateHolds FillerPrivate
PROPERTIES ConnectEnds
