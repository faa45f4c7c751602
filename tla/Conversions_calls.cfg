SPECIFICATION ConvSpec
CONSTANTS
    CallLen = 2
    MaxDigis = 2
    IntMod = 64
    RoseLen = 1
    Texts <- MCTexts
    Paths <- MCPaths
    Files <- MCFiles
    CallFiles <- MCCallFiles
    EnvCalls <- MCEnvCalls
    Uids = {1, 2}
    MaxCalls = 2
    MaxEdits = 1
    MaxFrame = 65535
    MaxSendChunk = 8100
    Apps <- MCApps
    Rooms = {0, 1, 4}
    Sizes <- MCSizes
    Fields <- MCFields
INVARIANTS
    RoundTrips
    PathKept
    PortsFound
    PointersValid
    UiDelivered
    FramesFit
CHECK_DEADLOCK FALSE
