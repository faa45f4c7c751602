\* One listener, one accepting thread, the transport drops.
CONSTANTS
    Listener = {l1}
    Acceptor = {a1}
    MaxChildren = 1
SPECIFICATION FairSpec
CHECK_DEADLOCK FALSE
PROPERTIES DisconnectEndsAccept
