\* One thread; the transport drops while a datagram waits.
CONSTANTS
    Thread = {t1}
    MaxDgrams = 1
    QueueCap = 1
SPECIFICATION FairSpec
CHECK_DEADLOCK FALSE
PROPERTIES DisconnectWakesReaders
