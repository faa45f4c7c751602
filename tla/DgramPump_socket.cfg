\* Two threads on one socket, more datagrams than the queue holds.
CONSTANTS
    Thread = {t1, t2}
    MaxDgrams = 5
    QueueCap = 2
SPECIFICATION FairSpec
CHECK_DEADLOCK FALSE
INVARIANTS Readiness DgramOrder
PROPERTIES ParkedThreadWakes
