\* Two listeners behind one condition variable, two accepting threads.
CONSTANTS
    Listener = {l1, l2}
    Acceptor = {a1, a2}
    MaxChildren = 2
SPECIFICATION FairSpec
CHECK_DEADLOCK FALSE
INVARIANTS EachChildOnce SleepersAreWoken
PROPERTIES ChildAccepted
