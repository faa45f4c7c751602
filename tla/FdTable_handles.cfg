SPECIFICATION Spec
CONSTANTS
    Thread = {t1, t2}
    Fd = {f1, f2}
    MaxGen = 2
    MaxHandle = 2
    MaxCalls = 3
SYMMETRY Symmetry
INVARIANTS
    HandlesDistinct
    EntriesMatch
    EngineMatches
CHECK_DEADLOCK FALSE
