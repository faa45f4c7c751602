\* One session in depth, every split of 3 bytes into pushes, writes and reads,
\* beside one whose application never reads; both share the flusher.
CONSTANTS
    Handle = {1, 2}
    Attentive = {1}
    Byte = {1, 2, 3}
    MaxChunk = 2
    MaxBytes = 3
    StalledBytes = 2
    PipeCap = 1
    EarlyCap = 1
SPECIFICATION MCSpec
CHECK_DEADLOCK FALSE
INVARIANTS BytesKept EofOrderly LiveFdsOpen SleepsOnlyIdle
PROPERTIES StreamSpec NoHeadOfLineBlocking NotedEofSeen
