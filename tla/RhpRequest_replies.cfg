\* Two callers, three requests, late and missing replies.
CONSTANTS
    Caller = {c1, c2}
    MaxRequests = 3
SPECIFICATION FairSpec
CHECK_DEADLOCK FALSE
INVARIANTS OwnReply PendingExact FramesWhole
PROPERTIES RequestReturns
