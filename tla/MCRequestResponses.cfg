CONSTANTS
    c1 = c1  c2 = c2
    r1 = r1  r2 = r2
    Call = {c1, c2}
    Fallback = {c2}
    Inbound = {r1, r2}
    QueueSize = 1
SPECIFICATION FairSpec
INVARIANTS TypeOK SenderHeld ArrivalRecorded FeedbackAwaited
PROPERTIES CallsAnswered
CHECK_DEADLOCK FALSE
