CONSTANTS
    a = a  b = b  c = c  d = d
    Node = {a, b, c, d}
    Proposers = {a}
    Size = 4
    MaxEarly = 3
    Timeouts = FALSE
    MaxTries = 1
    MaxLosses = 0
    None = None
SPECIFICATION FairSpec
INVARIANTS EarlyKept
PROPERTIES AllFinish
CHECK_DEADLOCK FALSE
