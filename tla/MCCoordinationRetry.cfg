CONSTANTS
    a = a  b = b  c = c  d = d
    Node = {a, b, c}
    Proposers = {a}
    Size = 3
    MaxEarly = 2
    Timeouts = FALSE
    MaxTries = 2
    MaxLosses = 1
    None = None
SPECIFICATION Spec
INVARIANTS TakenStay
CHECK_DEADLOCK FALSE
