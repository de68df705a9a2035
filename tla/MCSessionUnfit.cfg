CONSTANTS
    p1 = p1  p2 = p2  p3 = p3
    Party = {p1, p2}
    Protocol = "keysign"
    Values = {0}
    Splitters = {}
    Unfit = {p2}
    Fifo = TRUE
    MaxFaults = 0
    None = None
SPECIFICATION Spec
INVARIANTS AppChannelOpen
CHECK_DEADLOCK FALSE
