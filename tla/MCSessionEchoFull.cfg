CONSTANTS
    p1 = p1  p2 = p2  p3 = p3
    Party = {p1, p2, p3}
    Protocol = "keysign"
    Values = {0}
    Splitters = {}
    Unfit = {}
    Fifo = TRUE
    MaxFaults = 0
    None = None
SPECIFICATION Spec
INVARIANTS EchoChannelOpen
CHECK_DEADLOCK FALSE
