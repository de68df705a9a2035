CONSTANTS
    p1 = p1  p2 = p2  p3 = p3
    Party = {p1, p2}
    Protocol = "keygen"
    Values = {0}
    Splitters = {}
    Unfit = {}
    Fifo = TRUE
    MaxFaults = 1
    None = None
SPECIFICATION Spec
INVARIANTS EchoFailureReported
CHECK_DEADLOCK FALSE
