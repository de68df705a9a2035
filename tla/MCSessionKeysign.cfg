CONSTANTS
    p1 = p1  p2 = p2  p3 = p3
    Party = {p1, p2, p3}
    Protocol = "keysign"
    Values = {0}
    Splitters = {}
    Unfit = {}
    Fifo = FALSE
    MaxFaults = 1
    None = None
SPECIFICATION Spec
INVARIANTS EchoDrainsDry
PROPERTIES BroadcastReliable
CHECK_DEADLOCK FALSE
