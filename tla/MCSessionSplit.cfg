CONSTANTS
    p1 = p1  p2 = p2  p3 = p3
    Party = {p1, p2, p3}
    Protocol = "keygen"
    Values = {0, 1}
    Splitters = {p1}
    Unfit = {}
    Fifo = TRUE
    MaxFaults = 0
    None = None
SPECIFICATION Spec
INVARIANTS EchoAgreement
PROPERTIES BroadcastReliable
CHECK_DEADLOCK FALSE
