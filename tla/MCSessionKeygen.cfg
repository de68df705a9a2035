CONSTANTS
    p1 = p1  p2 = p2  p3 = p3
    Party = {p1, p2, p3}
    Protocol = "keygen"
    Values = {0}
    Splitters = {}
    Unfit = {}
    Fifo = FALSE
    MaxFaults = 0
    None = None
SPECIFICATION FairSpec
INVARIANTS TypeOK EchoChannelOpen AppChannelOpen
PROPERTIES AllEnd
CHECK_DEADLOCK FALSE
