CONSTANTS
    a = a  b = b  c = c  d = d
    Node = {a, b, c}
    Proposers = {a, b}
    Size = 3
    MaxEarly = 1
    Timeouts = TRUE
    MaxTries = 2
    MaxLosses = 1
    None = None
SPECIFICATION FairSpec
INVARIANTS TypeOK PeersetAgreed
PROPERTIES RunsOnce Settles
CHECK_DEADLOCK FALSE
