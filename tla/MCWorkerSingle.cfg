CONSTANTS
    roomA = roomA  roomB = roomB
    r1 = r1  r2 = r2  r3 = r3
    Rooms = {roomA}
    Requests = {r1, r2, r3}
    RoomOf <- OneRoom
    MaxProposals = 2
    Nobody = Nobody
SPECIFICATION Spec
INVARIANTS SingleSession
CHECK_DEADLOCK FALSE
