CONSTANTS
    roomA = roomA  roomB = roomB
    r1 = r1  r2 = r2  r3 = r3
    Rooms = {roomA, roomB}
    Requests = {r1, r2, r3}
    RoomOf <- TwoRooms
    MaxProposals = 2
    Nobody = Nobody
SPECIFICATION FairSpec
INVARIANTS TypeOK BusyIffOwned ReceiverKept NoStrandedRequest RequestConserved RoomPhases
PROPERTIES RequestResolved
CHECK_DEADLOCK FALSE
