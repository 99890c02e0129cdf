SPECIFICATION Spec
CONSTANTS
    u1 = u1
    u2 = u2
    u3 = u3
    s1 = s1
    s2 = s2
    Users = {u1, u2}
    MaxConvs = 2
    MaxLog = 3
    Slots = {s1, s2}
    Requests = {"send", "open", "write", "forward", "edit", "delete", "add", "remove", "mark", "leave", "leaveAll", "create", "drop"}
    MaxRequests = 4
    MaxRaced = 3
    MaxFaults = 1
SYMMETRY UserSymmetry
CHECK_DEADLOCK FALSE
INVARIANTS
    TypeOK
    LastInside
    OnlyMembersSpeak
    LastIsNewestText
PROPERTIES
    DeletedStaysDeleted
    MarkedIsRead
    ReadOnlyForward
    FollowsRooms
