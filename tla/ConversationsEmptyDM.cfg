SPECIFICATION Spec
CONSTANTS
    u1 = u1
    u2 = u2
    u3 = u3
    s1 = s1
    s2 = s2
    Users = {u1, u2}
    MaxConvs = 2
    MaxLog = 3
    Slots = {s1}
    Requests = {"write", "mark", "leave"}
    MaxRequests = 4
    MaxRaced = 4
    MaxFaults = 0
SYMMETRY UserSymmetry
CHECK_DEADLOCK FALSE
INVARIANT EmptyDMIsGone
