SPECIFICATION Spec
CONSTANTS
    a = a
    b = b
    s1 = s1
    s2 = s2
    e1 = e1
    d1 = d1
    d2 = d2
    None = None
    Ghost = Ghost
    Staff = {a, b}
    Slots = {s1, s2}
    Requests = {1}
    Days = {1, 2}
    TicketIds = {1, 2, 3}
    Depts = {d1, d2}
    Ideas = {1, 2, 3, 4}
    Replies = {1, 2, 3}
    Schedules = {1}
    LastDay = 3
    NoticeIds = {1, 2, 3, 4, 5, 6}
    Endpoints = {e1}
SYMMETRY Symmetry
CHECK_DEADLOCK FALSE
INVARIANTS
    TypeOK
    LeaveHolds
    RefsAndLogsHold
    
    OnceIsOnce
PROPERTIES
    NoticesHold
