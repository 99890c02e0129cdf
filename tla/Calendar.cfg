SPECIFICATION Spec
CONSTANTS
    a = a
    b = b
    e1 = e1
    e2 = e2
    s1 = s1
    s2 = s2
    None = None
    Staff = {a, b}
    Events = {e1, e2}
    Slots = {s1, s2}
    Namesakes <- MCNamesakes
    Creates <- MCCreates
    Updates <- MCUpdates
    Earlier <- MCEarlier
    Period <- MCPeriod
    Repeats <- MCRepeats
    Leads = {1}
    Day = 2
    MaxDelay = 1
    SixMonths = 2
    Horizon = 2
    MaxRequests = 3
    MaxRestarts = 1
SYMMETRY Symmetry
CHECK_DEADLOCK FALSE
INVARIANTS
    TypeOK
    DoubleBookingIsARace
    OwnTimeIsRespected
    RemindersMatchRow
PROPERTIES
    RemovedForGood
