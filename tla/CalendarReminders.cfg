SPECIFICATION Spec
CONSTANTS
    a = a
    b = b
    e1 = e1
    e2 = e2
    s1 = s1
    s2 = s2
    None = None
    Staff = {a, b}
    Events = {e1, e2}
    Slots = {s1}
    Namesakes <- MCNamesakes
    Creates <- MCCreates
    Updates <- MCUpdates
    Earlier <- MCEarlier
    Period <- MCPeriod
    Repeats <- MCRepeats
    Leads = {1}
    Day = 2
    MaxDelay = 9
    SixMonths = 2
    Horizon = 2
    MaxRequests = 2
    MaxRestarts = 0
CHECK_DEADLOCK FALSE
PROPERTIES
    ReminderOnTime
