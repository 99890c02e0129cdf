SPECIFICATION Spec
CONSTANTS
    a = a
    b = b
    s1 = s1
    s2 = s2
    hr = hr
    ceo = ceo
    mail = mail
    n1 = n1
    n2 = n2
    None = None
    Staff = {a, b}
    Slots = {s1, s2}
    Roles = {hr}
    Emails = {ceo, mail}
    CeoEmail = ceo
    MaxAccountCalls = 3
    MaxSecrets = 5
    MaxSockets = 2
    Names = {n1, n2}
    MaxRows = 3
    MaxAdminCalls = 3
    Years = {1, 2, 3}
    LeapYears = {2}
    MonthDays = 2
    Week = 7
    Workload = {0, 1, 2, 3, 4}
    DayHours = 2
    WeekDays = 2
    LastHour = 4
    MaxEntries = 3
SYMMETRY Symmetry
CHECK_DEADLOCK FALSE
INVARIANTS
    TypeOK
    OnlyStaleSavesUndo
    ResetTokenWorksOnce
    OnlineMeansSockets
    NamesakesAreExcused
    RevokedOpensNothing
    ViewsAgree
