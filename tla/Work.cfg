SPECIFICATION Spec
CONSTANTS
    a = a
    b = b
    s1 = s1
    s2 = s2
    p1 = p1
    d1 = d1
    None = None
    Ghost = Ghost
    Staff = {a, b}
    Slots = {s1, s2}
    Projects = {p1}
    Tasks = {1, 2}
    Lists <- MCLists
    Departments = {d1}
    MaxWorkCalls = 2
    Statuses = {"Failed_Test", "Dev_Completed"}
    NewStatuses = {None, "Dev_Completed"}
    Sprints = {1, 2}
    Horizon = 48
SYMMETRY Symmetry
CHECK_DEADLOCK FALSE
INVARIANTS
    TypeOK
    AssigneesAreDecided
    SprintsInOrder
    WorkViewsAgree
PROPERTIES
    NewWorkIsLinked
