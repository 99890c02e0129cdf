SPECIFICATION Spec
CONSTANTS
  u1 = u1  u2 = u2  u3 = u3
  k1 = k1  k2 = k2  k3 = k3
  s1 = s1  s2 = s2  c1 = c1
  Users = {u1, u2, u3}
  Sockets = {k1, k2}
  Owner <- OnePerUser
  Calls = {c1}
  Slots = {s1, s2}
  Scopes = {"dm", "group"}
  Messages = {"initiate", "accept", "decline", "end", "add"}
  Copies = {1}
  MaxMessages = 3
  MaxFaults = 0
  MaxRestarts = 0
  MaxEdits = 0
  Founders = {u1, u2}
  Deleted = Deleted
SYMMETRY SlotSymmetry
INVARIANTS TypeOK ColumnsAgree RingingIsTimed InfoWithinRoster FoundingRowsStay
PROPERTY NeverRingsAgain
CHECK_DEADLOCK FALSE
