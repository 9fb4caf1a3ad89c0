SPECIFICATION Spec
CONSTANTS
  u1 = u1  u2 = u2  t1 = t1  p1 = p1  p2 = p2  s1 = s1  s2 = s2
  Database = Database  None = None
  Users = {u1, u2}  Tokens = {t1}  Procs = {p1, p2}  Servers = {s1, s2}
  MaxTime = 3  Skew = 1
  Faults = {"error", "lost"}
SYMMETRY Symmetry
INVARIANTS TypeOK DeadStayDead UseIsRecorded
PROPERTIES OwnersRevoke ImplementsRegistry
