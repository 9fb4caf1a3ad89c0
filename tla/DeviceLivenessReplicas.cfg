SPECIFICATION Spec
CONSTANTS
  ann = ann  bob = bob  d1 = d1  d2 = d2  Owner <- AllOfAnn  Rank <- IdOrder
  Users = {ann}  Devices = {d1}  Pollers = {p1, p2}
  Broken = {}  MaxTime = 3  Faults = {"error", "lost", "crash"}
INVARIANT TypeOK
INVARIANT RecordsAgree
PROPERTY EnrollmentKept
SYMMETRY PollerSymmetry
