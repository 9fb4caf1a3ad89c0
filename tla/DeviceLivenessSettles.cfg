SPECIFICATION FairSpec
CONSTANTS
  ann = ann  bob = bob  d1 = d1  d2 = d2  Owner <- AllOfAnn  Rank <- IdOrder
  Users = {ann, bob}  Devices = {d1, d2}  Pollers = {p1}
  Broken = {d1}  MaxTime = 2  Faults = {"error", "lost", "crash"}
PROPERTY TimesAdvance
PROPERTY SettledIsRecorded
PROPERTY SeenKeepsAdvancing
