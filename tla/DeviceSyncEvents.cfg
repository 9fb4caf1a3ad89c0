SPECIFICATION EventSpec
CONSTANTS
  ann = ann  bob = bob  red = red  blue = blue  acme = acme  d1 = d1  d2 = d2
  Consumer = consumer  Reconciler = reconciler  None = None  Rank <- IdOrder
  Users = {ann}  Groups = {red, blue}  Devices = {d1}  Creators = {}
  Orgs = {acme}  Org <- AllInAcme  InitOrgs <- AllBelong  Broken = {}
  Pages <- OnePage  InitMember <- AnnInRed  InitRows = {d1}  InitOwner <- AnnOwnsD1
  Ops = {"join", "leave", "joinOrg", "leaveOrg", "redeliver"}  Faults = {"error", "lost"}
INVARIANT StaleAttributesAreExplained
PROPERTY EventsSettle
CHECK_DEADLOCK FALSE
