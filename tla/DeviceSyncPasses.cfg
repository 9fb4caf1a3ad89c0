SPECIFICATION PassSpec
CONSTANTS
  ann = ann  bob = bob  red = red  blue = blue  acme = acme  d1 = d1  d2 = d2
  Consumer = consumer  Reconciler = reconciler  None = None  Rank <- IdOrder
  Users = {ann, bob}  Groups = {red}  Devices = {d1, d2}  Creators = {}
  Orgs = {acme}  Org <- AllInAcme  InitOrgs <- AllBelong  Broken = {d2}
  Pages <- OnePage  InitMember <- NoMember  InitRows = {d1, d2}  InitOwner <- BobOwnsBoth
  Ops = {"join", "joinOrg", "leaveOrg", "reconcile"}  Faults = {"error"}
PROPERTY PassesAdd
CHECK_DEADLOCK FALSE
