SPECIFICATION Spec
CONSTANTS
  ann = ann  bob = bob  red = red  blue = blue  acme = acme  d1 = d1  d2 = d2
  Consumer = consumer  Reconciler = reconciler  None = None  Rank <- IdOrder
  Users = {ann}  Groups = {red, blue}  Devices = {d1}  Creators = {c1}
  Orgs = {acme}  Org <- AllInAcme  InitOrgs <- AllBelong  Broken = {}
  Pages <- OnePage  InitMember <- NoMember  InitRows = {}  InitOwner <- NobodyOwns
  Ops = {"create", "delete", "deleteUser", "join", "leave", "leaveOrg", "reconcile"}
  Faults = {"error", "lost", "unlink", "crash"}
INVARIANT TypeOK
INVARIANT RowsHaveIdentity
INVARIANT NoIdentityLeaks
INVARIANT StaleAttributesAreExplained
SYMMETRY GroupSymmetry
CHECK_DEADLOCK FALSE
