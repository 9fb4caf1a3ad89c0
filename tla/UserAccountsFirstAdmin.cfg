SPECIFICATION Spec
CONSTANTS
  root = root
  i1 = i1
  i2 = i2
  rs = rs
  s1 = s1
  n1 = n1
  n2 = n2
  p1 = p1
  p2 = p2
  o1 = o1
  Cluster = Cluster
  None = None
  Ids = {root, i1}
  Subjects = {rs, s1}
  Usernames = {n1}
  Orgs = {}
  Procs = {p1, p2}
  CandidateLists <- OneName
  InitUsers = {}
  InitRegistered = {}
  InitAdmins = {}
  Ops = {"resolve"}
  Targets = {}
  Faults = {}
INVARIANT FirstSignInTakesAdmin
