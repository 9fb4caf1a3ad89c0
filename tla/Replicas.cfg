SPECIFICATION FairSpec
CONSTANTS
  r1 = r1  r2 = r2  e1 = e1  e2 = e2  bad = bad  None = None
  Replicas = {r1, r2}  Subscribers = {r1, r2}  Release <- Releases
  Events = {e1, e2, bad}  Poison = {bad}  Frail = {r1}
  MaxIncidents = 3
INVARIANT TypeOK
INVARIANT SchemaIsSomeRelease
INVARIANT ServingIsMigrated
INVARIANT NothingLost
PROPERTY ReplicasServe
PROPERTY EventsHandled
PROPERTY ImplementsQueue
