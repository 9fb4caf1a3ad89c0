-------------------------- MODULE DeviceSyncProofs --------------------------
(***************************************************************************)
(* Theorems about DeviceSync, for any number of users, groups, devices and *)
(* requests, any organizations and paging of the group lists and any       *)
(* faults.                                                                 *)
(***************************************************************************)
EXTENDS DeviceSync, TLAPS

(***************************************************************************)
(* What a job holds at each pc; own is the owner of each device.           *)
(***************************************************************************)
Shape(w, j, own) ==
  /\ j.pc = "idle" => j = NoJob
  /\ j.pc \in {"idle", "orgs", "list", "next"} => j.devices = {}
  /\ j.pc \in {"orgs", "list", "row", "patch"} => j.user \in Users
  /\ \A d \in j.devices : own[d] # None
  /\ j.pc \in {"row", "patch"} => \A d \in j.devices : own[d] = j.user
  /\ j.pc \in IF w \in Creators THEN {"idle", "orgs", "list", "row", "undo", "unlink"}
              ELSE IF w = Consumer THEN {"idle", "orgs", "list", "patch"}
              ELSE {"idle", "orgs", "list", "patch", "next"}
  /\ w # Consumer => j.candidates = {}
  /\ j.desired \subseteq UNION (Pages \ j.pages)
  /\ j.pages \subseteq PagesOf(j.orgs)
  /\ j.pc = "orgs" => j.desired = {}
  /\ j.pc = "patch" => j.pages = {}

Shapes == \A w \in Workers : Shape(w, work[w], owner)

TypeInv == TypeOK /\ Shapes

(***************************************************************************)
(* A request that inserts the row of a new identity is alone with it.  One *)
(* that deletes an identity, to undo or to unlink, finds its row gone, or  *)
(* somebody's answer about it was lost.                                    *)
(***************************************************************************)
Inserting(w) ==
  work[w].pc = "row" =>
    /\ work[w].devices \subseteq ziti \ rows
    /\ \A v \in Creators \ {w} : work[v].devices \cap work[w].devices = {}

Removing(w) ==
  work[w].pc \in {"undo", "unlink"} => work[w].devices \cap rows \subseteq doubted

IdentityInv ==
  /\ RowsHaveIdentity /\ NoIdentityLeaks
  /\ \A w \in Creators : Inserting(w) /\ Removing(w)

(***************************************************************************)
(* The groups the consumer listed are those of the memberships of now,     *)
(* within the organizations it saw, but for changes whose event still      *)
(* waits.  The event it holds excuses only the devices it has not patched  *)
(* yet.                                                                    *)
(***************************************************************************)
Current(u, g, desired, seen) ==
  (g \in desired <=> <<u, g>> \in member /\ Org[g] \in seen) \/ <<u, g>> \in events

ListedCurrent ==
  work[Consumer].pc \in {"list", "patch"} =>
    \A page \in Pages \ work[Consumer].pages : \A g \in page :
      Current(work[Consumer].user, g, work[Consumer].desired, work[Consumer].orgs)

\* Attributes known to wait for no event.
Marks == raced \cup unannounced

Explained(d, g) ==
  \/ g \in attrs[d] <=> Listed(owner[d], g)
  \/ <<owner[d], g>> \in events
  \/ <<d, g>> \in Marks

Excused(d, g) ==
  /\ <<owner[d], g>> \in Held
  /\ work[Consumer].pc = "patch" => d \in work[Consumer].devices

AttributesInv ==
  /\ ListedCurrent
  /\ \A d \in rows \cap ziti, g \in Groups : Explained(d, g) \/ Excused(d, g)

-----------------------------------------------------------------------------
(* How jobs are replaced.                                                  *)

OwnersKept == \A d \in Devices : owner[d] # None => owner'[d] = owner[d]

\* The next job of w is j, and it is a sound one.
Takes(w, j) ==
  /\ Becomes(w, j) /\ j \in Jobs /\ Shape(w, j, owner')

LEMMA WorkBecomes ==
  ASSUME TypeInv, NEW w \in Workers, NEW j, Becomes(w, j)
  PROVE  work'[w] = j /\ \A v \in Workers \ {w} : work'[v] = work[v]
BY DEF TypeInv, TypeOK, Becomes

LEMMA ShapesTake ==
  ASSUME TypeInv, OwnersKept, NEW w \in Workers, NEW j, Takes(w, j)
  PROVE  work' \in [Workers -> Jobs] /\ Shapes'
<1>1. work' \in [Workers -> Jobs]
  BY DEF TypeInv, TypeOK, Takes, Becomes
<1>2. ASSUME NEW v \in Workers PROVE Shape(v, work'[v], owner')
  <2>1. CASE v = w
    BY <2>1, WorkBecomes DEF Takes
  <2>2. CASE v # w
    <3>1. work'[v] = work[v]
      BY <2>2, WorkBecomes DEF Takes
    <3>2. Shape(v, work[v], owner) /\ work[v].devices \subseteq Devices
      BY DEF TypeInv, TypeOK, Shapes, Jobs
    <3>3. \A d \in work[v].devices : owner'[d] = owner[d]
      BY <3>2 DEF OwnersKept, Shape
    <3> QED BY <3>1, <3>2, <3>3 DEF Shape
  <2> QED BY <2>1, <2>2
<1> QED BY <1>1, <1>2 DEF Shapes

\* The event the consumer holds is an event of a user.
LEMMA HeldType == work \in [Workers -> Jobs] /\ Shapes => Held \subseteq Users \X Groups
<1> SUFFICES ASSUME work \in [Workers -> Jobs], Shapes PROVE Held \subseteq Users \X Groups
  OBVIOUS
<1>1. Consumer \in Workers /\ Consumer \notin Creators
  BY NamesAssumption DEF Workers
<1>2. work[Consumer] \in Jobs /\ Shape(Consumer, work[Consumer], owner)
  BY <1>1 DEF Shapes
<1>3. work[Consumer].candidates \subseteq Groups
  BY <1>2 DEF Jobs
<1>4. work[Consumer].candidates = {} \/ work[Consumer].user \in Users
  BY <1>1, <1>2 DEF Shape, NoJob
<1> QED BY <1>3, <1>4 DEF Held

LEMMA NoJobType == NoJob \in Jobs
BY DEF NoJob, Jobs, PCs

LEMMA NoJobShape == ASSUME NEW w \in Workers, NEW own PROVE Shape(w, NoJob, own)
BY DEF Shape, NoJob

LEMMA FailTakes ==
  ASSUME TypeInv, NEW w \in Workers, Fail(w)
  PROVE  /\ Takes(w, NoJob)
         /\ events' \subseteq Users \X Groups
         /\ events \subseteq events'
<1>1. Held \subseteq Users \X Groups
  BY DEF TypeInv, TypeOK
<1> QED BY <1>1, NoJobType, NoJobShape DEF Fail, Takes, TypeInv, TypeOK

LEMMA ListingTakes ==
  ASSUME TypeInv, NEW w \in Workers, NEW u \in Users,
         work[w].pc \in {"idle", "next"}
  PROVE  /\ Listing(w, u) \in Jobs /\ Shape(w, Listing(w, u), owner)
         /\ Listing(w, u).pc = "orgs" /\ Listing(w, u).user = u
         /\ Listing(w, u).pages = {} /\ Listing(w, u).desired = {}
         /\ Listing(w, u).devices = {} /\ Listing(w, u).candidates = work[w].candidates
         /\ Listing(w, u).todo = work[w].todo
<1>1. work[w] \in Jobs /\ Shape(w, work[w], owner)
  BY DEF TypeInv, TypeOK, Shapes
<1>2. /\ Listing(w, u) \in Jobs
      /\ Listing(w, u).pc = "orgs" /\ Listing(w, u).user = u
      /\ Listing(w, u).pages = {} /\ Listing(w, u).desired = {}
      /\ Listing(w, u).devices = work[w].devices /\ Listing(w, u).candidates = work[w].candidates
      /\ Listing(w, u).todo = work[w].todo
  BY <1>1 DEF Listing, Jobs, PCs
<1>3. work[w].devices = {}
  BY <1>1 DEF Shape
<1>4. Shape(w, Listing(w, u), owner)
  BY <1>1, <1>2, <1>3 DEF Shape
<1> QED BY <1>2, <1>3, <1>4

-----------------------------------------------------------------------------
(* What the steps of the workers make of their jobs.                       *)

SameTarget(w, j) == j.user = work[w].user /\ j.candidates = work[w].candidates

\* w learns the organizations of its user, and so which pages to ask for.
ListsOrganizations(w) ==
  \E j \in Jobs :
    /\ Takes(w, j) /\ SameTarget(w, j) /\ UNCHANGED events
    /\ j.pc = "list" /\ j.devices = {} /\ j.desired = {}
    /\ j.orgs = OrgsOf(work[w].user) /\ j.pages = PagesOf(j.orgs)

LEMMA ListOrganizationsTakes ==
  ASSUME TypeInv, NEW w \in Workers, ListOrganizations(w)
  PROVE  Fail(w) \/ ListsOrganizations(w)
<1>1. work[w] \in Jobs /\ Shape(w, work[w], owner) /\ work[w].pc = "orgs" /\ UNCHANGED owner
  BY DEF TypeInv, TypeOK, Shapes, ListOrganizations
<1> DEFINE found == OrgsOf(work[w].user)
           j == [work[w] EXCEPT !.pc = "list", !.orgs = found, !.pages = PagesOf(found)]
<1>2. ASSUME UNCHANGED events, Becomes(w, j) PROVE ListsOrganizations(w)
  <2>1. found \subseteq Orgs /\ PagesOf(found) \subseteq Pages
    BY DEF OrgsOf, PagesOf
  <2> HIDE DEF found
  <2>2. /\ j \in Jobs /\ j.pc = "list" /\ j.devices = {} /\ j.desired = {} /\ SameTarget(w, j)
        /\ j.orgs = found /\ j.pages = PagesOf(found)
    BY <1>1, <2>1 DEF Jobs, PCs, SameTarget, Shape
  <2>3. Becomes(w, j)
    BY <1>2
  <2> HIDE DEF j
  <2>4. Shape(w, j, owner)
    BY <1>1, <2>2 DEF Shape, SameTarget
  <2> QED BY <1>1, <1>2, <2>2, <2>3, <2>4 DEF ListsOrganizations, Takes, found
<1> QED BY <1>2 DEF ListOrganizations

\* w lists the groups of one more page.
ListsPage(w, page) ==
  \E j \in Jobs :
    /\ Takes(w, j) /\ SameTarget(w, j) /\ UNCHANGED events
    /\ j.pc = "list" /\ j.devices = {} /\ j.orgs = work[w].orgs
    /\ j.pages = work[w].pages \ {page}
    /\ j.desired = work[w].desired \cup {g \in page : <<work[w].user, g>> \in member}

LEMMA ListGroupsTakes ==
  ASSUME TypeInv, NEW w \in Workers, ListGroups(w)
  PROVE  Fail(w) \/ \E page \in work[w].pages : ListsPage(w, page)
<1>1. work[w] \in Jobs /\ Shape(w, work[w], owner) /\ work[w].pc = "list"
  BY DEF TypeInv, TypeOK, Shapes, ListGroups
<1>2. ASSUME NEW page \in work[w].pages, UNCHANGED events,
             Becomes(w, [work[w] EXCEPT
                           !.pages = @ \ {page},
                           !.desired = @ \cup {g \in page : <<work[w].user, g>> \in member}])
      PROVE  ListsPage(w, page)
  <2> DEFINE new == {g \in page : <<work[w].user, g>> \in member}
             j == [work[w] EXCEPT !.pages = @ \ {page}, !.desired = @ \cup new]
  <2>1. page \in Pages /\ page \subseteq Groups
    BY <1>1, PagesAssumption DEF Jobs
  <2>2. new \subseteq page
    OBVIOUS
  <2>3. Becomes(w, j)
    BY <1>2
  <2>4. /\ j.pc = "list" /\ j.devices = work[w].devices /\ SameTarget(w, j)
        /\ j.orgs = work[w].orgs /\ j.pages = work[w].pages \ {page}
        /\ j.desired = work[w].desired \cup new
    BY <1>1 DEF Jobs, SameTarget
  <2>5. j \in Jobs
    BY <1>1, <2>1 DEF Jobs
  <2> HIDE DEF j
  <2>6. j.desired \subseteq UNION (Pages \ j.pages)
    <3> HIDE DEF new
    <3> SUFFICES ASSUME NEW g \in work[w].desired \cup new PROVE \E x \in Pages \ j.pages : g \in x
      BY <2>4
    <3>1. CASE g \in new
      BY <2>1, <2>2, <2>4, <3>1
    <3>2. CASE g \in work[w].desired
      BY <1>1, <2>4, <3>2 DEF Shape
    <3> QED BY <3>1, <3>2
  <2>7. Shape(w, j, owner)
    BY <1>1, <2>4, <2>6 DEF Shape, SameTarget
  <2>8. UNCHANGED owner /\ work[w].devices = {}
    BY <1>1 DEF ListGroups, Shape
  <2> QED BY <1>2, <2>3, <2>4, <2>5, <2>7, <2>8 DEF ListsPage, Takes
<1> QED BY <1>2 DEF ListGroups

\* w has all groups and takes the devices.
ListsDevices(w) ==
  \E j \in Jobs :
    /\ Takes(w, j) /\ SameTarget(w, j) /\ UNCHANGED events
    /\ j.pc = "patch" /\ j.devices = DevicesOf(work[w].user)
    /\ j.pages = {} /\ j.desired = work[w].desired /\ j.orgs = work[w].orgs

LEMMA ListDevicesTakes ==
  ASSUME TypeInv, NEW w \in Workers, ListDevices(w)
  PROVE  Fail(w) \/ ListsDevices(w)
<1>1. work[w] \in Jobs /\ Shape(w, work[w], owner) /\ work[w].pc = "list" /\ work[w].pages = {}
      /\ w \in {Consumer, Reconciler} /\ w \notin Creators /\ UNCHANGED owner
  BY NamesAssumption DEF TypeInv, TypeOK, Shapes, ListDevices
<1>2. ASSUME UNCHANGED events,
             Becomes(w, [work[w] EXCEPT !.pc = "patch", !.devices = DevicesOf(work[w].user)])
      PROVE  ListsDevices(w)
  <2> DEFINE devices == DevicesOf(work[w].user)
             j == [work[w] EXCEPT !.pc = "patch", !.devices = devices]
  <2>1. devices \subseteq Devices /\ \A d \in devices : owner[d] = work[w].user /\ owner[d] # None
    BY DEF DevicesOf, TypeInv, TypeOK
  <2>2. Becomes(w, j)
    BY <1>2
  <2> HIDE DEF devices
  <2>3. /\ j.pc = "patch" /\ j.devices = devices /\ SameTarget(w, j)
        /\ j.pages = {} /\ j.desired = work[w].desired /\ j.orgs = work[w].orgs
    BY <1>1 DEF Jobs, SameTarget
  <2>4. j \in Jobs
    BY <1>1, <2>1 DEF Jobs, PCs
  <2> HIDE DEF j
  <2>5. Shape(w, j, owner)
    BY <1>1, <2>1, <2>3 DEF Shape, SameTarget
  <2> QED BY <1>1, <1>2, <2>2, <2>3, <2>4, <2>5 DEF ListsDevices, Takes, devices
<1> QED BY <1>2 DEF ListDevices

LEMMA TakeEventTakes ==
  ASSUME TypeInv, NEW u \in Users, NEW g \in Groups, TakeEvent(u, g)
  PROVE  \E j \in Jobs :
           /\ Takes(Consumer, j)
           /\ j.pc = "orgs" /\ j.user = u /\ j.candidates = {g}
           /\ j.pages = {} /\ j.devices = {} /\ j.desired = {}
<1> DEFINE l == Listing(Consumer, u)
           j == [l EXCEPT !.candidates = {g}]
<1>1. Consumer \in Workers /\ Consumer \notin Creators /\ work[Consumer].pc = "idle" /\ UNCHANGED owner
  BY NamesAssumption DEF Workers, TakeEvent
<1>2. /\ l \in Jobs /\ Shape(Consumer, l, owner)
      /\ l.pc = "orgs" /\ l.user = u /\ l.pages = {} /\ l.desired = {} /\ l.devices = {}
  BY <1>1, ListingTakes
<1>3. Becomes(Consumer, j)
  BY DEF TakeEvent
<1> HIDE DEF l
<1>4. /\ j \in Jobs /\ j.pc = "orgs" /\ j.user = u /\ j.candidates = {g}
      /\ j.pages = {} /\ j.devices = {} /\ j.desired = {}
  BY <1>2 DEF Jobs
<1> HIDE DEF j
<1>5. Shape(Consumer, j, owner)
  BY <1>1, <1>4 DEF Shape
<1> QED BY <1>1, <1>3, <1>4, <1>5 DEF Takes

LEMMA PassTakes ==
  ASSUME TypeInv, StartPass \/ NextUser
  PROVE  \E j \in Jobs : Takes(Reconciler, j)
<1>1. Reconciler \in Workers /\ Reconciler \notin Creators \cup {Consumer} /\ UNCHANGED owner
  BY NamesAssumption DEF Workers, StartPass, NextUser
<1>2. CASE StartPass
  <2> DEFINE j == [NoJob EXCEPT !.pc = "next", !.todo = accounts]
  <2>1. /\ j \in Jobs /\ j.pc = "next" /\ j.devices = {} /\ j.candidates = {}
        /\ j.desired = {} /\ j.pages = {}
    BY NoJobType DEF TypeInv, TypeOK, NoJob, Jobs, PCs
  <2>2. Becomes(Reconciler, j)
    BY <1>2 DEF StartPass
  <2> HIDE DEF j
  <2>3. Shape(Reconciler, j, owner)
    BY <1>1, <2>1 DEF Shape
  <2> QED BY <1>1, <2>1, <2>2, <2>3 DEF Takes
<1>3. ASSUME NEW u \in work[Reconciler].todo, work[Reconciler].pc = "next",
             Becomes(Reconciler, [Listing(Reconciler, u) EXCEPT !.todo = @ \ {u}])
      PROVE  \E j \in Jobs : Takes(Reconciler, j)
  <2> DEFINE l == Listing(Reconciler, u)
             j == [l EXCEPT !.todo = @ \ {u}]
  <2>1. u \in Users /\ work[Reconciler].candidates = {}
    BY <1>1 DEF TypeInv, TypeOK, Jobs, Shapes, Shape
  <2>2. /\ l \in Jobs /\ l.pc = "orgs" /\ l.user = u /\ l.pages = {} /\ l.desired = {}
        /\ l.devices = {} /\ l.candidates = {}
    BY <1>1, <1>3, <2>1, ListingTakes
  <2>3. Becomes(Reconciler, j)
    BY <1>3
  <2> HIDE DEF l
  <2>4. /\ j \in Jobs /\ j.pc = "orgs" /\ j.user = u /\ j.pages = {} /\ j.desired = {}
        /\ j.devices = {} /\ j.candidates = {}
    BY <2>2 DEF Jobs
  <2> HIDE DEF j
  <2>5. Shape(Reconciler, j, owner)
    BY <1>1, <2>1, <2>4 DEF Shape
  <2> QED BY <1>1, <2>3, <2>4, <2>5 DEF Takes
<1>4. CASE Becomes(Reconciler, NoJob)
  BY <1>1, <1>4, NoJobType, NoJobShape DEF Takes
<1> QED BY <1>2, <1>3, <1>4 DEF NextUser

\* A patch of d adds desired and removes Dropped, and marks what it got wrong.
Dropped(w) == Removed(work[w].desired, work[w].candidates)
Touched(w) == work[w].desired \cup Dropped(w)
Wrong(w) == {g \in Touched(w) : (g \in work[w].desired) # Listed(work[w].user, g)}

LEMMA PatchMarks ==
  ASSUME NEW w, NEW d, Patched(w, d)
  PROVE  /\ attrs' = [attrs EXCEPT ![d] = (@ \cup work[w].desired) \ Dropped(w)]
         /\ raced' = (raced \ ({d} \X Touched(w)))
              \cup (IF w = Reconciler THEN ({d} \cap rows) \X (Wrong(w) \ Outdated(w)) ELSE {})
         /\ unannounced' = (unannounced \ ({d} \X Touched(w)))
              \cup (({d} \cap rows) \X (Wrong(w) \cap Outdated(w)))
BY DEF Patched, Dropped, Touched, Wrong

\* w is through with d.
Passes(w, d) ==
  \E j \in Jobs :
    /\ Takes(w, j) /\ SameTarget(w, j) /\ UNCHANGED events
    /\ j.pc = "patch" /\ j.pages = {} /\ j.desired = work[w].desired /\ j.orgs = work[w].orgs
    /\ j.devices = work[w].devices \ {d}

LEMMA PatchTakes ==
  ASSUME TypeInv, NEW w \in Workers, NEW d \in Devices, Patch(w, d)
  PROVE  /\ w \notin Creators /\ d \in work[w].devices
         /\ \/ d \in ziti /\ Patched(w, d) /\ (Passes(w, d) \/ Fail(w))
            \/ UNCHANGED <<attrs, raced, unannounced>> /\ Fail(w)
<1>1. /\ work[w] \in Jobs /\ Shape(w, work[w], owner) /\ work[w].pc = "patch"
      /\ d \in work[w].devices /\ UNCHANGED owner
  BY DEF TypeInv, TypeOK, Shapes, Patch, IsFirst
<1>2. w \notin Creators
  BY <1>1 DEF Shape
<1>3. ASSUME Becomes(w, [work[w] EXCEPT !.devices = @ \ {d}]), UNCHANGED events
      PROVE  Passes(w, d)
  <2> DEFINE j == [work[w] EXCEPT !.devices = @ \ {d}]
  <2>1. /\ j \in Jobs /\ j.pc = "patch" /\ j.pages = {} /\ j.desired = work[w].desired
        /\ j.orgs = work[w].orgs /\ j.devices = work[w].devices \ {d} /\ SameTarget(w, j)
    BY <1>1 DEF Jobs, Shape, SameTarget
  <2>2. Becomes(w, j)
    BY <1>3
  <2> HIDE DEF j
  <2>3. Shape(w, j, owner)
    BY <1>1, <1>2, <2>1 DEF Shape, SameTarget
  <2> QED BY <1>1, <1>3, <2>1, <2>2, <2>3 DEF Takes, Passes
<1> QED BY <1>1, <1>2, <1>3 DEF Patch

LEMMA EndSyncTakes ==
  ASSUME TypeInv, NEW w \in Workers, EndSync(w)
  PROVE  /\ w \notin Creators /\ work[w].pc = "patch" /\ work[w].devices = {}
         /\ \E j \in Jobs : Takes(w, j) /\ (w = Consumer => j = NoJob)
<1>1. /\ work[w] \in Jobs /\ Shape(w, work[w], owner) /\ work[w].pc = "patch"
      /\ work[w].devices = {} /\ UNCHANGED owner
  BY DEF TypeInv, TypeOK, Shapes, EndSync
<1>2. w \notin Creators
  BY <1>1 DEF Shape
<1>3. CASE w = Consumer
  BY <1>1, <1>2, <1>3, NoJobType, NoJobShape DEF EndSync, Synced, Takes
<1>4. CASE w # Consumer
  <2> DEFINE j == [NoJob EXCEPT !.pc = "next", !.todo = work[w].todo]
  <2>1. /\ j \in Jobs /\ j.pc = "next" /\ j.devices = {} /\ j.candidates = {}
        /\ j.desired = {} /\ j.pages = {}
    BY <1>1, NoJobType DEF NoJob, Jobs, PCs
  <2>2. Becomes(w, j)
    BY <1>4 DEF EndSync, Synced
  <2> HIDE DEF j
  <2>3. Shape(w, j, owner)
    BY <1>2, <1>4, <2>1 DEF Shape
  <2> QED BY <1>1, <1>2, <1>4, <2>1, <2>2, <2>3 DEF Takes
<1> QED BY <1>3, <1>4

\* A request has done all it does, or does the next thing with device d.
LEMMA CallCreateTakes ==
  ASSUME TypeInv, NEW w \in Creators, NEW u \in accounts, CallCreate(w, u)
  PROVE  \E j \in Jobs : Takes(w, j) /\ j.pc = "orgs" /\ j.devices = {}
<1>1. w \in Workers /\ u \in Users /\ work[w].pc = "idle" /\ UNCHANGED owner
  BY DEF Workers, TypeInv, TypeOK, CallCreate
<1> QED BY <1>1, ListingTakes DEF CallCreate, Takes

\* A new identity, in the hands of w or, its answer lost, in doubt.
NewIdentity(w, d) ==
  /\ owner[d] = None
  /\ ziti' = ziti \cup {d}
  /\ owner' = [owner EXCEPT ![d] = work[w].user] /\ work[w].user \in Users
  /\ attrs' = [attrs EXCEPT ![d] = work[w].desired] /\ work[w].desired \subseteq Groups
  /\ \/ \E j \in Jobs : /\ Takes(w, j) /\ j.pc = "row" /\ j.devices = {d}
                        /\ j.user = work[w].user /\ UNCHANGED doubted
     \/ Takes(w, NoJob) /\ doubted' = doubted \cup {d}

LEMMA CreateIdentityTakes ==
  ASSUME TypeInv, NEW w \in Workers, CreateIdentity(w)
  PROVE  /\ w \in Creators /\ work[w].pc = "list"
         /\ \/ \E d \in Devices : NewIdentity(w, d)
            \/ Takes(w, NoJob) /\ UNCHANGED <<ziti, owner, attrs, doubted>>
<1>1. /\ work[w] \in Jobs /\ Shape(w, work[w], owner) /\ work[w].pc = "list"
      /\ work[w].pages = {} /\ w \in Creators /\ w # Consumer
  BY NamesAssumption DEF TypeInv, TypeOK, Shapes, CreateIdentity
<1>2. ASSUME NEW d \in Devices, owner[d] = None, owner' = [owner EXCEPT ![d] = work[w].user],
             Becomes(w, [work[w] EXCEPT !.pc = "row", !.devices = {d}])
      PROVE  \E j \in Jobs : Takes(w, j) /\ j.pc = "row" /\ j.devices = {d} /\ j.user = work[w].user
  <2> DEFINE j == [work[w] EXCEPT !.pc = "row", !.devices = {d}]
  <2>1. /\ j \in Jobs /\ j.pc = "row" /\ j.devices = {d} /\ SameTarget(w, j)
        /\ j.pages = {} /\ j.desired = work[w].desired
    BY <1>1 DEF Jobs, PCs, SameTarget
  <2>2. owner'[d] = work[w].user /\ work[w].user \in Users
    BY <1>1, <1>2 DEF Shape, TypeInv, TypeOK
  <2> HIDE DEF j
  <2>3. Shape(w, j, owner')
    BY <1>1, <2>1, <2>2, NamesAssumption DEF Shape, SameTarget
  <2> QED BY <1>2, <2>1, <2>3 DEF Takes, SameTarget, j
<1>3. work[w].user \in Users /\ work[w].desired \subseteq Groups
  BY <1>1 DEF Shape, Jobs
<1> QED BY <1>1, <1>2, <1>3, NoJobType, NoJobShape DEF CreateIdentity, Takes, NewIdentity, Doubt

\* What the new device lacks, or has too much, is marked.
Misses(w) ==
  /\ raced' = raced \cup UNION {{d} \X (Missed(d) \ Outdated(w)) : d \in work[w].devices}
  /\ unannounced' = unannounced
                     \cup UNION {{d} \X (Missed(d) \cap Outdated(w)) : d \in work[w].devices}

LEMMA CreateRowTakes ==
  ASSUME TypeInv, NEW w \in Workers, CreateRow(w)
  PROVE  /\ w \in Creators /\ work[w].pc = "row"
         /\ \/ /\ work[w].user \in accounts
               /\ rows' = rows \cup work[w].devices
               /\ Misses(w)
               /\ Takes(w, NoJob) /\ UNCHANGED doubted
            \/ /\ \E j \in Jobs : Takes(w, j) /\ j.pc = "undo" /\ j.devices = work[w].devices
               /\ \/ /\ work[w].user \in accounts
                     /\ rows' = rows \cup work[w].devices
                     /\ Misses(w)
                     /\ doubted' = doubted \cup work[w].devices
                  \/ UNCHANGED <<rows, raced, unannounced, doubted>>
<1>1. /\ work[w] \in Jobs /\ Shape(w, work[w], owner) /\ work[w].pc = "row" /\ UNCHANGED owner
  BY DEF TypeInv, TypeOK, Shapes, CreateRow
<1>2. w \in Creators /\ w # Consumer
  BY <1>1, NamesAssumption DEF Shape
<1>3. ASSUME InsertFails(w)
      PROVE  \E j \in Jobs : Takes(w, j) /\ j.pc = "undo" /\ j.devices = work[w].devices
  <2> DEFINE j == [work[w] EXCEPT !.pc = "undo"]
  <2>1. /\ j \in Jobs /\ j.pc = "undo" /\ j.devices = work[w].devices /\ SameTarget(w, j)
        /\ j.pages = work[w].pages /\ j.orgs = work[w].orgs /\ j.desired = work[w].desired
    BY <1>1 DEF Jobs, PCs, SameTarget
  <2>2. Becomes(w, j)
    BY <1>3 DEF InsertFails, Goto
  <2> HIDE DEF j
  <2>3. Shape(w, j, owner)
    BY <1>1, <1>2, <2>1 DEF Shape, SameTarget
  <2> QED BY <1>1, <2>1, <2>2, <2>3 DEF Takes
<1> QED BY <1>1, <1>2, <1>3, NoJobType, NoJobShape DEF CreateRow, Misses, Takes, Doubt

LEMMA CallDeleteTakes ==
  ASSUME TypeInv, NEW w \in Creators, NEW d \in rows, CallDelete(w, d)
  PROVE  /\ work[w].pc = "idle"
         /\ \/ UNCHANGED <<rows, raced, unannounced, doubted>> /\ Takes(w, NoJob)
            \/ /\ RemoveRows({d})
               /\ \/ Takes(w, NoJob) /\ doubted' = doubted \cup {d}
                  \/ /\ UNCHANGED doubted
                     /\ \E j \in Jobs : Takes(w, j) /\ j.pc = "unlink" /\ j.devices = {d}
<1>1. work[w].pc = "idle" /\ UNCHANGED owner /\ w \in Workers /\ d \in Devices /\ owner[d] # None
  BY DEF Workers, TypeInv, TypeOK, CallDelete
<1>2. ASSUME Becomes(w, [NoJob EXCEPT !.pc = "unlink", !.devices = {d}])
      PROVE  \E j \in Jobs : Takes(w, j) /\ j.pc = "unlink" /\ j.devices = {d}
  <2> DEFINE j == [NoJob EXCEPT !.pc = "unlink", !.devices = {d}]
  <2>1. /\ j \in Jobs /\ j.pc = "unlink" /\ j.devices = {d} /\ j.candidates = {}
        /\ j.desired = {} /\ j.pages = {}
    BY <1>1, NoJobType DEF NoJob, Jobs, PCs
  <2>2. Becomes(w, j)
    BY <1>2
  <2> HIDE DEF j
  <2>3. Shape(w, j, owner)
    BY <1>1, <2>1, NamesAssumption DEF Shape
  <2> QED BY <1>1, <2>1, <2>2, <2>3 DEF Takes
<1>3. PICK code \in {"OK"} \cup (Faults \cap {"error", "lost"}) :
        /\ IF code = "error" THEN UNCHANGED <<rows, raced, unannounced>> ELSE RemoveRows({d})
        /\ AfterDelete(w, d, code)
        /\ IF code = "lost" THEN Doubt({d}) ELSE UNCHANGED doubted
  BY DEF CallDelete
<1> QED BY <1>1, <1>2, <1>3, NoJobType, NoJobShape DEF AfterDelete, Doubt, Takes

LEMMA UnlinkTakes ==
  ASSUME TypeInv, NEW w \in Workers, Unlink(w)
  PROVE  /\ w \in Creators /\ work[w].devices \subseteq Devices
         /\ Takes(w, NoJob)
<1>1. /\ work[w] \in Jobs /\ Shape(w, work[w], owner) /\ work[w].pc \in {"undo", "unlink"}
  BY DEF TypeInv, TypeOK, Shapes, Unlink
<1>2. w \in Creators
  BY <1>1 DEF Shape
<1> QED BY <1>1, <1>2, NoJobType, NoJobShape DEF Unlink, Takes, Jobs

-----------------------------------------------------------------------------
(* Type correctness.                                                       *)

TablesOK ==
  /\ accounts \subseteq Users
  /\ rows \cup ziti \subseteq {d \in Devices : owner[d] # None}
  /\ owner \in [Devices -> Users \cup {None}]
  /\ \A d \in rows : owner[d] \in accounts
  /\ attrs \in [Devices -> SUBSET Groups]
  /\ orgs \subseteq Users \X Orgs
  /\ raced \cup unannounced \subseteq rows \X Groups /\ doubted \subseteq Devices

\* What is left to show of a step that hands w a sound job.
LEMMA TypedByTables ==
  ASSUME TypeInv, OwnersKept, TablesOK', (member \cup events)' \subseteq Users \X Groups,
         NEW w \in Workers, NEW j, Takes(w, j)
  PROVE  TypeInv'
<1>1. work' \in [Workers -> Jobs] /\ Shapes'
  BY ShapesTake
<1>2. Held' \subseteq Users \X Groups
  <2>1. (work \in [Workers -> Jobs] /\ Shapes => Held \subseteq Users \X Groups)'
    BY HeldType, PTL
  <2> QED BY <1>1, <2>1
<1> QED BY <1>1, <1>2 DEF TypeInv, TypeOK, TablesOK

\* A step that leaves the tables alone.
LEMMA QuietTyped ==
  ASSUME TypeInv,
         UNCHANGED <<accounts, rows, ziti, owner, attrs, raced, unannounced, doubted, member, orgs>>,
         events' \subseteq Users \X Groups, NEW w \in Workers, NEW j, Takes(w, j)
  PROVE  TypeInv'
<1>1. OwnersKept /\ TablesOK' /\ (member \cup events)' \subseteq Users \X Groups
  BY DEF TypeInv, TypeOK, OwnersKept, TablesOK
<1> QED BY <1>1, TypedByTables

LEMMA RemoveRowsTyped ==
  ASSUME TypeInv, NEW S, RemoveRows(S)
  PROVE  rows' \subseteq rows /\ raced' \cup unannounced' \subseteq rows' \X Groups
BY DEF TypeInv, TypeOK, RemoveRows

LEMMA SyncTyped ==
  ASSUME TypeInv, NEW w \in Workers,
         \/ ListOrganizations(w) \/ ListGroups(w) \/ ListDevices(w) \/ EndSync(w)
         \/ \E d \in Devices : Patch(w, d)
  PROVE  TypeInv'
<1>1. events \subseteq Users \X Groups
  BY DEF TypeInv, TypeOK
<1>2. CASE ListGroups(w)
  <2>1. UNCHANGED <<accounts, rows, ziti, owner, attrs, raced, unannounced, doubted, member, orgs>>
    BY <1>2 DEF ListGroups
  <2>2. \E j : Takes(w, j) /\ events' \subseteq Users \X Groups
    BY <1>1, <1>2, ListGroupsTakes, FailTakes DEF ListsPage
  <2> QED BY <2>1, <2>2, QuietTyped
<1>3. CASE ListDevices(w)
  <2>1. UNCHANGED <<accounts, rows, ziti, owner, attrs, raced, unannounced, doubted, member, orgs>>
    BY <1>3 DEF ListDevices
  <2>2. \E j : Takes(w, j) /\ events' \subseteq Users \X Groups
    BY <1>1, <1>3, ListDevicesTakes, FailTakes DEF ListsDevices
  <2> QED BY <2>1, <2>2, QuietTyped
<1>4. CASE EndSync(w)
  <2>1. UNCHANGED <<accounts, rows, ziti, owner, attrs, raced, unannounced, doubted, member, orgs,
                 events>>
    BY <1>4 DEF EndSync
  <2> QED BY <1>1, <1>4, <2>1, EndSyncTakes, QuietTyped
<1>5. ASSUME NEW d \in Devices, Patch(w, d) PROVE TypeInv'
  <2>1. UNCHANGED <<accounts, rows, ziti, owner, member, orgs, doubted>>
    BY <1>5 DEF Patch
  <2>2. (Passes(w, d) \/ Fail(w)) /\ (Patched(w, d) \/ UNCHANGED <<attrs, raced, unannounced>>)
    BY <1>5, PatchTakes
  <2>3. \E j : Takes(w, j) /\ events' \subseteq Users \X Groups
    BY <1>1, <2>2, FailTakes DEF Passes
  <2>4. /\ attrs' \in [Devices -> SUBSET Groups]
        /\ raced' \cup unannounced' \subseteq rows \X Groups
    <3>1. CASE Patched(w, d)
      <4>1. /\ attrs \in [Devices -> SUBSET Groups]
            /\ raced \subseteq rows \X Groups /\ unannounced \subseteq rows \X Groups
            /\ work[w].desired \subseteq Groups
        BY DEF TypeInv, TypeOK, Jobs
      <4>2. attrs' \in [Devices -> SUBSET Groups]
        BY <3>1, <4>1, PatchMarks
      <4>3. Wrong(w) \subseteq Groups
        BY DEF Wrong, Touched, Dropped, Removed, TypeInv, TypeOK, Jobs
      <4>4. raced' \subseteq rows \X Groups
        BY <3>1, <4>1, <4>3, PatchMarks
      <4>5. unannounced' \subseteq rows \X Groups
        BY <3>1, <4>1, <4>3, PatchMarks
      <4> QED BY <4>2, <4>4, <4>5
    <3> QED BY <2>2, <3>1 DEF TypeInv, TypeOK
  <2>5. OwnersKept /\ TablesOK' /\ (member \cup events)' \subseteq Users \X Groups
    BY <2>1, <2>3, <2>4 DEF TypeInv, TypeOK, OwnersKept, TablesOK
  <2> QED BY <2>3, <2>5, TypedByTables
<1>6. CASE ListOrganizations(w)
  <2>1. UNCHANGED <<accounts, rows, ziti, owner, attrs, raced, unannounced, doubted, member, orgs>>
    BY <1>6 DEF ListOrganizations
  <2>2. \E j : Takes(w, j) /\ events' \subseteq Users \X Groups
    BY <1>1, <1>6, ListOrganizationsTakes, FailTakes DEF ListsOrganizations
  <2> QED BY <2>1, <2>2, QuietTyped
<1> QED BY <1>2, <1>3, <1>4, <1>5, <1>6

LEMMA RequestTyped ==
  ASSUME TypeInv, NEW w \in Creators,
         CreateIdentity(w) \/ CreateRow(w) \/ Unlink(w) \/ Request(w)
  PROVE  TypeInv'
<1>1. events \subseteq Users \X Groups /\ member \subseteq Users \X Groups /\ w \in Workers
  BY DEF TypeInv, TypeOK, Workers
<1>2. CASE CreateIdentity(w)
  <2>1. UNCHANGED <<accounts, rows, member, orgs, events, raced, unannounced>>
    BY <1>2 DEF CreateIdentity
  <2>2. CASE Takes(w, NoJob) /\ UNCHANGED <<ziti, owner, attrs, doubted>>
    BY <1>1, <2>1, <2>2, QuietTyped
  <2>3. ASSUME NEW d \in Devices, NewIdentity(w, d) PROVE TypeInv'
    <3>1. \E j : Takes(w, j)
      BY <2>3 DEF NewIdentity
    <3>2. OwnersKept /\ owner' \in [Devices -> Users \cup {None}] /\ owner'[d] # None
      BY <2>3, NamesAssumption DEF NewIdentity, OwnersKept, TypeInv, TypeOK
    <3>3. attrs' \in [Devices -> SUBSET Groups] /\ doubted' \subseteq Devices
      BY <2>3 DEF NewIdentity, TypeInv, TypeOK
    <3>4. \A e \in rows \cup ziti : e \in Devices /\ owner'[e] = owner[e] /\ owner[e] # None
      BY <3>2 DEF OwnersKept, TypeInv, TypeOK
    <3>5. TablesOK'
      BY <2>1, <2>3, <3>2, <3>3, <3>4 DEF NewIdentity, TablesOK, TypeInv, TypeOK
    <3> QED BY <1>1, <2>1, <3>1, <3>2, <3>5, TypedByTables
  <2> QED BY <1>1, <1>2, <2>2, <2>3, CreateIdentityTakes
<1>3. CASE CreateRow(w)
  <2>1. UNCHANGED <<accounts, ziti, owner, attrs, member, orgs, events>> /\ \E j : Takes(w, j)
    BY <1>1, <1>3, CreateRowTakes DEF CreateRow
  <2>2. Shape(w, work[w], owner) /\ work[w].pc = "row" /\ work[w].devices \subseteq Devices
    BY <1>1, <1>3 DEF CreateRow, TypeInv, TypeOK, Shapes, Jobs
  <2>3. CASE /\ work[w].user \in accounts
             /\ rows' = rows \cup work[w].devices
             /\ Misses(w)
             /\ doubted' \in {doubted, doubted \cup work[w].devices}
    <3>1. \A d \in work[w].devices : Missed(d) \subseteq Groups
      BY DEF Missed
    <3>2. raced' \subseteq rows' \X Groups /\ unannounced' \subseteq rows' \X Groups
      BY <2>3, <3>1 DEF Misses, TypeInv, TypeOK
    <3>3. \A d \in work[w].devices : d \in Devices /\ owner[d] # None /\ owner[d] \in accounts
      BY <2>2, <2>3 DEF Shape
    <3>4. OwnersKept /\ TablesOK'
      BY <2>1, <2>2, <2>3, <3>2, <3>3 DEF OwnersKept, TablesOK, TypeInv, TypeOK
    <3> QED BY <1>1, <2>1, <3>4, TypedByTables
  <2>4. CASE UNCHANGED <<rows, raced, unannounced, doubted>>
    BY <1>1, <2>1, <2>4, QuietTyped
  <2> QED BY <1>1, <1>3, <2>3, <2>4, CreateRowTakes
<1>4. CASE Unlink(w)
  <2>1. UNCHANGED <<accounts, rows, owner, member, orgs, events, raced, unannounced>> /\ Takes(w, NoJob)
        /\ work[w].devices \subseteq Devices
    BY <1>1, <1>4, UnlinkTakes DEF Unlink
  <2>2. /\ ziti' \subseteq ziti /\ attrs' \in [Devices -> SUBSET Groups]
        /\ doubted' \subseteq Devices
    BY <1>4, <2>1 DEF Unlink, Doubt, TypeInv, TypeOK
  <2>3. OwnersKept /\ TablesOK'
    BY <2>1, <2>2 DEF OwnersKept, TablesOK, TypeInv, TypeOK
  <2> QED BY <1>1, <2>1, <2>3, TypedByTables
<1>5. ASSUME NEW u \in accounts, CallCreate(w, u) PROVE TypeInv'
  <2>1. UNCHANGED <<accounts, rows, ziti, owner, attrs, raced, unannounced, doubted, member, orgs,
                 events>>
    BY <1>5 DEF CallCreate
  <2> QED BY <1>1, <1>5, <2>1, CallCreateTakes, QuietTyped
<1>6. ASSUME NEW d \in rows, CallDelete(w, d) PROVE TypeInv'
  <2>1. UNCHANGED <<accounts, ziti, owner, attrs, member, orgs, events>> /\ (\E j : Takes(w, j))
        /\ doubted' \in {doubted, doubted \cup {d}}
        /\ (RemoveRows({d}) \/ UNCHANGED <<rows, raced, unannounced>>)
    BY <1>6, CallDeleteTakes DEF CallDelete
  <2>2. rows' \subseteq rows /\ raced' \cup unannounced' \subseteq rows' \X Groups /\ d \in Devices
    BY <2>1, RemoveRowsTyped DEF TypeInv, TypeOK
  <2>3. OwnersKept /\ TablesOK'
    BY <2>1, <2>2 DEF OwnersKept, TablesOK, TypeInv, TypeOK
  <2> QED BY <1>1, <2>1, <2>3, TypedByTables
<1> QED BY <1>2, <1>3, <1>4, <1>5, <1>6 DEF Request

LEMMA CrashTyped ==
  ASSUME TypeInv, NEW w \in Workers, Crash(w)
  PROVE  TypeInv'
<1>1. /\ UNCHANGED <<accounts, rows, ziti, owner, attrs, member, orgs, raced, unannounced>>
      /\ doubted' \in {doubted, doubted \cup work[w].devices} /\ Fail(w)
  BY DEF Crash, Doubt
<1>2. work[w].devices \subseteq Devices
  BY DEF TypeInv, TypeOK, Jobs
<1>3. OwnersKept /\ TablesOK' /\ (member \cup events)' \subseteq Users \X Groups
  BY <1>1, <1>2, FailTakes DEF OwnersKept, TablesOK, TypeInv, TypeOK
<1> QED BY <1>1, <1>3, FailTakes, TypedByTables

LEMMA EnvironmentTyped ==
  ASSUME TypeInv, Environment
  PROVE  TypeInv'
<1>1. UNCHANGED work
  BY DEF Environment, UserDeleted, Change, ChangeOrg, Redeliver
<1>2. UNCHANGED owner
  BY DEF Environment, UserDeleted, Change, ChangeOrg, Redeliver
<1>3. UNCHANGED Held /\ Shapes'
  BY <1>1, <1>2 DEF Held, TypeInv, Shapes
<1>4. ASSUME NEW u \in Users, UserDeleted(u) PROVE TypeOK'
  <2>1. /\ accounts' = accounts \ {u} /\ rows' = rows \ DevicesOf(u)
        /\ rows' \subseteq rows /\ raced' \cup unannounced' \subseteq rows' \X Groups
    BY <1>4, RemoveRowsTyped DEF UserDeleted, RemoveRows
  <2>2. \A d \in rows' : owner[d] \in accounts'
    BY <2>1 DEF DevicesOf, TypeInv, TypeOK
  <2> QED BY <1>1, <1>3, <1>4, <2>1, <2>2 DEF UserDeleted, TypeInv, TypeOK
<1>5. ASSUME NEW u \in Users, NEW g \in Groups, Change(u, g) \/ Redeliver(u, g) PROVE TypeOK'
  BY <1>1, <1>3, <1>5 DEF Change, Redeliver, TypeInv, TypeOK
<1>6. ASSUME NEW u \in Users, NEW o \in Orgs, ChangeOrg(u, o) PROVE TypeOK'
  <2>1. DevicesOf(u) \X {g \in Groups : Org[g] = o} \subseteq rows \X Groups
    BY DEF DevicesOf
  <2>2. orgs' \subseteq Users \X Orgs /\ unannounced' \subseteq rows \X Groups
    BY <1>6, <2>1 DEF ChangeOrg, TypeInv, TypeOK
  <2> QED BY <1>1, <1>3, <1>6, <2>2 DEF ChangeOrg, TypeInv, TypeOK
<1> QED BY <1>3, <1>4, <1>5, <1>6 DEF Environment, TypeInv

LEMMA NextTyped == TypeInv /\ [Next]_vars => TypeInv'
<1> SUFFICES ASSUME TypeInv, [Next]_vars PROVE TypeInv'
  OBVIOUS
<1>1. ASSUME NEW w \in Workers, Step(w) PROVE TypeInv'
  BY <1>1, SyncTyped, RequestTyped, CreateIdentityTakes, CreateRowTakes, UnlinkTakes DEF Step
<1>2. CASE Consume
  <2>1. PICK u \in Users, g \in Groups : TakeEvent(u, g)
    BY <1>2 DEF Consume
  <2>2. /\ UNCHANGED <<accounts, rows, ziti, owner, attrs, raced, unannounced, doubted, member, orgs>>
        /\ events' \subseteq Users \X Groups
    BY <2>1 DEF TakeEvent, TypeInv, TypeOK
  <2>3. \E j : Takes(Consumer, j)
    BY <2>1, TakeEventTakes
  <2> QED BY <2>2, <2>3, QuietTyped DEF Workers
<1>3. CASE StartPass \/ NextUser
  <2>1. /\ UNCHANGED <<accounts, rows, ziti, owner, attrs, raced, unannounced, doubted, member, orgs>>
        /\ events' \subseteq Users \X Groups
    BY <1>3 DEF StartPass, NextUser, TypeInv, TypeOK
  <2>2. \E j : Takes(Reconciler, j)
    BY <1>3, PassTakes
  <2> QED BY <2>1, <2>2, QuietTyped DEF Workers
<1>4. CASE UNCHANGED vars
  BY <1>4 DEF vars, TypeInv, TypeOK, Shapes, Held
<1> QED BY <1>1, <1>2, <1>3, <1>4, RequestTyped, CrashTyped, EnvironmentTyped DEF Next

LEMMA InitTyped == Init => TypeInv
<1> SUFFICES ASSUME Init PROVE TypeInv
  OBVIOUS
<1>1. work \in [Workers -> Jobs] /\ Shapes
  BY NoJobType, NoJobShape DEF Init, Shapes
<1>2. \A d \in InitRows : d \in Devices /\ owner[d] = InitOwner[d] /\ owner[d] \in Users
  BY InitAssumption DEF Init
<1>3. owner \in [Devices -> Users \cup {None}] /\ attrs \in [Devices -> SUBSET Groups]
  BY InitAssumption DEF Init
<1>4. \A d \in InitRows : owner[d] # None
  BY <1>2, NamesAssumption
<1>5. Held \subseteq Users \X Groups
  BY <1>1, HeldType
<1> QED BY <1>1, <1>2, <1>3, <1>4, <1>5, InitAssumption DEF Init, TypeInv, TypeOK

LEMMA Typed == Spec => []TypeInv
BY InitTyped, NextTyped, PTL DEF Spec

\* The tables of users and devices, OpenZiti, the Groups service and the jobs of
\* all workers stay well typed, and a device row never outlives its user: the
\* foreign key holds although an insert may be under way when a user is deleted.
THEOREM TypeCorrect == Spec => []TypeOK
BY Typed, PTL DEF TypeInv

-----------------------------------------------------------------------------
(* Rows and identities.                                                    *)

\* A step of a worker that is no request, or of the environment.
LEMMA IdentityQuiet ==
  ASSUME IdentityInv, UNCHANGED <<rows, ziti, doubted, owner>>, accounts' \subseteq accounts,
         \A v \in Creators : work'[v] = work[v]
  PROVE  IdentityInv'
BY DEF IdentityInv, RowsHaveIdentity, NoIdentityLeaks, Inserting, Removing

\* A request lets go of devices that are in doubt.
LEMMA IdentityDrops ==
  ASSUME TypeInv, IdentityInv, UNCHANGED <<rows, ziti, owner, accounts>>, NEW w \in Creators,
         doubted \subseteq doubted', work[w].devices \subseteq doubted',
         NEW j, Takes(w, j), j.devices = {}
  PROVE  IdentityInv'
<1>1. work'[w] = j /\ \A v \in Creators \ {w} : work'[v] = work[v]
  BY WorkBecomes DEF Takes, Workers
<1>2. RowsHaveIdentity'
  BY DEF IdentityInv, RowsHaveIdentity
<1>3. NoIdentityLeaks'
  BY <1>1 DEF IdentityInv, NoIdentityLeaks
<1>4. ASSUME NEW v \in Creators PROVE Inserting(v)' /\ Removing(v)'
  <2>1. Inserting(v) /\ Removing(v)
    BY DEF IdentityInv
  <2>2. CASE v = w
    BY <1>1, <2>2 DEF Inserting, Removing
  <2>3. CASE v # w
    BY <1>1, <2>1, <2>3 DEF Inserting, Removing
  <2> QED BY <2>2, <2>3
<1> QED BY <1>2, <1>3, <1>4 DEF IdentityInv

LEMMA IdentityCreated ==
  ASSUME TypeInv, IdentityInv, NEW w \in Creators, work[w].devices = {},
         NEW d \in Devices, NewIdentity(w, d), UNCHANGED <<rows, accounts>>
  PROVE  IdentityInv'
<1>1. d \notin rows /\ ziti' = ziti \cup {d} /\ \A e \in Devices \ {d} : owner'[e] = owner[e]
  BY DEF NewIdentity, TypeInv, TypeOK
<1>2. \A v \in Creators : d \notin work[v].devices
  BY DEF NewIdentity, TypeInv, Shapes, Shape, Workers
<1>3. /\ doubted \subseteq doubted' /\ doubted' \subseteq doubted \cup {d}
      /\ d \in work'[w].devices \/ d \in doubted'
      /\ (work'[w].pc = "row" /\ work'[w].devices = {d}) \/ work'[w].devices = {}
      /\ \A v \in Creators \ {w} : work'[v] = work[v]
  BY WorkBecomes DEF NewIdentity, Takes, Workers, NoJob
<1>4. RowsHaveIdentity'
  BY <1>1, <1>3 DEF IdentityInv, RowsHaveIdentity
<1>5. NoIdentityLeaks'
  <2> SUFFICES ASSUME NEW e \in ziti', e \notin rows \cup doubted'
               PROVE  (\E v \in Creators : e \in work'[v].devices) \/ owner'[e] \notin accounts
    BY DEF NoIdentityLeaks
  <2>1. CASE e = d
    BY <1>3, <2>1
  <2>2. CASE e # d
    <3>1. e \in ziti \ (rows \cup doubted) /\ e \in Devices /\ owner'[e] = owner[e]
      BY <1>1, <1>3, <2>2 DEF TypeInv, TypeOK
    <3>2. (\E v \in Creators \ {w} : e \in work[v].devices) \/ owner[e] \notin accounts
      BY <3>1 DEF IdentityInv, NoIdentityLeaks
    <3> QED BY <1>3, <3>1, <3>2
  <2> QED BY <2>1, <2>2
<1>6. ASSUME NEW v \in Creators PROVE Inserting(v)' /\ Removing(v)'
  <2>1. Inserting(v) /\ Removing(v)
    BY DEF IdentityInv
  <2>2. CASE v = w
    BY <1>1, <1>2, <1>3, <2>2 DEF Inserting, Removing
  <2>3. CASE v # w
    BY <1>1, <1>2, <1>3, <2>1, <2>3 DEF Inserting, Removing
  <2> QED BY <2>2, <2>3
<1> QED BY <1>4, <1>5, <1>6 DEF IdentityInv

LEMMA IdentityInserted ==
  ASSUME TypeInv, IdentityInv, NEW w \in Creators, CreateRow(w)
  PROVE  IdentityInv'
<1> DEFINE mine == work[w].devices
<1>1. work[w].pc = "row" /\ mine \subseteq ziti \ rows
      /\ \A v \in Creators \ {w} : work[v].devices \cap mine = {}
  BY DEF CreateRow, IdentityInv, Inserting
<1>2. PICK j \in Jobs :
        /\ Takes(w, j)
        /\ \/ rows' = rows \cup mine /\ j.devices = {} /\ j.pc = "idle" /\ UNCHANGED doubted
           \/ /\ j.pc = "undo" /\ j.devices = mine
              /\ \/ rows' = rows \cup mine /\ doubted' = doubted \cup mine
                 \/ UNCHANGED <<rows, doubted>>
  <2>1. NoJob.devices = {} /\ NoJob.pc = "idle"
    BY DEF NoJob
  <2> QED BY <2>1, NoJobType, CreateRowTakes DEF Workers
<1>3. UNCHANGED <<ziti, owner, accounts>>
  BY DEF CreateRow
<1>4. work'[w] = j /\ \A v \in Creators \ {w} : work'[v] = work[v]
  BY <1>2, WorkBecomes DEF Takes, Workers
<1> HIDE DEF mine
<1>5. RowsHaveIdentity'
  BY <1>1, <1>2, <1>3 DEF IdentityInv, RowsHaveIdentity
<1>6. NoIdentityLeaks'
  <2> SUFFICES ASSUME NEW e \in ziti, e \notin rows' \cup doubted', owner[e] \in accounts
               PROVE  \E v \in Creators : e \in work'[v].devices
    BY <1>3 DEF NoIdentityLeaks
  <2>1. PICK v \in Creators : e \in work[v].devices
    BY <1>2 DEF IdentityInv, NoIdentityLeaks
  <2>2. CASE v = w
    BY <1>2, <1>4, <2>1, <2>2 DEF mine
  <2>3. CASE v # w
    BY <1>4, <2>1, <2>3
  <2> QED BY <2>2, <2>3
<1>7. ASSUME NEW v \in Creators PROVE Inserting(v)' /\ Removing(v)'
  <2>1. Inserting(v) /\ Removing(v)
    BY DEF IdentityInv
  <2>2. CASE v = w
    BY <1>1, <1>2, <1>3, <1>4, <2>2 DEF Inserting, Removing
  <2>3. CASE v # w
    <3>1. work'[v] = work[v] /\ work[v].devices \cap mine = {}
      BY <1>1, <1>4, <2>3
    <3>2. work'[w].devices \subseteq mine /\ mine = work[w].devices
      BY <1>2, <1>4 DEF mine
    <3>3. Inserting(v)'
      BY <1>2, <1>3, <1>4, <2>1, <3>1, <3>2 DEF Inserting
    <3>4. Removing(v)'
      BY <1>2, <2>1, <3>1 DEF Removing
    <3> QED BY <3>3, <3>4
  <2> QED BY <2>2, <2>3
<1> QED BY <1>5, <1>6, <1>7 DEF IdentityInv

LEMMA IdentityUnlinked ==
  ASSUME TypeInv, IdentityInv, NEW w \in Creators, Unlink(w)
  PROVE  IdentityInv'
<1> DEFINE mine == work[w].devices
<1>1. work[w].pc \in {"undo", "unlink"} /\ mine \cap rows \subseteq doubted
  BY DEF Unlink, IdentityInv, Removing
<1>2. /\ UNCHANGED <<rows, owner, accounts>>
      /\ \/ ziti' = ziti \ mine /\ UNCHANGED doubted
         \/ UNCHANGED ziti /\ doubted' = doubted \cup mine
  BY DEF Unlink, Doubt
<1>3. work'[w] = NoJob /\ \A v \in Creators \ {w} : work'[v] = work[v]
  BY UnlinkTakes, WorkBecomes DEF Takes, Workers
<1>4. CASE UNCHANGED ziti /\ doubted' = doubted \cup mine
  <2>1. Takes(w, NoJob) /\ NoJob.devices = {}
    BY UnlinkTakes DEF Workers, NoJob
  <2> QED BY <1>2, <1>4, <2>1, IdentityDrops
<1>5. CASE ziti' = ziti \ mine /\ UNCHANGED doubted
  <2> HIDE DEF mine
  <2>1. RowsHaveIdentity'
    BY <1>1, <1>2, <1>5 DEF IdentityInv, RowsHaveIdentity
  <2>2. NoIdentityLeaks'
    <3> SUFFICES ASSUME NEW e \in ziti, e \notin mine, e \notin rows \cup doubted, owner[e] \in accounts
                 PROVE  \E v \in Creators : e \in work'[v].devices
      BY <1>2, <1>5 DEF NoIdentityLeaks
    <3>1. PICK v \in Creators : e \in work[v].devices
      BY DEF IdentityInv, NoIdentityLeaks
    <3>2. v # w
      BY <3>1 DEF mine
    <3> QED BY <1>3, <3>1, <3>2
  <2>3. ASSUME NEW v \in Creators PROVE Inserting(v)' /\ Removing(v)'
    <3>1. Inserting(v) /\ Removing(v)
      BY DEF IdentityInv
    <3>2. CASE v = w
      BY <1>3, <3>2 DEF Inserting, Removing, NoJob
    <3>3. CASE v # w
      <4>1. work'[v] = work[v]
        BY <1>3, <3>3
      <4>2. Inserting(v)'
        <5> SUFFICES ASSUME work[v].pc = "row" PROVE Inserting(v)'
          BY <4>1 DEF Inserting
        <5>1. work[v].devices \subseteq ziti \ rows /\ work[v].devices \cap mine = {}
          BY <3>1, <3>3 DEF Inserting, mine
        <5>2. \A x \in Creators \ {v} : work'[x].devices \cap work[v].devices = {}
          BY <1>3, <3>1 DEF Inserting, NoJob
        <5> QED BY <1>2, <1>5, <4>1, <5>1, <5>2 DEF Inserting
      <4>3. Removing(v)'
        BY <1>2, <1>5, <3>1, <4>1 DEF Removing
      <4> QED BY <4>2, <4>3
    <3> QED BY <3>2, <3>3
  <2> QED BY <2>1, <2>2, <2>3 DEF IdentityInv
<1> QED BY <1>2, <1>4, <1>5

LEMMA IdentityDeleted ==
  ASSUME TypeInv, IdentityInv, NEW w \in Creators, NEW d \in rows, CallDelete(w, d)
  PROVE  IdentityInv'
<1>1. work[w].pc = "idle" /\ work[w].devices = {} /\ w \in Workers
  BY DEF CallDelete, TypeInv, Shapes, Shape, Workers
<1>2. UNCHANGED <<ziti, owner, accounts>>
  BY DEF CallDelete
<1>3. CASE UNCHANGED <<rows, doubted>> /\ Takes(w, NoJob)
  BY <1>1, <1>2, <1>3, IdentityDrops DEF NoJob
<1>4. ASSUME RemoveRows({d}), NEW j \in Jobs, Takes(w, j),
             \/ j = NoJob /\ doubted' = doubted \cup {d}
             \/ UNCHANGED doubted /\ j.pc = "unlink" /\ j.devices = {d}
      PROVE  IdentityInv'
  <2>1. rows' = rows \ {d}
    BY <1>4 DEF RemoveRows
  <2>2. work'[w] = j /\ \A v \in Creators \ {w} : work'[v] = work[v]
    BY <1>1, <1>4, WorkBecomes DEF Takes, Workers
  <2>3. RowsHaveIdentity'
    BY <1>2, <1>4, <2>1 DEF IdentityInv, RowsHaveIdentity
  <2>4. NoIdentityLeaks'
    <3> SUFFICES ASSUME NEW e \in ziti, e \notin rows' \cup doubted', owner[e] \in accounts
                 PROVE  \E v \in Creators : e \in work'[v].devices
      BY <1>2 DEF NoIdentityLeaks
    <3>1. CASE e = d
      BY <1>4, <2>2, <3>1
    <3>2. CASE e # d
      <4>1. e \in ziti \ (rows \cup doubted)
        BY <1>4, <2>1, <3>2
      <4>2. PICK v \in Creators : e \in work[v].devices
        BY <4>1 DEF IdentityInv, NoIdentityLeaks
      <4> QED BY <1>1, <2>2, <4>2
    <3> QED BY <3>1, <3>2
  <2>5. ASSUME NEW v \in Creators PROVE Inserting(v)' /\ Removing(v)'
    <3>1. Inserting(v) /\ Removing(v)
      BY DEF IdentityInv
    <3>2. CASE v = w
      BY <1>4, <2>1, <2>2, <3>2 DEF Inserting, Removing, NoJob
    <3>3. CASE v # w
      <4>1. work'[v] = work[v] /\ work'[w].devices \subseteq {d}
        BY <1>4, <2>2, <3>3 DEF NoJob
      <4>2. Inserting(v)'
        BY <1>2, <2>1, <2>2, <3>1, <4>1 DEF Inserting
      <4>3. Removing(v)'
        BY <1>4, <2>1, <3>1, <4>1 DEF Removing
      <4> QED BY <4>2, <4>3
    <3> QED BY <3>2, <3>3
  <2> QED BY <2>3, <2>4, <2>5 DEF IdentityInv
<1> QED BY <1>3, <1>4, NoJobType, CallDeleteTakes

LEMMA IdentityUserDeleted ==
  ASSUME TypeInv, IdentityInv, NEW u \in Users, UserDeleted(u)
  PROVE  IdentityInv'
<1>1. /\ accounts' = accounts \ {u} /\ rows' = rows \ DevicesOf(u)
      /\ UNCHANGED <<ziti, owner, work, doubted>>
  BY DEF UserDeleted, RemoveRows
<1>2. RowsHaveIdentity' /\ \A w \in Creators : Inserting(w)' /\ Removing(w)'
  BY <1>1 DEF IdentityInv, RowsHaveIdentity, Inserting, Removing
<1>3. NoIdentityLeaks'
  <2> SUFFICES ASSUME NEW d \in ziti, d \notin rows' \cup doubted, owner[d] \in accounts'
               PROVE  \E v \in Creators : d \in work[v].devices
    BY <1>1 DEF NoIdentityLeaks
  <2>1. d \notin rows
    BY <1>1 DEF DevicesOf
  <2> QED BY <1>1, <2>1 DEF IdentityInv, NoIdentityLeaks
<1> QED BY <1>2, <1>3 DEF IdentityInv

LEMMA NextIdentity == TypeInv /\ IdentityInv /\ [Next]_vars => IdentityInv'
<1> SUFFICES ASSUME TypeInv, IdentityInv, [Next]_vars PROVE IdentityInv'
  OBVIOUS
<1>1. ASSUME NEW w \in {Consumer, Reconciler},
             Step(w) \/ Crash(w) \/ Consume \/ StartPass \/ NextUser
      PROVE  IdentityInv'
  <2>1. w \notin Creators /\ w \in Workers
    BY NamesAssumption DEF Workers
  <2>2. ~CreateIdentity(w) /\ ~CreateRow(w) /\ ~Unlink(w)
    BY <2>1, CreateIdentityTakes, CreateRowTakes, UnlinkTakes
  <2>3. UNCHANGED <<rows, ziti, doubted, owner, accounts>>
    BY <1>1, <2>1, <2>2
    DEF Step, Crash, Consume, StartPass, NextUser, ListOrganizations, ListGroups, ListDevices, EndSync,
        Patch, TakeEvent
  <2>4. \A v \in Creators : v \in Workers /\ v \notin {Consumer, Reconciler}
    BY NamesAssumption DEF Workers
  <2>5. \E x \in {Consumer, Reconciler} : \E j : Becomes(x, j)
    BY <1>1, <2>2, ListOrganizationsTakes, ListGroupsTakes, ListDevicesTakes, PatchTakes, EndSyncTakes
    DEF Step, Crash, Fail, Consume, TakeEvent, StartPass, NextUser, ListsOrganizations, ListsPage,
        ListsDevices, Passes, Takes, Workers
  <2>6. \A v \in Creators : work'[v] = work[v]
    BY <2>4, <2>5, WorkBecomes DEF Workers
  <2> QED BY <2>3, <2>6, IdentityQuiet
<1>2. ASSUME NEW w \in Creators, Step(w) \/ Crash(w) \/ Request(w)
      PROVE  IdentityInv'
  <2>1. w \in Workers /\ work[w] \in Jobs /\ Shape(w, work[w], owner)
    BY DEF Workers, TypeInv, TypeOK, Shapes
  <2>2. CASE ListGroups(w)
    <3>1. work[w].devices = {} /\ UNCHANGED <<rows, ziti, owner, accounts, doubted>>
      BY <2>1, <2>2 DEF ListGroups, Shape
    <3>2. \E j : Takes(w, j) /\ j.devices = {}
      BY <2>1, <2>2, ListGroupsTakes, FailTakes DEF ListsPage, NoJob
    <3> QED BY <3>1, <3>2, IdentityDrops
  <2>3. ~ListDevices(w) /\ ~EndSync(w) /\ \A d \in Devices : ~Patch(w, d)
    BY <2>1, NamesAssumption, EndSyncTakes, PatchTakes DEF ListDevices
  <2>4. CASE CreateIdentity(w)
    <3>1. work[w].devices = {} /\ UNCHANGED <<rows, accounts>>
      BY <2>1, <2>4 DEF CreateIdentity, Shape
    <3>2. CASE \E d \in Devices : NewIdentity(w, d)
      BY <3>1, <3>2, IdentityCreated
    <3>3. CASE Takes(w, NoJob) /\ UNCHANGED <<ziti, owner, attrs, doubted>>
      BY <3>1, <3>3, IdentityDrops DEF NoJob
    <3> QED BY <2>1, <2>4, <3>2, <3>3, CreateIdentityTakes
  <2>5. CASE Crash(w)
    <3>1. UNCHANGED <<rows, ziti, owner, accounts>> /\ doubted' = doubted \cup work[w].devices
      BY <2>5 DEF Crash, Doubt
    <3>2. Takes(w, NoJob) /\ NoJob.devices = {}
      BY <2>1, <2>5, FailTakes DEF Crash, NoJob
    <3> QED BY <3>1, <3>2, IdentityDrops
  <2>6. ASSUME NEW u \in accounts, CallCreate(w, u) PROVE IdentityInv'
    <3>1. work[w].devices = {} /\ UNCHANGED <<rows, ziti, owner, accounts, doubted>>
      BY <2>1, <2>6 DEF CallCreate, Shape
    <3> QED BY <2>6, <3>1, CallCreateTakes, IdentityDrops
  <2>7. CASE ListOrganizations(w)
    <3>1. work[w].devices = {} /\ UNCHANGED <<rows, ziti, owner, accounts, doubted>>
      BY <2>1, <2>7 DEF ListOrganizations, Shape
    <3>2. \E j : Takes(w, j) /\ j.devices = {}
      BY <2>1, <2>7, ListOrganizationsTakes, FailTakes DEF ListsOrganizations, NoJob
    <3> QED BY <3>1, <3>2, IdentityDrops
  <2> QED
    BY <1>2, <2>2, <2>3, <2>4, <2>5, <2>6, <2>7, IdentityInserted, IdentityUnlinked, IdentityDeleted
    DEF Step, Request
<1>3. CASE Environment
  <2>1. ASSUME NEW u \in Users, NEW g \in Groups, Change(u, g) \/ Redeliver(u, g)
        PROVE  IdentityInv'
    BY <2>1, IdentityQuiet DEF Change, Redeliver
  <2>2. ASSUME NEW u \in Users, NEW o \in Orgs, ChangeOrg(u, o) PROVE IdentityInv'
    BY <2>2, IdentityQuiet DEF ChangeOrg
  <2> QED BY <1>3, <2>1, <2>2, IdentityUserDeleted DEF Environment
<1>4. CASE UNCHANGED vars
  BY <1>4, IdentityQuiet DEF vars
<1> QED BY <1>1, <1>2, <1>3, <1>4 DEF Next, Workers

LEMMA Identities == Spec => []IdentityInv
<1>1. Init => IdentityInv
  BY DEF Init, IdentityInv, RowsHaveIdentity, NoIdentityLeaks, Inserting, Removing, NoJob, Workers
<1> QED BY <1>1, NextIdentity, Typed, PTL DEF Spec

\* Whatever requests for the same devices run together, fail or are killed, no
\* device is listed without its OpenZiti identity, except one whose insert was
\* reported as failed and had worked: CreateDevice inserts the row last,
\* DeleteDevice removes it first.
THEOREM RowsIdentified == Spec => []RowsHaveIdentity
BY Identities, PTL DEF IdentityInv

\* Every identity without a row is still in the hands of a request, or its user
\* was deleted, or the last that was heard about it was a lost answer, a failed
\* deletion or a kill: the compensation of CreateDevice leaves no other.
THEOREM IdentitiesAccounted == Spec => []NoIdentityLeaks
BY Identities, PTL DEF IdentityInv

-----------------------------------------------------------------------------
(* Attributes.                                                             *)

\* Steps that leave the consumer, the memberships and the attributes of the
\* devices with a row alone.
LEMMA AttributesQuiet ==
  ASSUME AttributesInv, UNCHANGED <<member, orgs, work[Consumer]>>, events \subseteq events',
         \A d \in rows' \cap ziti' :
           /\ d \in rows \cap ziti /\ attrs'[d] = attrs[d] /\ owner'[d] = owner[d]
           /\ \A g \in Groups : <<d, g>> \in Marks => <<d, g>> \in Marks'
  PROVE  AttributesInv'
<1>1. ListedCurrent'
  BY DEF AttributesInv, ListedCurrent, Current
<1>2. ASSUME NEW d \in rows' \cap ziti', NEW g \in Groups
      PROVE  Explained(d, g)' \/ Excused(d, g)'
  <2>1. Explained(d, g) \/ Excused(d, g)
    BY <1>2 DEF AttributesInv
  <2> QED BY <2>1 DEF Explained, Excused, Held, Listed
<1> QED BY <1>1, <1>2 DEF AttributesInv

\* The consumer gives its event back: the event excuses what Held excused.
LEMMA AttributesReleased ==
  ASSUME TypeInv, Fail(Consumer), UNCHANGED <<rows, ziti, owner, member, orgs>>,
         \A d \in rows \cap ziti, g \in Groups :
           \/ g \in attrs'[d] <=> Listed(owner[d], g)
           \/ <<owner[d], g>> \in events \cup Held
           \/ <<d, g>> \in Marks'
  PROVE  AttributesInv'
<1>1. work'[Consumer] = NoJob /\ events' = events \cup Held
  BY WorkBecomes DEF Fail, Workers
<1>2. ListedCurrent'
  BY <1>1 DEF ListedCurrent, NoJob
<1>3. \A d \in (rows \cap ziti)', g \in Groups : Explained(d, g)'
  BY <1>1 DEF Explained, Listed
<1> QED BY <1>2, <1>3 DEF AttributesInv

LEMMA ExplainedFail ==
  ASSUME TypeInv, AttributesInv, Fail(Consumer),
         UNCHANGED <<rows, ziti, owner, attrs, member, orgs, raced, unannounced>>
  PROVE  AttributesInv'
BY AttributesReleased DEF AttributesInv, Explained, Excused, Marks

LEMMA ConsumerListsPage ==
  ASSUME TypeInv, AttributesInv, NEW page \in work[Consumer].pages, ListsPage(Consumer, page),
         work[Consumer].pc = "list",
         UNCHANGED <<rows, ziti, owner, attrs, member, orgs, raced, unannounced>>
  PROVE  AttributesInv'
<1> DEFINE u == work[Consumer].user
           job == work[Consumer]
<1>1. PICK j \in Jobs :
        /\ Takes(Consumer, j) /\ SameTarget(Consumer, j) /\ UNCHANGED events
        /\ j.pc = "list" /\ j.pages = job.pages \ {page} /\ j.orgs = job.orgs
        /\ j.desired = job.desired \cup {g \in page : <<u, g>> \in member}
  BY DEF ListsPage
<1>2. work'[Consumer] = j
  BY <1>1, WorkBecomes DEF Takes, Workers
<1>3. /\ page \in Pages /\ job.pages \subseteq Pages /\ page \in PagesOf(job.orgs)
      /\ job.desired \subseteq UNION (Pages \ job.pages)
  BY DEF TypeInv, TypeOK, Shapes, Shape, Workers, Jobs
<1>4. ASSUME NEW x \in Pages \ j.pages, NEW g \in x PROVE Current(u, g, j.desired, job.orgs)
  <2>1. CASE x = page
    <3>1. g \notin job.desired /\ Org[g] \in job.orgs
      BY <1>3, <2>1, PagesAssumption DEF PagesOf
    <3> QED BY <1>1, <2>1, <3>1 DEF Current
  <2>2. CASE x # page
    <3>1. x \in Pages \ job.pages
      BY <1>1, <2>2
    <3>2. Current(u, g, job.desired, job.orgs)
      BY <3>1 DEF AttributesInv, ListedCurrent
    <3>3. g \notin page
      BY <1>3, <2>2, PagesAssumption
    <3> QED BY <1>1, <3>2, <3>3 DEF Current
  <2> QED BY <2>1, <2>2
<1>5. ListedCurrent'
  BY <1>1, <1>2, <1>4 DEF ListedCurrent, Current, SameTarget
<1>6. UNCHANGED Held
  BY <1>1, <1>2 DEF Held, SameTarget
<1>7. \A d \in rows \cap ziti, g \in Groups : Explained(d, g)' \/ Excused(d, g)'
  BY <1>1, <1>2, <1>6 DEF AttributesInv, Explained, Excused, Listed, Marks
<1> QED BY <1>5, <1>7 DEF AttributesInv

\* Organizations not found have no page: none of their groups is desired.
LEMMA ConsumerListsOrganizations ==
  ASSUME TypeInv, AttributesInv, ListsOrganizations(Consumer), work[Consumer].pc = "orgs",
         UNCHANGED <<rows, ziti, owner, attrs, member, orgs, raced, unannounced>>
  PROVE  AttributesInv'
<1>1. PICK j \in Jobs :
        /\ Takes(Consumer, j) /\ SameTarget(Consumer, j) /\ UNCHANGED events
        /\ j.pc = "list" /\ j.desired = {} /\ j.pages = PagesOf(j.orgs)
  BY DEF ListsOrganizations
<1>2. work'[Consumer] = j
  BY <1>1, WorkBecomes DEF Takes, Workers
<1>3. \A page \in Pages \ j.pages : \A g \in page : Org[g] \notin j.orgs
  BY <1>1 DEF PagesOf
<1>4. ListedCurrent'
  BY <1>1, <1>2, <1>3 DEF ListedCurrent, Current
<1>5. UNCHANGED Held
  BY <1>1, <1>2 DEF Held, SameTarget
<1>6. \A d \in rows \cap ziti, g \in Groups : Explained(d, g)' \/ Excused(d, g)'
  BY <1>1, <1>2, <1>5 DEF AttributesInv, Explained, Excused, Listed, Marks
<1> QED BY <1>4, <1>6 DEF AttributesInv

LEMMA ConsumerListsDevices ==
  ASSUME TypeInv, AttributesInv, ListsDevices(Consumer),
         work[Consumer].pc = "list", work[Consumer].pages = {},
         UNCHANGED <<rows, ziti, owner, attrs, member, orgs, raced, unannounced>>
  PROVE  AttributesInv'
<1>1. PICK j \in Jobs :
        /\ Takes(Consumer, j) /\ SameTarget(Consumer, j) /\ UNCHANGED events
        /\ j.devices = DevicesOf(work[Consumer].user)
        /\ j.pages = {} /\ j.desired = work[Consumer].desired /\ j.orgs = work[Consumer].orgs
  BY DEF ListsDevices
<1>2. work'[Consumer] = j
  BY <1>1, WorkBecomes DEF Takes, Workers
<1>3. ListedCurrent'
  BY <1>1, <1>2 DEF AttributesInv, ListedCurrent, Current, SameTarget
<1>4. UNCHANGED Held
  BY <1>1, <1>2 DEF Held, SameTarget
<1>5. ASSUME NEW d \in rows \cap ziti, NEW g \in Groups PROVE Explained(d, g)' \/ Excused(d, g)'
  <2>1. <<owner[d], g>> \in Held => d \in j.devices
    BY <1>1 DEF Held, DevicesOf
  <2> QED BY <1>1, <1>2, <1>4, <2>1 DEF AttributesInv, Explained, Excused, Listed, Marks
<1> QED BY <1>3, <1>5 DEF AttributesInv

LEMMA ConsumerTakes ==
  ASSUME TypeInv, AttributesInv, NEW u \in Users, NEW g \in Groups, TakeEvent(u, g)
  PROVE  AttributesInv'
<1>1. /\ work[Consumer].pc = "idle" /\ events' = events \ {<<u, g>>}
      /\ UNCHANGED <<rows, ziti, owner, attrs, member, orgs, raced, unannounced>>
  BY DEF TakeEvent
<1>2. PICK j \in Jobs : /\ Takes(Consumer, j) /\ j.pc = "orgs" /\ j.user = u
                        /\ j.candidates = {g}
  BY TakeEventTakes
<1>3. work'[Consumer] = j
  BY <1>2, WorkBecomes DEF Takes, Workers
<1>4. Held = {} /\ Held' = {<<u, g>>}
  BY <1>1, <1>2, <1>3 DEF Held, TypeInv, Shapes, Shape, Workers, NoJob
<1>5. ListedCurrent'
  BY <1>2, <1>3 DEF ListedCurrent
<1>6. \A d \in rows \cap ziti, h \in Groups : Explained(d, h)' \/ Excused(d, h)'
  BY <1>1, <1>2, <1>3, <1>4 DEF AttributesInv, Explained, Excused, Listed, Marks
<1> QED BY <1>1, <1>5, <1>6 DEF AttributesInv

\* A patch leaves its device right, for as much as the worker may decide.
LEMMA PatchExplains ==
  ASSUME TypeInv, AttributesInv, NEW w \in {Consumer, Reconciler}, work[w].pc = "patch",
         NEW d \in work[w].devices, d \in ziti, Patched(w, d), d \in rows, NEW g \in Groups
  PROVE  \/ g \in attrs'[d] <=> Listed(owner[d], g)
         \/ <<owner[d], g>> \in events
         \/ <<d, g>> \in Marks'
         \/ w = Reconciler /\ Excused(d, g)
<1> DEFINE desired == work[w].desired
<1>1. w \in Workers /\ work[w] \in Jobs /\ Shape(w, work[w], owner) /\ Consumer # Reconciler
  BY NamesAssumption DEF Workers, TypeInv, TypeOK, Shapes
<1>2. d \in Devices /\ owner[d] = work[w].user /\ attrs \in [Devices -> SUBSET Groups]
  BY <1>1 DEF Jobs, Shape, TypeInv, TypeOK
<1>3. Dropped(w) = work[w].candidates \ desired
  BY DEF Dropped, Removed
<1>4. g \in attrs'[d] <=> g \in (attrs[d] \cup desired) \ Dropped(w)
  BY <1>2, PatchMarks
<1>5. Explained(d, g) \/ Excused(d, g)
  BY DEF AttributesInv
<1>6. CASE g \notin Touched(w)
  <2>1. g \in attrs'[d] <=> g \in attrs[d]
    BY <1>4, <1>6 DEF Touched
  <2>2. <<d, g>> \in Marks => <<d, g>> \in Marks'
    BY <1>6, PatchMarks DEF Marks
  <2>3. w = Consumer => ~Excused(d, g)
    BY <1>3, <1>6 DEF Excused, Held, Touched
  <2> QED BY <1>5, <2>1, <2>2, <2>3 DEF Explained
<1>7. CASE g \in Touched(w)
  <2>1. g \in attrs'[d] <=> g \in desired
    BY <1>3, <1>4, <1>7 DEF Touched
  <2>2. g \notin Wrong(w) => (g \in desired <=> Listed(owner[d], g))
    BY <1>2, <1>7 DEF Wrong
  <2>3. CASE g \in Wrong(w) /\ g \in Outdated(w)
    BY <2>3, PatchMarks DEF Marks
  <2>4. CASE g \in Wrong(w) /\ g \notin Outdated(w) /\ w = Reconciler
    BY <2>4, PatchMarks DEF Marks
  <2>5. CASE g \in Wrong(w) /\ g \notin Outdated(w) /\ w = Consumer
    <3>1. Current(work[w].user, g, desired, work[w].orgs)
      <4>1. work[w].pages = {} /\ \E page \in Pages : g \in page
        BY <1>1, PagesAssumption DEF Shape
      <4> QED BY <2>5, <4>1 DEF AttributesInv, ListedCurrent
    <3>2. Org[g] \in work[w].orgs <=> <<work[w].user, Org[g]>> \in orgs
      BY <2>5 DEF Outdated
    <3>3. (g \in desired) # Listed(work[w].user, g)
      BY <2>5 DEF Wrong
    <3> QED BY <1>2, <3>1, <3>2, <3>3 DEF Current, Listed
  <2> QED BY <2>1, <2>2, <2>3, <2>4, <2>5
<1> QED BY <1>6, <1>7

\* It leaves the others as they are.
LEMMA PatchKeeps ==
  ASSUME TypeInv, NEW w, NEW d \in Devices, Patched(w, d), NEW e \in Devices \ {d}
  PROVE  attrs'[e] = attrs[e] /\ \A g : <<e, g>> \in Marks <=> <<e, g>> \in Marks'
<1>1. attrs'[e] = attrs[e]
  BY PatchMarks DEF TypeInv, TypeOK
<1>2. \A g : <<e, g>> \in raced <=> <<e, g>> \in raced'
  BY PatchMarks
<1>3. \A g : <<e, g>> \in unannounced <=> <<e, g>> \in unannounced'
  BY PatchMarks
<1> QED BY <1>1, <1>2, <1>3 DEF Marks

LEMMA PatchAttributes ==
  ASSUME TypeInv, AttributesInv, NEW w \in {Consumer, Reconciler}, NEW d \in Devices, Patch(w, d)
  PROVE  AttributesInv'
<1>1. /\ work[w].pc = "patch" /\ d \in work[w].devices
      /\ UNCHANGED <<rows, ziti, owner, member, orgs>>
      /\ w \in Workers /\ Consumer # Reconciler
  BY NamesAssumption DEF Patch, IsFirst, Workers
<1>2. CASE UNCHANGED <<attrs, raced, unannounced>> /\ Fail(w)
  <2>1. CASE w = Consumer
    BY <1>1, <1>2, <2>1, ExplainedFail
  <2>2. CASE w = Reconciler
    <3>1. UNCHANGED work[Consumer] /\ events' = events
      BY <1>1, <1>2, <2>2, WorkBecomes DEF Fail, Workers
    <3> QED BY <1>1, <1>2, <3>1, AttributesQuiet DEF Marks
  <2> QED BY <2>1, <2>2
<1>3. CASE d \in ziti /\ Patched(w, d) /\ w = Consumer
  <2>1. ASSUME NEW e \in rows \cap ziti, NEW g \in Groups
        PROVE  \/ g \in attrs'[e] <=> Listed(owner[e], g)
               \/ <<owner[e], g>> \in events
               \/ <<e, g>> \in Marks'
               \/ e # d /\ Excused(e, g)
    <3>1. CASE e = d
      BY <1>1, <1>3, <2>1, <3>1, PatchExplains
    <3>2. CASE e # d
      <4>1. e \in Devices
        BY DEF TypeInv, TypeOK
      <4>2. Explained(e, g) \/ Excused(e, g)
        BY DEF AttributesInv
      <4> QED BY <1>3, <3>2, <4>1, <4>2, PatchKeeps DEF Explained
    <3> QED BY <3>1, <3>2
  <2>2. CASE Fail(Consumer)
    BY <1>1, <2>1, <2>2, AttributesReleased DEF Excused
  <2>3. CASE Passes(Consumer, d)
    <3>1. PICK j \in Jobs :
            /\ Takes(Consumer, j) /\ SameTarget(Consumer, j) /\ UNCHANGED events
            /\ j.pc = "patch" /\ j.pages = {} /\ j.desired = work[Consumer].desired
            /\ j.orgs = work[Consumer].orgs
            /\ j.devices = work[Consumer].devices \ {d}
      BY <2>3 DEF Passes
    <3>2. work'[Consumer] = j
      BY <3>1, WorkBecomes DEF Takes, Workers
    <3>3. work[Consumer].pages = {}
      BY <1>1, <1>3 DEF TypeInv, Shapes, Shape
    <3>4. ListedCurrent'
      BY <1>1, <1>3, <3>1, <3>2, <3>3 DEF AttributesInv, ListedCurrent, Current, SameTarget
    <3>5. UNCHANGED Held
      BY <3>1, <3>2 DEF Held, SameTarget
    <3>6. \A e \in rows \cap ziti, g \in Groups : Explained(e, g)' \/ Excused(e, g)'
      BY <1>1, <1>3, <2>1, <3>1, <3>2, <3>5 DEF Explained, Excused, Listed
    <3> QED BY <1>1, <3>4, <3>6 DEF AttributesInv
  <2> QED BY <1>1, <1>2, <1>3, <2>2, <2>3, PatchTakes
<1>4. CASE d \in ziti /\ Patched(w, d) /\ w = Reconciler
  <2>1. UNCHANGED work[Consumer] /\ events' = events
    <3>1. Passes(w, d) \/ Fail(w)
      BY <1>1, PatchTakes
    <3> QED BY <1>1, <1>4, <3>1, WorkBecomes DEF Passes, Takes, Fail, Workers
  <2>2. ListedCurrent'
    BY <1>1, <2>1 DEF AttributesInv, ListedCurrent, Current
  <2>3. ASSUME NEW e \in rows \cap ziti, NEW g \in Groups
        PROVE  \/ g \in attrs'[e] <=> Listed(owner[e], g)
               \/ <<owner[e], g>> \in events
               \/ <<e, g>> \in Marks'
               \/ Excused(e, g)
    <3>1. CASE e = d
      BY <1>1, <1>4, <2>3, <3>1, PatchExplains
    <3>2. CASE e # d
      <4>1. e \in Devices
        BY DEF TypeInv, TypeOK
      <4>2. Explained(e, g) \/ Excused(e, g)
        BY DEF AttributesInv
      <4> QED BY <1>4, <3>2, <4>1, <4>2, PatchKeeps DEF Explained
    <3> QED BY <3>1, <3>2
  <2>4. \A e \in rows \cap ziti, g \in Groups : Explained(e, g)' \/ Excused(e, g)'
    BY <1>1, <2>1, <2>3 DEF Explained, Excused, Held, Listed
  <2> QED BY <1>1, <2>2, <2>4 DEF AttributesInv
<1> QED BY <1>1, <1>2, <1>3, <1>4, PatchTakes

LEMMA CreateRowAttributes ==
  ASSUME TypeInv, AttributesInv, NEW w \in Workers, CreateRow(w)
  PROVE  AttributesInv'
<1> DEFINE mine == work[w].devices
<1>1. UNCHANGED <<ziti, owner, attrs, member, orgs, events>>
  BY DEF CreateRow
<1>2. w # Consumer /\ \E j : Takes(w, j)
  BY NamesAssumption, CreateRowTakes
<1>3. UNCHANGED work[Consumer]
  BY <1>2, WorkBecomes DEF Takes, Workers
<1>4. CASE UNCHANGED <<rows, raced, unannounced>>
  BY <1>1, <1>3, <1>4, AttributesQuiet DEF Marks
<1>5. CASE rows' = rows \cup mine /\ Misses(w)
  <2>1. ListedCurrent'
    BY <1>1, <1>3 DEF AttributesInv, ListedCurrent, Current
  <2>2. ASSUME NEW d \in rows' \cap ziti, NEW g \in Groups
        PROVE  Explained(d, g)' \/ Excused(d, g)'
    <3>1. CASE d \in mine
      <4>1. g \in Missed(d) => <<d, g>> \in raced' \/ <<d, g>> \in unannounced'
        BY <1>5, <3>1 DEF Misses
      <4> QED BY <1>1, <4>1 DEF Missed, Explained, Listed, Marks
    <3>2. CASE d \in rows
      <4>1. Explained(d, g) \/ Excused(d, g)
        BY <2>2, <3>2 DEF AttributesInv
      <4>2. <<d, g>> \in Marks => <<d, g>> \in Marks'
        BY <1>5 DEF Misses, Marks
      <4> QED BY <1>1, <1>3, <4>1, <4>2 DEF Explained, Excused, Held, Listed
    <3> QED BY <1>5, <3>1, <3>2
  <2> QED BY <1>1, <2>1, <2>2 DEF AttributesInv
<1> QED BY <1>4, <1>5, CreateRowTakes

LEMMA ChangeAttributes ==
  ASSUME TypeInv, AttributesInv, NEW u \in Users, NEW g \in Groups, Change(u, g)
  PROVE  AttributesInv'
<1>1. /\ UNCHANGED <<rows, ziti, owner, attrs, orgs, raced, unannounced, work>>
      /\ events' = events \cup {<<u, g>>}
      /\ \A x : x # <<u, g>> => (x \in member' <=> x \in member)
  BY DEF Change
<1>2. ASSUME NEW v, NEW h, NEW desired, NEW seen, Current(v, h, desired, seen)
      PROVE  Current(v, h, desired, seen)'
  <2>1. CASE <<v, h>> = <<u, g>>
    BY <1>1, <2>1 DEF Current
  <2>2. CASE <<v, h>> # <<u, g>>
    BY <1>1, <1>2, <2>2 DEF Current
  <2> QED BY <2>1, <2>2
<1>3. ListedCurrent'
  BY <1>1, <1>2 DEF AttributesInv, ListedCurrent, Current
<1>4. ASSUME NEW d \in rows \cap ziti, NEW h \in Groups PROVE Explained(d, h)' \/ Excused(d, h)'
  <2>1. CASE <<owner[d], h>> = <<u, g>>
    BY <1>1, <2>1 DEF Explained
  <2>2. CASE <<owner[d], h>> # <<u, g>>
    BY <1>1, <2>2 DEF AttributesInv, Explained, Excused, Held, Listed, Marks
  <2> QED BY <2>1, <2>2
<1> QED BY <1>1, <1>3, <1>4 DEF AttributesInv

\* A change of an organization marks what it makes wrong.
LEMMA ChangeOrgAttributes ==
  ASSUME TypeInv, AttributesInv, NEW u \in Users, NEW o \in Orgs, ChangeOrg(u, o)
  PROVE  AttributesInv'
<1> DEFINE affected == DevicesOf(u) \X {g \in Groups : Org[g] = o}
<1>1. UNCHANGED <<rows, ziti, owner, attrs, member, events, raced, work>>
  BY DEF ChangeOrg
<1>2. /\ <<u, o>> \in orgs' <=> <<u, o>> \notin orgs
      /\ \A x : x # <<u, o>> => (x \in orgs' <=> x \in orgs)
  BY DEF ChangeOrg
<1>3. unannounced' = (unannounced \ affected) \cup
        {x \in affected : (x[2] \in attrs[x[1]]) # (<<u, x[2]>> \in member /\ <<u, o>> \notin orgs)}
  BY DEF ChangeOrg
<1>4. ListedCurrent'
  BY <1>1 DEF AttributesInv, ListedCurrent, Current
<1>5. ASSUME NEW d \in rows \cap ziti, NEW g \in Groups PROVE Explained(d, g)' \/ Excused(d, g)'
  <2>1. CASE owner[d] = u /\ Org[g] = o
    <3>1. <<d, g>> \in affected
      BY <2>1 DEF DevicesOf
    <3>2. Listed(u, g)' <=> <<u, g>> \in member /\ <<u, o>> \notin orgs
      BY <1>1, <1>2, <2>1 DEF Listed
    <3>3. CASE g \in attrs[d] <=> Listed(u, g)'
      BY <1>1, <2>1, <3>3 DEF Explained
    <3>4. CASE ~(g \in attrs[d] <=> Listed(u, g)')
      <4> HIDE DEF affected
      <4>1. <<d, g>> \in unannounced'
        BY <1>3, <3>1, <3>2, <3>4
      <4> QED BY <4>1 DEF Explained, Marks
    <3> QED BY <3>3, <3>4
  <2>2. CASE <<owner[d], Org[g]>> # <<u, o>>
    <3>1. <<d, g>> \notin affected
      BY <2>2 DEF DevicesOf
    <3> HIDE DEF affected
    <3>2. <<d, g>> \in Marks => <<d, g>> \in Marks'
      BY <1>1, <1>3, <3>1 DEF Marks
    <3>3. Listed(owner[d], g)' <=> Listed(owner[d], g)
      BY <1>1, <1>2, <2>2 DEF Listed
    <3>4. Explained(d, g) \/ Excused(d, g)
      BY DEF AttributesInv
    <3> QED BY <1>1, <3>2, <3>3, <3>4 DEF Explained, Excused, Held
  <2> QED BY <2>1, <2>2
<1> QED BY <1>1, <1>4, <1>5 DEF AttributesInv

LEMMA ConsumerAttributes ==
  ASSUME TypeInv, AttributesInv,
         \/ ListOrganizations(Consumer) \/ ListGroups(Consumer) \/ ListDevices(Consumer)
         \/ EndSync(Consumer) \/ Crash(Consumer)
  PROVE  AttributesInv'
<1>1. Consumer \in Workers /\ UNCHANGED <<rows, ziti, owner, attrs, member, orgs, raced, unannounced>>
  BY DEF Workers, ListOrganizations, ListGroups, ListDevices, EndSync, Crash
<1>2. CASE Fail(Consumer)
  BY <1>1, <1>2, ExplainedFail
<1>3. CASE ListGroups(Consumer) /\ ~Fail(Consumer)
  BY <1>1, <1>3, ListGroupsTakes, ConsumerListsPage DEF ListGroups
<1>4. CASE ListDevices(Consumer) /\ ~Fail(Consumer)
  BY <1>1, <1>4, ListDevicesTakes, ConsumerListsDevices DEF ListDevices
<1>5. CASE EndSync(Consumer)
  <2>1. /\ work[Consumer].pc = "patch" /\ work[Consumer].devices = {} /\ UNCHANGED events
        /\ work'[Consumer] = NoJob
    BY <1>1, <1>5, EndSyncTakes, WorkBecomes DEF EndSync, Takes
  <2>2. ListedCurrent'
    BY <2>1 DEF ListedCurrent, NoJob
  <2>3. \A d \in rows \cap ziti, g \in Groups : Explained(d, g)'
    BY <1>1, <2>1 DEF AttributesInv, Excused, Explained, Listed, Marks
  <2> QED BY <1>1, <2>2, <2>3 DEF AttributesInv
<1>6. CASE ListOrganizations(Consumer) /\ ~Fail(Consumer)
  BY <1>1, <1>6, ListOrganizationsTakes, ConsumerListsOrganizations DEF ListOrganizations
<1> QED BY <1>2, <1>3, <1>4, <1>5, <1>6 DEF Crash

\* Steps of workers other than the consumer that are no patch and insert no row.
LEMMA OtherAttributes ==
  ASSUME TypeInv, AttributesInv, NEW w \in Workers \ {Consumer},
         \/ ListOrganizations(w) \/ ListGroups(w) \/ ListDevices(w) \/ EndSync(w) \/ Crash(w)
         \/ CreateIdentity(w) \/ Unlink(w)
         \/ w \in Creators /\ Request(w)
         \/ w = Reconciler /\ (StartPass \/ NextUser)
  PROVE  AttributesInv'
<1>1. UNCHANGED <<member, orgs>> /\ events \subseteq events'
  <2>1. Fail(w) => UNCHANGED events
    BY DEF Fail
  <2> QED
    BY <2>1 DEF ListOrganizations, ListGroups, ListDevices, EndSync, Crash, CreateIdentity, Unlink,
                Request, CallCreate, CallDelete, StartPass, NextUser
<1>2. \E j : Becomes(w, j)
  <2>1. ASSUME Fail(w) PROVE \E j : Becomes(w, j)
    BY <2>1 DEF Fail
  <2>2. CASE ListGroups(w)
    BY <2>1, <2>2, ListGroupsTakes DEF ListsPage, Takes
  <2>3. CASE ListDevices(w)
    BY <2>1, <2>3, ListDevicesTakes DEF ListsDevices, Takes
  <2>4. CASE EndSync(w)
    BY <2>4, EndSyncTakes DEF Takes
  <2>5. CASE Crash(w)
    BY <2>1, <2>5 DEF Crash
  <2>6. CASE CreateIdentity(w)
    BY <2>1, <2>6, CreateIdentityTakes DEF NewIdentity, Takes
  <2>7. CASE Unlink(w)
    BY <2>1, <2>7, UnlinkTakes DEF Takes
  <2>8. CASE w \in Creators /\ Request(w)
    BY <2>8, CallCreateTakes, CallDeleteTakes DEF Request, Takes
  <2>9. CASE w = Reconciler /\ StartPass
    BY <2>9 DEF StartPass
  <2>10. CASE w = Reconciler /\ NextUser
    BY <2>10 DEF NextUser
  <2>11. CASE ListOrganizations(w)
    BY <2>1, <2>11, ListOrganizationsTakes DEF ListsOrganizations, Takes
  <2> QED BY <2>2, <2>3, <2>4, <2>5, <2>6, <2>7, <2>8, <2>9, <2>10, <2>11
<1>3. UNCHANGED work[Consumer]
  BY <1>2, WorkBecomes DEF Workers
<1>4. ASSUME rows' \subseteq rows, ziti' \subseteq ziti, UNCHANGED owner,
             \A d \in ziti' : attrs'[d] = attrs[d],
             \A d \in rows', g \in Groups : <<d, g>> \in Marks => <<d, g>> \in Marks'
      PROVE  AttributesInv'
  BY <1>1, <1>3, <1>4, AttributesQuiet
<1>5. CASE CreateIdentity(w)
  <2>1. UNCHANGED <<rows, raced, unannounced>>
    BY <1>5 DEF CreateIdentity
  <2>2. CASE UNCHANGED <<ziti, owner, attrs>>
    BY <1>4, <2>1, <2>2 DEF Marks
  <2>3. ASSUME NEW d \in Devices, NewIdentity(w, d) PROVE AttributesInv'
    <3>1. /\ owner[d] = None /\ ziti' = ziti \cup {d}
          /\ \A e \in Devices \ {d} : owner'[e] = owner[e] /\ attrs'[e] = attrs[e]
      BY <2>3 DEF NewIdentity, TypeInv, TypeOK
    <3>2. \A e \in rows : e \in Devices \ {d}
      BY <3>1 DEF TypeInv, TypeOK
    <3> QED BY <1>1, <1>3, <2>1, <3>1, <3>2, AttributesQuiet DEF Marks
  <2> QED BY <1>5, <2>2, <2>3, CreateIdentityTakes
<1>6. CASE Unlink(w)
  <2>1. UNCHANGED <<rows, owner, raced, unannounced>> /\ ziti' \subseteq ziti
    BY <1>6 DEF Unlink
  <2>2. \A d \in ziti' : attrs'[d] = attrs[d]
    BY <1>6 DEF Unlink, TypeInv, TypeOK
  <2> QED BY <1>4, <2>1, <2>2 DEF Marks
<1>7. ASSUME NEW d \in rows, CallDelete(w, d) PROVE AttributesInv'
  <2>1. UNCHANGED <<ziti, owner, attrs>> /\ (RemoveRows({d}) \/ UNCHANGED <<rows, raced, unannounced>>)
    BY <1>7 DEF CallDelete
  <2>2. rows' \subseteq rows /\ \A e \in rows', g \in Groups : <<e, g>> \in Marks => <<e, g>> \in Marks'
    BY <2>1 DEF RemoveRows, Marks
  <2> QED BY <1>4, <2>1, <2>2
<1>8. CASE \/ ListOrganizations(w) \/ ListGroups(w) \/ ListDevices(w) \/ EndSync(w) \/ Crash(w)
           \/ (\E u \in accounts : CallCreate(w, u)) \/ StartPass \/ NextUser
  <2>1. UNCHANGED <<rows, ziti, owner, attrs, raced, unannounced>>
    BY <1>8 DEF ListOrganizations, ListGroups, ListDevices, EndSync, Crash, CallCreate, StartPass,
                NextUser
  <2> QED BY <1>4, <2>1 DEF Marks
<1> QED BY <1>5, <1>6, <1>7, <1>8 DEF Request

LEMMA UserDeletedAttributes ==
  ASSUME AttributesInv, NEW u \in Users, UserDeleted(u)
  PROVE  AttributesInv'
<1>1. /\ rows' \subseteq rows /\ UNCHANGED <<ziti, owner, attrs, member, orgs, events, work>>
      /\ \A d \in rows', g \in Groups : <<d, g>> \in Marks => <<d, g>> \in Marks'
  BY DEF UserDeleted, RemoveRows, Marks
<1> QED BY <1>1, AttributesQuiet

LEMMA NextAttributes == TypeInv /\ AttributesInv /\ [Next]_vars => AttributesInv'
<1> SUFFICES ASSUME TypeInv, AttributesInv, [Next]_vars PROVE AttributesInv'
  OBVIOUS
<1>1. Consumer \notin Creators /\ Consumer # Reconciler /\ Consumer \in Workers /\ Reconciler \in Workers
  BY NamesAssumption DEF Workers
<1>2. ASSUME NEW w \in Workers, Step(w) \/ Crash(w) PROVE AttributesInv'
  <2>1. ASSUME NEW d \in Devices, Patch(w, d) PROVE AttributesInv'
    BY <2>1, PatchTakes, PatchAttributes DEF Workers
  <2>2. CASE w = Consumer
    <3>1. ~CreateIdentity(w) /\ ~CreateRow(w) /\ ~Unlink(w)
      BY <1>1, <2>2, CreateIdentityTakes, CreateRowTakes, UnlinkTakes
    <3> QED BY <1>2, <2>1, <2>2, <3>1, ConsumerAttributes DEF Step
  <2>3. CASE w # Consumer
    BY <1>2, <2>1, <2>3, CreateRowAttributes, OtherAttributes DEF Step
  <2> QED BY <2>2, <2>3
<1>3. ASSUME NEW w \in Creators, Request(w) PROVE AttributesInv'
  BY <1>1, <1>3, OtherAttributes DEF Workers
<1>4. CASE StartPass \/ NextUser
  BY <1>1, <1>4, OtherAttributes
<1>5. CASE Consume
  BY <1>5, ConsumerTakes DEF Consume
<1>6. CASE Environment
  <2>1. ASSUME NEW u \in Users, NEW g \in Groups, Redeliver(u, g) PROVE AttributesInv'
    BY <2>1, AttributesQuiet DEF Redeliver, Marks
  <2> QED
    BY <1>6, <2>1, UserDeletedAttributes, ChangeAttributes, ChangeOrgAttributes DEF Environment
<1>7. CASE UNCHANGED vars
  BY <1>7, AttributesQuiet DEF vars, Marks
<1> QED BY <1>2, <1>3, <1>4, <1>5, <1>6, <1>7 DEF Next

LEMMA InitAttributes == Init => AttributesInv
<1> SUFFICES ASSUME Init PROVE AttributesInv
  OBVIOUS
<1>1. work[Consumer] = NoJob
  BY DEF Init, Workers
<1>2. ListedCurrent
  BY <1>1 DEF ListedCurrent, NoJob
<1>3. ASSUME NEW d \in InitRows, NEW g \in Groups PROVE Explained(d, g)
  <2>1. d \in Devices /\ owner[d] = InitOwner[d]
    BY InitAssumption DEF Init
  <2>2. g \in attrs[d] <=> Listed(InitOwner[d], g)
    BY <2>1 DEF Init
  <2> QED BY <2>1, <2>2 DEF Init, Explained
<1> QED BY <1>2, <1>3 DEF Init, AttributesInv

\* Whatever is delivered twice, late or out of order, fails half-way or is
\* killed: wrong attributes of a listed device have an event that will correct
\* them, or were left by a reconciliation pass or a CreateDevice that read the
\* groups before they changed, or by a change of the user's organizations in
\* Authorization, which comes without an event.
THEOREM StalenessExplained == Spec => []StaleAttributesAreExplained
<1>1. AttributesInv => StaleAttributesAreExplained
  BY DEF AttributesInv, Explained, Excused, StaleAttributesAreExplained, Pending, Marks
<1> QED BY <1>1, InitAttributes, NextAttributes, Typed, PTL DEF Spec
=============================================================================
