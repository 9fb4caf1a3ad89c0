----------------------------- MODULE DeviceSync -----------------------------
(***************************************************************************)
(* Devices and the group attributes of their OpenZiti identities:          *)
(* CreateDevice and DeleteDevice (internal/server/server.go), the consumer *)
(* of group membership events (group_consumer.go) and the reconciliation   *)
(* pass (group_sync.go).  A device is a row of user_devices and an         *)
(* identity in Ziti; its attributes should name the groups of its user.    *)
(* Two services decide which those are: Groups keeps the memberships and   *)
(* announces their changes by events; Authorization keeps the user's       *)
(* organizations, outside of which no group is listed, and announces none. *)
(*                                                                         *)
(* All of them compute the attributes from a list read earlier, and write  *)
(* them with a patch that adds and removes: the order of reads and writes  *)
(* of several workers, and of changes in Groups, is what matters here.     *)
(***************************************************************************)
EXTENDS Naturals, FiniteSets

CONSTANTS
  Users, Groups, Devices,
  Orgs, Org,   \* the organizations, and the one each group belongs to
  Rank,        \* the order of the random ids of users and devices, which listings follow
  Pages,       \* the calls that list a user's groups: a partition of Groups, each page
               \* within an organization
  Creators,    \* requests for CreateDevice and DeleteDevice in flight together
  Consumer,    \* the subscription of the group membership events
  Reconciler,  \* the goroutine of the reconciliation timer
  None,
  InitMember,  \* memberships at start: <<user, group>>
  InitOrgs,    \* organizations of the users at start: <<user, organization>>
  InitRows,    \* devices with a row and an identity at start
  InitOwner,   \* their users
  Broken,      \* devices whose identity Ziti may refuse to patch for ever
  Ops,         \* bound: what happens in the run
  Faults       \* failures of the run: calls refused ("error"), done with the answer lost
               \* ("lost"), an identity not deleted ("unlink"), a process killed ("crash")

Workers == Creators \cup {Consumer, Reconciler}

ASSUME NamesAssumption ==
  /\ None \notin Users \cup Devices \cup Groups
  /\ Consumer # Reconciler /\ Creators \cap {Consumer, Reconciler} = {}
ASSUME PagesAssumption ==
  /\ UNION Pages = Groups
  /\ \A x, y \in Pages : x # y => x \cap y = {}
  /\ Org \in [Groups -> Orgs]
  /\ \A page \in Pages : \A g, h \in page : Org[g] = Org[h]
ASSUME RankAssumption ==
  /\ Rank \in [Users \cup Devices -> Nat]
  /\ \A x, y \in Users \cup Devices : Rank[x] = Rank[y] => x = y
ASSUME InitAssumption ==
  /\ InitMember \subseteq Users \X Groups /\ InitOrgs \subseteq Users \X Orgs
  /\ InitRows \subseteq Devices /\ InitOwner \in [InitRows -> Users]
ASSUME BoundsAssumption ==
  /\ Ops \subseteq {"create", "delete", "deleteUser", "join", "leave", "joinOrg", "leaveOrg",
                  "redeliver", "reconcile"}
  /\ Faults \subseteq {"error", "lost", "unlink", "crash"}

VARIABLES
  accounts,  \* table users: who has a row
  rows,      \* table user_devices
  ziti,      \* Ziti: the identities that exist
  owner,     \* the user a device was created for, None before that
  attrs,     \* Ziti: the groups named by the attributes of each identity
  member,    \* Groups: the memberships
  orgs,      \* Authorization: the organizations of the users, as <<user, organization>>
  events,    \* JetStream: the membership events not acknowledged, as <<user, group>>
  raced,     \* history: attributes of listed devices left wrong by a pass or a creation that
             \* read too early
  unannounced, \* history: attributes of listed devices left wrong by a change in
               \* Authorization, which no event announces
  doubted,   \* history: devices a request left behind in doubt: its answer was lost, the
             \* deletion of an identity failed, or it was killed
  work       \* what each worker is doing

vars == <<accounts, rows, ziti, owner, attrs, member, orgs, events, raced, unannounced, doubted,
          work>>

-----------------------------------------------------------------------------
(* Workers.  A handler lists the groups page by page, then acts.           *)

PCs == {"idle", "orgs", "list",        \* userGroupRoleAttributes
        "identity", "row", "undo",     \* CreateDevice
        "unlink",                      \* DeleteDevice
        "next", "patch"}               \* syncUserDeviceGroupRoles, per user

Jobs ==
  [pc : PCs, user : Users \cup {None}, candidates : SUBSET Groups, pages : SUBSET Pages,
   orgs : SUBSET Orgs, desired : SUBSET Groups, devices : SUBSET Devices, todo : SUBSET Users]

NoJob == [pc |-> "idle", user |-> None, candidates |-> {}, pages |-> {},
          orgs |-> {}, desired |-> {}, devices |-> {}, todo |-> {}]

Becomes(w, j) == work' = [work EXCEPT ![w] = j]
Goto(w, pc) == Becomes(w, [work[w] EXCEPT !.pc = pc])
Doubt(S) == doubted' = doubted \cup S

Listing(w, u) ==
  [work[w] EXCEPT !.pc = "orgs", !.user = u, !.pages = {}, !.orgs = {}, !.desired = {}]

\* What a listing of u's groups that starts now returns.
Listed(u, g) == <<u, g>> \in member /\ <<u, Org[g]>> \in orgs

\* The event the consumer works on, while it is not acknowledged.
Held == {work[Consumer].user} \X work[Consumer].candidates
Pending(u, g) == <<u, g>> \in events \cup Held

\* Mutant of Fail: the event is acknowledged in spite of the error.
FailAcknowledged(w) == Becomes(w, NoJob) /\ UNCHANGED events

\* A handler fails: the consumer gives its event back (Nak), a pass is given
\* up, a request is answered with the error.
Fail(w) ==
  /\ Becomes(w, NoJob)
  /\ events' = IF w = Consumer THEN events \cup Held ELSE events

-----------------------------------------------------------------------------
(* Listing the groups of a user: one call for the organizations, then one  *)
(* per organization and page.                                              *)

OrgsOf(u) == {o \in Orgs : <<u, o>> \in orgs}

\* Mutant of PagesOf: memberships are read whatever the organizations.
AllPages(found) == Pages

PagesOf(found) == {page \in Pages : \E g \in page : Org[g] \in found}

ListOrganizations(w) ==
  /\ work[w].pc = "orgs"
  /\ \/ LET found == OrgsOf(work[w].user)
        IN /\ Becomes(w, [work[w] EXCEPT !.pc = "list", !.orgs = found, !.pages = PagesOf(found)])
           /\ UNCHANGED events
     \/ "error" \in Faults /\ Fail(w)
  /\ UNCHANGED <<accounts, rows, ziti, owner, attrs, member, orgs, raced, unannounced, doubted>>

ListGroups(w) ==
  /\ work[w].pc = "list"
  /\ \/ \E page \in work[w].pages :
          /\ Becomes(w, [work[w] EXCEPT
                           !.pages = @ \ {page},
                           !.desired = @ \cup {g \in page : <<work[w].user, g>> \in member}])
          /\ UNCHANGED events
     \/ "error" \in Faults /\ work[w].pages # {} /\ Fail(w)
  /\ UNCHANGED <<accounts, rows, ziti, owner, attrs, member, orgs, raced, unannounced, doubted>>

-----------------------------------------------------------------------------
(* syncUserDeviceGroupRoles, for an event or for a user of a pass.         *)

TakeEvent(u, g) ==
  /\ work[Consumer].pc = "idle" /\ <<u, g>> \in events
  /\ Becomes(Consumer, [Listing(Consumer, u) EXCEPT !.candidates = {g}])
  /\ events' = events \ {<<u, g>>}
  /\ UNCHANGED <<accounts, rows, ziti, owner, attrs, member, orgs, raced, unannounced, doubted>>

\* The timer fires: the users are listed.
StartPass ==
  /\ "reconcile" \in Ops /\ work[Reconciler].pc = "idle"
  /\ Becomes(Reconciler, [NoJob EXCEPT !.pc = "next", !.todo = accounts])
  /\ UNCHANGED <<accounts, rows, ziti, owner, attrs, member, orgs, events, raced, unannounced,
                 doubted>>

IsFirst(x, S) == x \in S /\ \A y \in S : Rank[x] <= Rank[y]

NextUser ==
  /\ work[Reconciler].pc = "next"
  /\ \/ \E u \in work[Reconciler].todo :
          /\ IsFirst(u, work[Reconciler].todo)
          /\ Becomes(Reconciler, [Listing(Reconciler, u) EXCEPT !.todo = @ \ {u}])
     \/ work[Reconciler].todo = {} /\ Becomes(Reconciler, NoJob)
  /\ UNCHANGED <<accounts, rows, ziti, owner, attrs, member, orgs, events, raced, unannounced,
                 doubted>>

DevicesOf(u) == {d \in rows : owner[d] = u}

ListDevices(w) ==
  /\ w \in {Consumer, Reconciler} /\ work[w].pc = "list" /\ work[w].pages = {}
  /\ \/ /\ Becomes(w, [work[w] EXCEPT !.pc = "patch", !.devices = DevicesOf(work[w].user)])
        /\ UNCHANGED events
     \/ "error" \in Faults /\ Fail(w)
  /\ UNCHANGED <<accounts, rows, ziti, owner, attrs, member, orgs, raced, unannounced, doubted>>

\* Mutant of Removed: the groups listed are not consulted.
RemovedBlindly(desired, candidates) == candidates

\* staleCandidateAttributes.
Removed(desired, candidates) == candidates \ desired

\* The groups whose organization w saw differently: it read too early.
Outdated(w) == {g \in Groups : (Org[g] \in work[w].orgs) # (<<work[w].user, Org[g]>> \in orgs)}

\* The patch of device d by w, and what it leaves wrong: of a membership that
\* changed meanwhile only a reconciliation pass leaves it without an event to
\* correct it; of an organization that changed every worker does.
Patched(w, d) ==
  LET desired == work[w].desired
      removed == Removed(desired, work[w].candidates)
      touched == {d} \X (desired \cup removed)
      wrong == {g \in desired \cup removed : (g \in desired) # Listed(work[w].user, g)}
  IN /\ attrs' = [attrs EXCEPT ![d] = (@ \cup desired) \ removed]
     /\ raced' = (raced \ touched)
                   \cup (IF w = Reconciler THEN ({d} \cap rows) \X (wrong \ Outdated(w)) ELSE {})
     /\ unannounced' = (unannounced \ touched)
                         \cup (({d} \cap rows) \X (wrong \cap Outdated(w)))

Patch(w, d) ==
  /\ work[w].pc = "patch" /\ IsFirst(d, work[w].devices)
  /\ \/ /\ d \in ziti
        /\ Patched(w, d)
        /\ \/ /\ Becomes(w, [work[w] EXCEPT !.devices = @ \ {d}])
              /\ UNCHANGED events
           \/ "lost" \in Faults /\ Fail(w)
     \/ /\ d \notin ziti \/ "error" \in Faults
        /\ Fail(w) /\ UNCHANGED <<attrs, raced, unannounced>>
  /\ UNCHANGED <<accounts, rows, ziti, owner, member, orgs, doubted>>

\* Mutant of Synced: the pass ends with its first user.
SyncedAndDone(w) == NoJob

\* After the last device the event is acknowledged; a pass goes on.
Synced(w) ==
  IF w = Consumer THEN NoJob ELSE [NoJob EXCEPT !.pc = "next", !.todo = work[w].todo]

EndSync(w) ==
  /\ work[w].pc = "patch" /\ work[w].devices = {}
  /\ Becomes(w, Synced(w))
  /\ UNCHANGED <<accounts, rows, ziti, owner, attrs, member, orgs, events, raced, unannounced,
                 doubted>>

-----------------------------------------------------------------------------
(* CreateDevice and DeleteDevice.  An identity that a request works on is  *)
(* in its devices.                                                         *)

CallCreate(w, u) ==
  /\ "create" \in Ops /\ work[w].pc = "idle"
  /\ Becomes(w, Listing(w, u))
  /\ UNCHANGED <<accounts, rows, ziti, owner, attrs, member, orgs, events, raced, unannounced,
                 doubted>>

\* An answer that is lost, or comes without an enrollment JWT, ends the request
\* and leaves the identity.  Also fails when the devices of the model are used up.
CreateIdentity(w) ==
  /\ w \in Creators /\ work[w].pc = "list" /\ work[w].pages = {}
  /\ \/ \E d \in Devices :
          /\ owner[d] = None
          /\ ziti' = ziti \cup {d}
          /\ owner' = [owner EXCEPT ![d] = work[w].user]
          /\ attrs' = [attrs EXCEPT ![d] = work[w].desired]
          /\ \/ Becomes(w, [work[w] EXCEPT !.pc = "row", !.devices = {d}]) /\ UNCHANGED doubted
             \/ "lost" \in Faults /\ Becomes(w, NoJob) /\ Doubt({d})
     \/ /\ "error" \in Faults \/ \A d \in Devices : owner[d] # None
        /\ Becomes(w, NoJob) /\ UNCHANGED <<ziti, owner, attrs, doubted>>
  /\ UNCHANGED <<accounts, rows, member, orgs, events, raced, unannounced>>

\* The attributes of a new device that no event will correct any more.
Missed(d) ==
  {g \in Groups : (g \in attrs[d]) # Listed(owner[d], g)}

\* Mutant of InsertFails: the identity stays.
InsertFailsOnly(w) == Becomes(w, NoJob)

InsertFails(w) == Goto(w, "undo")

\* Mutant of CreateRow: no foreign key to users.
CreateRowUnchecked(w) ==
  /\ work[w].pc = "row"
  /\ rows' = rows \cup work[w].devices
  /\ Becomes(w, NoJob)
  /\ UNCHANGED <<accounts, ziti, owner, attrs, member, orgs, events, raced, unannounced, doubted>>

CreateRow(w) ==
  /\ work[w].pc = "row"
  /\ \/ /\ work[w].user \in accounts
        /\ rows' = rows \cup work[w].devices
        /\ raced' = raced \cup UNION {{d} \X (Missed(d) \ Outdated(w)) : d \in work[w].devices}
        /\ unannounced' = unannounced
                           \cup UNION {{d} \X (Missed(d) \cap Outdated(w)) : d \in work[w].devices}
        /\ \/ Becomes(w, NoJob) /\ UNCHANGED doubted
           \/ "lost" \in Faults /\ InsertFails(w) /\ Doubt(work[w].devices)
     \/ /\ work[w].user \notin accounts \/ "error" \in Faults
        /\ InsertFails(w) /\ UNCHANGED <<rows, raced, unannounced, doubted>>
  /\ UNCHANGED <<accounts, ziti, owner, attrs, member, orgs, events>>

\* DeleteDeviceIdentity, as the compensation of CreateDevice and as the last
\* step of DeleteDevice: its error is dropped.
Unlink(w) ==
  /\ work[w].pc \in {"undo", "unlink"}
  /\ \/ /\ ziti' = ziti \ work[w].devices
        /\ attrs' = [d \in Devices |-> IF d \in work[w].devices THEN {} ELSE attrs[d]]
        /\ UNCHANGED doubted
     \/ "unlink" \in Faults /\ Doubt(work[w].devices) /\ UNCHANGED <<ziti, attrs>>
  /\ Becomes(w, NoJob)
  /\ UNCHANGED <<accounts, rows, owner, member, orgs, events, raced, unannounced>>

RemoveRows(S) ==
  /\ rows' = rows \ S
  /\ raced' = raced \ (S \X Groups) /\ unannounced' = unannounced \ (S \X Groups)

\* Mutant of AfterDelete: the error of the database is dropped too.
AfterAnyDelete(w, d, code) == Becomes(w, [NoJob EXCEPT !.pc = "unlink", !.devices = {d}])

\* The row is deleted first, the identity if that worked.
AfterDelete(w, d, code) ==
  Becomes(w, IF code = "OK" THEN [NoJob EXCEPT !.pc = "unlink", !.devices = {d}] ELSE NoJob)

CallDelete(w, d) ==
  /\ "delete" \in Ops /\ work[w].pc = "idle"
  /\ \E code \in {"OK"} \cup (Faults \cap {"error", "lost"}) :
       /\ IF code = "error" THEN UNCHANGED <<rows, raced, unannounced>> ELSE RemoveRows({d})
       /\ AfterDelete(w, d, code)
       /\ IF code = "lost" THEN Doubt({d}) ELSE UNCHANGED doubted
  /\ UNCHANGED <<accounts, ziti, owner, attrs, member, orgs, events>>

-----------------------------------------------------------------------------
(* Outside: users are deleted with their devices' rows, Groups changes and *)
(* announces it, Authorization changes and does not, JetStream delivers    *)
(* again, the process is killed.                                           *)

UserDeleted(u) ==
  /\ "deleteUser" \in Ops /\ u \in accounts
  /\ accounts' = accounts \ {u}
  /\ RemoveRows(DevicesOf(u))
  /\ UNCHANGED <<ziti, owner, attrs, member, orgs, events, work, doubted>>

Change(u, g) ==
  /\ member' = IF <<u, g>> \in member THEN member \ {<<u, g>>} ELSE member \cup {<<u, g>>}
  /\ events' = events \cup {<<u, g>>}
  /\ UNCHANGED <<accounts, rows, ziti, owner, attrs, orgs, raced, unannounced, work, doubted>>

\* By whoever manages organizations, and by a DeleteUser that revokes them and
\* then fails to delete the row.
ChangeOrg(u, o) ==
  LET affected == DevicesOf(u) \X {g \in Groups : Org[g] = o}
  IN /\ orgs' = IF <<u, o>> \in orgs THEN orgs \ {<<u, o>>} ELSE orgs \cup {<<u, o>>}
     /\ unannounced' = (unannounced \ affected)
          \cup {x \in affected :
                  (x[2] \in attrs[x[1]]) # (<<u, x[2]>> \in member /\ <<u, o>> \notin orgs)}
     /\ UNCHANGED <<accounts, rows, ziti, owner, attrs, member, events, raced, work, doubted>>

\* The stream keeps the events, from before the run as well.
Redeliver(u, g) ==
  /\ "redeliver" \in Ops
  /\ events' = events \cup {<<u, g>>}
  /\ UNCHANGED <<accounts, rows, ziti, owner, attrs, member, orgs, raced, unannounced, work,
                 doubted>>

Crash(w) ==
  /\ "crash" \in Faults /\ work[w].pc # "idle"
  /\ Fail(w)
  /\ IF w \in Creators THEN Doubt(work[w].devices) ELSE UNCHANGED doubted
  /\ UNCHANGED <<accounts, rows, ziti, owner, attrs, member, orgs, raced, unannounced>>

-----------------------------------------------------------------------------
Init ==
  /\ accounts = Users
  /\ member = InitMember /\ orgs = InitOrgs
  /\ rows = InitRows /\ ziti = InitRows
  /\ owner = [d \in Devices |-> IF d \in InitRows THEN InitOwner[d] ELSE None]
  /\ attrs = [d \in Devices |->
                IF d \in InitRows THEN {g \in Groups : Listed(InitOwner[d], g)} ELSE {}]
  /\ events = {} /\ raced = {} /\ unannounced = {} /\ doubted = {}
  /\ work = [w \in Workers |-> NoJob]

Step(w) ==
  \/ ListOrganizations(w) \/ ListGroups(w) \/ ListDevices(w) \/ EndSync(w)
  \/ \E d \in Devices : Patch(w, d)
  \/ CreateIdentity(w) \/ CreateRow(w) \/ Unlink(w)

Consume == \E u \in Users, g \in Groups : TakeEvent(u, g)

Request(w) == (\E u \in accounts : CallCreate(w, u)) \/ (\E d \in rows : CallDelete(w, d))

Environment ==
  \/ \E u \in Users : UserDeleted(u)
  \/ \E u \in Users, g \in Groups :
       \/ (IF <<u, g>> \in member THEN "leave" ELSE "join") \in Ops /\ Change(u, g)
       \/ Redeliver(u, g)
  \/ \E u \in Users, o \in Orgs :
       (IF <<u, o>> \in orgs THEN "leaveOrg" ELSE "joinOrg") \in Ops /\ ChangeOrg(u, o)

Next ==
  \/ \E w \in Workers : Step(w) \/ Crash(w)
  \/ \E w \in Creators : Request(w)
  \/ Consume \/ StartPass \/ NextUser
  \/ Environment

Spec == Init /\ [][Next]_vars

\* The goroutine of w runs on, and no call that it repeats for the same event
\* or user fails every time, the patches of the broken devices excepted.
SyncFairness(w, candidates) ==
  /\ \A u \in Users :
       LET Same == work[w].user = u /\ work[w].candidates = candidates
       IN /\ SF_vars(Same /\ ListOrganizations(w) /\ work'[w].pc = "list")
          /\ \A rest \in SUBSET Pages \ {Pages} :
               SF_vars(Same /\ ListGroups(w) /\ work'[w].pc = "list" /\ work'[w].pages = rest)
          /\ SF_vars(Same /\ ListDevices(w) /\ work'[w].pc = "patch")
          /\ \A d \in Devices \ Broken : SF_vars(Same /\ Patch(w, d) /\ work'[w].pc = "patch")

\* The last call about a user, or about a device up to the first broken one.
Ends(w) == EndSync(w) \/ \E d \in Broken : Patch(w, d)

\* The timer keeps firing.
PassSpec ==
  /\ Spec /\ SyncFairness(Reconciler, {})
  /\ WF_vars(StartPass \/ NextUser \/ Ends(Reconciler))

\* JetStream delivers an event again until it is acknowledged.
EventSpec ==
  /\ Spec /\ WF_vars(Ends(Consumer))
  /\ \A g \in Groups :
       SyncFairness(Consumer, {g}) /\ \A u \in Users : SF_vars(TakeEvent(u, g))

-----------------------------------------------------------------------------
(* Properties.                                                             *)

\* The tables, services and jobs are well typed, a row belongs to a user that
\* exists (the foreign key of user_devices).
TypeOK ==
  /\ accounts \subseteq Users
  /\ rows \cup ziti \subseteq {d \in Devices : owner[d] # None}
  /\ owner \in [Devices -> Users \cup {None}]
  /\ \A d \in rows : owner[d] \in accounts
  /\ attrs \in [Devices -> SUBSET Groups]
  /\ member \cup events \cup Held \subseteq Users \X Groups
  /\ orgs \subseteq Users \X Orgs
  /\ raced \cup unannounced \subseteq rows \X Groups /\ doubted \subseteq Devices
  /\ work \in [Workers -> Jobs]

\* Attributes that differ from what a listing returns now have one of three
\* causes: an event not acknowledged yet, which will correct them; a pass or a
\* CreateDevice that read the groups before they changed; a change of the user's
\* organizations in Authorization, before the patch or since, for which there is
\* no event (the revocation of a DeleteUser that then fails is one).  Of changes
\* in Groups the event consumer leaves none, however its events are doubled,
\* reordered or interrupted (handleUserMembershipChange lists the groups again
\* for each event).
StaleAttributesAreExplained ==
  \A d \in rows \cap ziti, g \in Groups :
    \/ g \in attrs[d] <=> Listed(owner[d], g)
    \/ Pending(owner[d], g)
    \/ <<d, g>> \in raced \cup unannounced

\* No device is listed whose identity is gone, unless the answer of its insert
\* was lost: CreateDevice makes the identity first, DeleteDevice removes the row
\* first, and both stop there on an error.
RowsHaveIdentity == rows \ doubted \subseteq ziti

\* An identity without a row is still in the hands of a request, or its user was
\* deleted (the cascade does not reach Ziti), or a call about it ended in doubt:
\* a refused call alone leaves none (the compensation of CreateDevice).
NoIdentityLeaks ==
  \A d \in ziti \ (rows \cup doubted) :
    \/ \E w \in Creators : d \in work[w].devices
    \/ owner[d] \notin accounts

\* A pass stops at the first device that Ziti refuses to patch, and goes over
\* users, and over the devices of a user, in the order of their ids.
BehindBroken(d) ==
  \E b \in Broken \cap rows :
    \/ Rank[owner[b]] < Rank[owner[d]]
    \/ owner[b] = owner[d] /\ Rank[b] <= Rank[d]

\* A group that stays listed reaches every device that stays and is not behind a
\* device that can never be patched, by the reconciliation passes alone
\* (ReconcileAllUserDeviceGroupRoles), although passes fail now and then, events
\* go unread and no event announced the organization.
PassesAdd ==
  \A d \in Devices, g \in Groups :
    <>[](d \in rows /\ Listed(owner[d], g) /\ ~BehindBroken(d)) => <>[](g \in attrs[d])

\* The event consumer brings every device that stays to the memberships that
\* stay, removals included, although handling fails, events are delivered again
\* and Groups changes meanwhile; except for what a change of the user's
\* organizations left wrong, which waits for a later event about the group.
EventsSettle ==
  \A d \in Devices, g \in Groups :
    LET Settled == d \in rows /\ <<d, g>> \notin unannounced
    IN /\ <>[](Settled /\ Listed(owner[d], g)) => <>[](g \in attrs[d])
       /\ \/ <>[](Settled /\ <<owner[d], g>> \notin member)
          \/ <>[](Settled /\ <<owner[d], Org[g]>> \notin orgs)
          => <>[](g \notin attrs[d])

=============================================================================
