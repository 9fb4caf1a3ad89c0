--------------------------- MODULE DeviceLiveness ---------------------------
(***************************************************************************)
(* Device liveness polling (internal/server/device_liveness.go).  A timer  *)
(* in every replica runs PollDeviceLiveness: it lists the users, the       *)
(* devices of each, asks OpenZiti about every device and writes what it    *)
(* learned over the whole liveness part of the row.  Part of what it       *)
(* writes comes from the row as listed, which another replica, or the same *)
(* one a moment later, may have overtaken.                                 *)
(***************************************************************************)
EXTENDS Naturals, FiniteSets

CONSTANTS
  Users, Devices,
  Rank,     \* the order of the random ids of the devices, which listings follow
  Owner,    \* the user of each device
  Pollers,  \* the replicas: one timer each
  Broken,   \* devices OpenZiti never answers for
  MaxTime,  \* bound: the clock stops here
  Faults    \* failures of the run, out of {"error", "lost", "crash"}

ASSUME DevicesAssumption == Owner \in [Devices -> Users] /\ Broken \subseteq Devices
ASSUME RankAssumption ==
  /\ Rank \in [Devices -> Nat]
  /\ \A d, e \in Devices : Rank[d] = Rank[e] => d = e
ASSUME BoundsAssumption ==
  /\ MaxTime \in Nat \ {0}
  /\ Faults \subseteq {"error", "lost", "crash"}

VARIABLES
  fresh,     \* devices not created yet
  rows,      \* table user_devices: the devices it has
  row,       \* the liveness columns of each device
  enrolled,  \* OpenZiti: identities whose enrollment token was redeemed
  online,    \* OpenZiti: identities with an edge router connection
  clock,     \* time.Now, the same for all replicas
  poller     \* the pass of each replica

vars == <<fresh, rows, row, enrolled, online, clock, poller>>

nil == 0
Times == 0..MaxTime

Liveness ==
  [status : {"pending", "enrolled"}, connectivity : {"offline", "online"},
   enrolledAt : Times, lastSeenAt : Times]

Created == [status |-> "pending", connectivity |-> "offline", enrolledAt |-> nil, lastSeenAt |-> nil]

Listed == [device : Devices, was : Liveness]
Updates == [device : Devices, to : Liveness]

Passes ==
  [pc : {"idle", "users", "devices", "update"}, users : SUBSET Users,
   devices : SUBSET Listed, update : SUBSET Updates]

NoPass == [pc |-> "idle", users |-> {}, devices |-> {}, update |-> {}]

Becomes(p, pass) == poller' = [poller EXCEPT ![p] = pass]

-----------------------------------------------------------------------------
(* What OpenZiti says of a device, and the row it makes.                   *)

Status(d) == IF d \in enrolled THEN "enrolled" ELSE "pending"
Connectivity(d) == IF d \in online THEN "online" ELSE "offline"

\* Mutant of NothingToRecord: every device is written in every pass.
NeverNothing(d, was) == FALSE

\* Mutant of NothingToRecord: an online device is skipped as well.
NothingChanged(d, was) == was.status = Status(d) /\ was.connectivity = Connectivity(d)

NothingToRecord(d, was) ==
  /\ was.status = Status(d)
  /\ was.connectivity = Connectivity(d) /\ Connectivity(d) = "offline"

\* Mutant of EnrolledAt: the time of the last pass.
EnrolledAtNow(d, was) == IF Status(d) = "enrolled" THEN clock ELSE was.enrolledAt

\* Mutant of EnrolledAt: the time is never set.
EnrolledAtKept(d, was) == was.enrolledAt

EnrolledAt(d, was) ==
  IF was.enrolledAt = nil /\ Status(d) = "enrolled" THEN clock ELSE was.enrolledAt

\* Mutant of LastSeenAt: stamped with the time of the next pass.
LastSeenLocal(d, was) == IF Connectivity(d) = "online" THEN clock + 1 ELSE was.lastSeenAt

LastSeenAt(d, was) == IF Connectivity(d) = "online" THEN clock ELSE was.lastSeenAt

Observed(d, was) ==
  [status |-> Status(d), connectivity |-> Connectivity(d),
   enrolledAt |-> EnrolledAt(d, was), lastSeenAt |-> LastSeenAt(d, was)]

-----------------------------------------------------------------------------
(* One pass.  Its errors are logged; only a failing user list ends it.     *)

StartPass(p) ==
  /\ poller[p].pc = "idle"
  /\ Becomes(p, [NoPass EXCEPT !.pc = "users", !.users = Users])
  /\ UNCHANGED <<fresh, rows, row, enrolled, online, clock>>

\* The user list fails, or has no more pages.
EndPass(p) ==
  /\ poller[p].pc = "users"
  /\ poller[p].users = {} \/ "error" \in Faults
  /\ Becomes(p, NoPass)
  /\ UNCHANGED <<fresh, rows, row, enrolled, online, clock>>

\* listAllUserDevices: the rows are copied here and used until the pass is
\* through with the user.
DevicesListed(u) == {[device |-> d, was |-> row[d]] : d \in {e \in rows : Owner[e] = u}}

ListDevices(p, u) ==
  /\ poller[p].pc = "users" /\ u \in poller[p].users
  /\ \E devices \in {DevicesListed(u)} \cup (IF "error" \in Faults THEN {{}} ELSE {}) :
       Becomes(p, [poller[p] EXCEPT !.pc = "devices", !.users = @ \ {u}, !.devices = devices])
  /\ UNCHANGED <<fresh, rows, row, enrolled, online, clock>>

NextUser(p) ==
  /\ poller[p].pc = "devices" /\ poller[p].devices = {}
  /\ Becomes(p, [poller[p] EXCEPT !.pc = "users"])
  /\ UNCHANGED <<fresh, rows, row, enrolled, online, clock>>

Without(pass, d) == {x \in pass.devices : x.device # d}

\* Mutant of DeviceFails: its error ends the pass.
DeviceFailsAll(p, d) == Becomes(p, NoPass)

\* No answer, an enrollment state not known, or no write.
DeviceFails(p, d) ==
  Becomes(p, [poller[p] EXCEPT !.pc = "devices", !.devices = Without(poller[p], d), !.update = {}])

Poll(p, d) ==
  /\ poller[p].pc = "devices"
  /\ \E x \in poller[p].devices :
       /\ x.device = d /\ \A y \in poller[p].devices : Rank[d] <= Rank[y.device]
       /\ \/ d \notin Broken /\ NothingToRecord(d, x.was)
             /\ Becomes(p, [poller[p] EXCEPT !.devices = Without(poller[p], d)])
          \/ d \notin Broken /\ ~NothingToRecord(d, x.was)
             /\ Becomes(p, [poller[p] EXCEPT
                              !.pc = "update", !.update = {[device |-> d, to |-> Observed(d, x.was)]}])
          \/ (d \in Broken \/ "error" \in Faults \/ d \notin rows) /\ DeviceFails(p, d)
  /\ UNCHANGED <<fresh, rows, row, enrolled, online, clock>>

\* UpdateDeviceLiveness: no row, no write.
Update(p, d) ==
  /\ poller[p].pc = "update"
  /\ \E x \in poller[p].update :
       /\ x.device = d
       /\ \/ d \in rows
             /\ row' = [row EXCEPT ![d] = x.to]
             /\ \/ Becomes(p, [poller[p] EXCEPT
                                 !.pc = "devices", !.devices = Without(poller[p], d), !.update = {}])
                \/ "lost" \in Faults /\ DeviceFails(p, d)
          \/ (d \notin rows \/ "error" \in Faults) /\ DeviceFails(p, d) /\ UNCHANGED row
  /\ UNCHANGED <<fresh, rows, enrolled, online, clock>>

Crash(p) ==
  /\ "crash" \in Faults /\ poller[p].pc # "idle"
  /\ Becomes(p, NoPass)
  /\ UNCHANGED <<fresh, rows, row, enrolled, online, clock>>

-----------------------------------------------------------------------------
(* CreateDevice and DeleteDevice, OpenZiti and time.                       *)

CreateDevice(d) ==
  /\ d \in fresh
  /\ fresh' = fresh \ {d} /\ rows' = rows \cup {d}
  /\ UNCHANGED <<row, enrolled, online, clock, poller>>

DeleteDevice(d) ==
  /\ rows' = rows \ {d} /\ d \in rows
  /\ UNCHANGED <<fresh, row, enrolled, online, clock, poller>>

\* Redeeming the token is final.
Enroll(d) ==
  /\ d \notin fresh \cup enrolled
  /\ enrolled' = enrolled \cup {d}
  /\ UNCHANGED <<fresh, rows, row, online, clock, poller>>

Connection(d) ==
  /\ d \in enrolled
  /\ online' = IF d \in online THEN online \ {d} ELSE online \cup {d}
  /\ UNCHANGED <<fresh, rows, row, enrolled, clock, poller>>

Tick ==
  /\ clock < MaxTime /\ clock' = clock + 1
  /\ UNCHANGED <<fresh, rows, row, enrolled, online, poller>>

-----------------------------------------------------------------------------
Init ==
  /\ fresh = Devices /\ rows = {}
  /\ row = [d \in Devices |-> Created]
  /\ enrolled = {} /\ online = {}
  /\ clock = 1
  /\ poller = [p \in Pollers |-> NoPass]

Pass(p) ==
  \/ StartPass(p) \/ EndPass(p) \/ NextUser(p)
  \/ \E u \in Users : ListDevices(p, u)
  \/ \E d \in Devices : Poll(p, d) \/ Update(p, d)

Environment ==
  \/ \E d \in Devices : CreateDevice(d) \/ DeleteDevice(d) \/ Enroll(d) \/ Connection(d)
  \/ Tick

Next == (\E p \in Pollers : Pass(p) \/ Crash(p)) \/ Environment

Spec == Init /\ [][Next]_vars

\* The timer of a replica keeps firing and its passes run on, without being
\* killed every time at the same place; the calls about a device that is not
\* broken, and the lists, do not fail every time.
PollFairness(p) ==
  /\ WF_vars(StartPass(p)) /\ WF_vars(NextUser(p)) /\ WF_vars(EndPass(p))
  /\ \A u \in Users :
       SF_vars(ListDevices(p, u) /\ poller'[p].devices = DevicesListed(u))
  /\ \A d \in Devices :
       /\ SF_vars(Poll(p, d)) /\ SF_vars(Update(p, d))
       /\ SF_vars(Poll(p, d) /\ poller'[p].pc = "update")
       /\ SF_vars(Update(p, d) /\ \E x \in poller[p].update : row'[d] = x.to)

FairSpec == Spec /\ \A p \in Pollers : PollFairness(p)

-----------------------------------------------------------------------------
(* Properties.                                                             *)

\* The table, OpenZiti and the passes are well typed; only enrolled identities
\* are online.
TypeOK ==
  /\ fresh \subseteq Devices /\ rows \subseteq Devices \ fresh
  /\ row \in [Devices -> Liveness]
  /\ enrolled \subseteq Devices \ fresh /\ online \subseteq enrolled
  /\ clock \in Times \ {nil}
  /\ poller \in [Pollers -> Passes]

\* The columns of a row agree although they come from different passes: the
\* status says enrolled exactly when there is an enrollment time, a device
\* shown online has a last-seen time, and only an enrolled one was ever seen.
RecordsAgree ==
  \A d \in rows :
    /\ row[d].status = "enrolled" <=> row[d].enrolledAt # nil
    /\ row[d].connectivity = "online" => row[d].lastSeenAt # nil
    /\ row[d].lastSeenAt # nil => row[d].enrolledAt # nil

\* A device recorded as enrolled is never recorded as pending again, however
\* late the write of a pass that asked before the enrollment: such a pass has
\* nothing to record (pollDeviceLiveness, the early return).
EnrollmentKept ==
  [][\A d \in Devices : row[d].status = "enrolled" => row'[d].status = "enrolled"]_vars

\* One replica never moves an enrollment time once set, and never moves a
\* last-seen time back, whatever fails or restarts in between.
TimesAdvance ==
  [][\A d \in Devices :
       /\ row[d].enrolledAt # nil => row'[d].enrolledAt = row[d].enrolledAt
       /\ row'[d].lastSeenAt >= row[d].lastSeenAt]_vars

\* What settles in OpenZiti gets recorded and stays recorded, for every device
\* OpenZiti answers for, although it answers for others never ("without polling
\* they stay pending forever", and one failing device does not stop a pass).
SettledIsRecorded ==
  \A d \in Devices \ Broken :
    /\ <>[](d \in rows /\ d \in enrolled) => <>[](row[d].status = "enrolled")
    /\ <>[](d \in rows /\ d \in online) => <>[](row[d].connectivity = "online")
    /\ <>[](d \in rows /\ d \notin online) => <>[](row[d].connectivity = "offline")

\* While a device stays online, its last-seen time follows the clock ("an
\* online one is written every pass so last_seen_at keeps advancing").
SeenKeepsAdvancing ==
  \A d \in Devices \ Broken :
    <>[](d \in rows /\ d \in online /\ clock = MaxTime) => <>[](row[d].lastSeenAt = MaxTime)

=============================================================================
