------------------------ MODULE DeviceLivenessProofs ------------------------
(***************************************************************************)
(* Theorems about DeviceLiveness, for any number of users, devices and     *)
(* replicas, any clock bound and any faults.                               *)
(*                                                                         *)
(* A pass writes columns it copied from the row long ago, so what is true  *)
(* of the table has to be true of every copy under way: the inductive      *)
(* invariant says of the rows, of the rows as listed and of the updates    *)
(* not written yet that their columns agree and that a status "enrolled"   *)
(* is founded on an identity that is enrolled.                             *)
(***************************************************************************)
EXTENDS DeviceLiveness, TLAPS

Agrees(l) ==
  /\ l.status = "enrolled" <=> l.enrolledAt # nil
  /\ l.connectivity = "online" => l.lastSeenAt # nil
  /\ l.lastSeenAt # nil => l.enrolledAt # nil

Founded(d, l) == l.status = "enrolled" => d \in enrolled

Sound(d, l) == Agrees(l) /\ Founded(d, l)

\* Such an update says enrolled: a device not enrolled has nothing to record.
Forward(d, l) == Sound(d, l) /\ l.status = "enrolled"

CopiesSound ==
  /\ \A d \in Devices : Sound(d, row[d])
  /\ \A p \in Pollers : \A x \in poller[p].devices : Sound(x.device, x.was)
  /\ \A p \in Pollers : \A x \in poller[p].update : Forward(x.device, x.to)

(***************************************************************************)
(* With one replica nobody overtakes a pass: what it listed is what the    *)
(* table has, and an update moves the times of the row only forward.       *)
(***************************************************************************)
OnePoller == \A p, q \in Pollers : p = q

Advances(from, to) ==
  /\ from.enrolledAt # nil => to.enrolledAt = from.enrolledAt
  /\ to.lastSeenAt >= from.lastSeenAt

CopiesCurrent ==
  /\ \A d \in Devices : row[d].lastSeenAt <= clock
  /\ \A p \in Pollers : \A x \in poller[p].devices : x.was = row[x.device]
  /\ \A p \in Pollers : \A x \in poller[p].update :
       Advances(row[x.device], x.to) /\ x.to.lastSeenAt <= clock

-----------------------------------------------------------------------------
(* What a step of a pass does, in four forms.                              *)

Forgets(p) ==
  \E pass \in Passes :
    /\ Becomes(p, pass)
    /\ pass.devices \subseteq poller[p].devices
    /\ pass.update \subseteq poller[p].update

Lists(p, u) ==
  \E pass \in Passes :
    /\ Becomes(p, pass)
    /\ pass.devices \subseteq DevicesListed(u)
    /\ pass.update = poller[p].update

Records(p, x) ==
  \E pass \in Passes :
    /\ ~NothingToRecord(x.device, x.was)
    /\ Becomes(p, pass)
    /\ pass.devices = poller[p].devices
    /\ pass.update = {[device |-> x.device, to |-> Observed(x.device, x.was)]}

Writes(p, x) ==
  \E pass \in Passes :
    /\ row' = [row EXCEPT ![x.device] = x.to]
    /\ Becomes(p, pass)
    /\ pass.devices \subseteq Without(poller[p], x.device)
    /\ pass.update = {}

PassEffect(p) ==
  \/ UNCHANGED row /\ Forgets(p)
  \/ \E u \in Users : UNCHANGED row /\ Lists(p, u)
  \/ \E x \in poller[p].devices : UNCHANGED row /\ Records(p, x)
  \/ \E x \in poller[p].update : Writes(p, x)

LEMMA PollerBecomes ==
  ASSUME TypeOK, NEW p \in Pollers, NEW pass \in Passes, Becomes(p, pass)
  PROVE  /\ poller' \in [Pollers -> Passes]
         /\ poller'[p] = pass
         /\ \A q \in Pollers \ {p} : poller'[q] = poller[q]
BY DEF TypeOK, Becomes

LEMMA NoPassType == NoPass \in Passes
BY DEF NoPass, Passes

LEMMA ListedType ==
  ASSUME TypeOK, NEW u \in Users
  PROVE  DevicesListed(u) \subseteq Listed
BY DEF TypeOK, DevicesListed, Listed

LEMMA ObservedType ==
  ASSUME TypeOK, NEW d \in Devices, NEW was \in Liveness
  PROVE  Observed(d, was) \in Liveness
BY DEF TypeOK, Observed, Status, Connectivity, EnrolledAt, LastSeenAt, Liveness

LEMMA FailureForgets ==
  ASSUME TypeOK, NEW p \in Pollers, NEW d, DeviceFails(p, d)
  PROVE  /\ Forgets(p)
         /\ \E pass \in Passes : /\ Becomes(p, pass) /\ pass.update = {}
                                 /\ pass.devices \subseteq Without(poller[p], d)
<1> DEFINE pass == [poller[p] EXCEPT !.pc = "devices", !.devices = Without(poller[p], d),
                                     !.update = {}]
<1>1. pass \in Passes /\ pass.update = {} /\ pass.devices = Without(poller[p], d)
  BY DEF TypeOK, Passes, Without
<1>2. Without(poller[p], d) \subseteq poller[p].devices
  BY DEF Without
<1>3. Becomes(p, pass)
  BY DEF DeviceFails
<1> HIDE DEF pass
<1> QED BY <1>1, <1>2, <1>3 DEF Forgets

LEMMA PollEffect ==
  ASSUME TypeOK, NEW p \in Pollers, NEW d \in Devices, Poll(p, d)
  PROVE  PassEffect(p)
<1>1. UNCHANGED row /\ poller[p] \in Passes
  BY DEF Poll, TypeOK
<1>2. CASE DeviceFails(p, d)
  BY <1>1, <1>2, FailureForgets DEF PassEffect
<1>3. CASE Becomes(p, [poller[p] EXCEPT !.devices = Without(poller[p], d)])
  <2> DEFINE pass == [poller[p] EXCEPT !.devices = Without(poller[p], d)]
  <2>1. pass \in Passes /\ pass.devices \subseteq poller[p].devices /\ pass.update = poller[p].update
    BY <1>1 DEF Passes, Without
  <2>2. Becomes(p, pass)
    BY <1>3
  <2> HIDE DEF pass
  <2> QED BY <1>1, <2>1, <2>2 DEF PassEffect, Forgets
<1>4. ASSUME NEW x \in poller[p].devices, x.device = d, ~NothingToRecord(d, x.was),
             Becomes(p, [poller[p] EXCEPT
                           !.pc = "update", !.update = {[device |-> d, to |-> Observed(d, x.was)]}])
      PROVE  PassEffect(p)
  <2> DEFINE u == [device |-> d, to |-> Observed(d, x.was)]
             pass == [poller[p] EXCEPT !.pc = "update", !.update = {u}]
  <2>1. x.was \in Liveness
    BY <1>1 DEF Passes, Listed
  <2>2. u \in Updates
    BY <2>1, ObservedType DEF Updates
  <2>3. Becomes(p, pass) /\ u = [device |-> x.device, to |-> Observed(x.device, x.was)]
    BY <1>4
  <2> HIDE DEF u
  <2>4. pass \in Passes /\ pass.devices = poller[p].devices /\ pass.update = {u}
    BY <1>1, <2>2 DEF Passes
  <2> HIDE DEF pass
  <2>5. Records(p, x)
    BY <1>4, <2>3, <2>4 DEF Records
  <2> QED BY <1>1, <2>5 DEF PassEffect
<1> QED BY <1>2, <1>3, <1>4 DEF Poll

LEMMA UpdateEffect ==
  ASSUME TypeOK, NEW p \in Pollers, NEW d \in Devices, Update(p, d)
  PROVE  PassEffect(p)
<1>1. PICK x \in poller[p].update :
        /\ x.device = d
        /\ \/ /\ row' = [row EXCEPT ![d] = x.to]
              /\ \/ Becomes(p, [poller[p] EXCEPT
                                  !.pc = "devices", !.devices = Without(poller[p], d), !.update = {}])
                 \/ DeviceFails(p, d)
           \/ DeviceFails(p, d) /\ UNCHANGED row
  BY DEF Update
<1>2. DeviceFails(p, d)
  BY <1>1 DEF DeviceFails
<1>3. CASE UNCHANGED row
  BY <1>2, <1>3, FailureForgets DEF PassEffect
<1>4. CASE row' = [row EXCEPT ![d] = x.to]
  <2>1. PICK pass \in Passes : /\ Becomes(p, pass) /\ pass.update = {}
                               /\ pass.devices \subseteq Without(poller[p], d)
    BY <1>2, FailureForgets
  <2>2. Writes(p, x)
    BY <1>1, <1>4, <2>1 DEF Writes
  <2> QED BY <2>2 DEF PassEffect
<1> QED BY <1>1, <1>3, <1>4

LEMMA PassEffects ==
  ASSUME TypeOK, NEW p \in Pollers, Pass(p) \/ Crash(p)
  PROVE  PassEffect(p) /\ UNCHANGED <<fresh, rows, enrolled, online, clock>>
<1>1. UNCHANGED <<fresh, rows, enrolled, online, clock>>
  BY DEF Pass, StartPass, EndPass, NextUser, ListDevices, Poll, Update, Crash
<1>2. poller[p] \in Passes
  BY DEF TypeOK
<1>3. CASE StartPass(p)
  <2> DEFINE pass == [NoPass EXCEPT !.pc = "users", !.users = Users]
  <2>1. pass \in Passes /\ pass.devices = {} /\ pass.update = {}
    BY DEF NoPass, Passes
  <2>2. Becomes(p, pass) /\ UNCHANGED row
    BY <1>3 DEF StartPass
  <2> HIDE DEF pass
  <2> QED BY <1>1, <2>1, <2>2 DEF PassEffect, Forgets
<1>4. CASE EndPass(p) \/ Crash(p)
  BY <1>1, <1>4, NoPassType DEF EndPass, Crash, PassEffect, Forgets, NoPass
<1>5. CASE NextUser(p)
  <2> DEFINE pass == [poller[p] EXCEPT !.pc = "users"]
  <2>1. pass \in Passes /\ pass.devices = poller[p].devices /\ pass.update = poller[p].update
    BY <1>2 DEF Passes
  <2>2. Becomes(p, pass) /\ UNCHANGED row
    BY <1>5 DEF NextUser
  <2> HIDE DEF pass
  <2> QED BY <1>1, <2>1, <2>2 DEF PassEffect, Forgets
<1>6. ASSUME NEW u \in Users, ListDevices(p, u) PROVE PassEffect(p)
  <2>1. PICK devices \in {DevicesListed(u)} \cup (IF "error" \in Faults THEN {{}} ELSE {}) :
          Becomes(p, [poller[p] EXCEPT !.pc = "devices", !.users = @ \ {u}, !.devices = devices])
    BY <1>6 DEF ListDevices
  <2> DEFINE pass == [poller[p] EXCEPT !.pc = "devices", !.users = @ \ {u}, !.devices = devices]
  <2>2. devices \subseteq DevicesListed(u) /\ devices \subseteq Listed
    BY <2>1, ListedType
  <2>3. pass \in Passes /\ pass.devices = devices /\ pass.update = poller[p].update
    BY <1>2, <2>2 DEF Passes
  <2>4. Becomes(p, pass) /\ UNCHANGED row
    BY <1>6, <2>1 DEF ListDevices
  <2> HIDE DEF pass
  <2> QED BY <2>2, <2>3, <2>4 DEF PassEffect, Lists
<1> QED
  BY <1>1, <1>3, <1>4, <1>5, <1>6, PollEffect, UpdateEffect DEF Pass

-----------------------------------------------------------------------------
(* Type correctness.                                                       *)

LEMMA PassTyped ==
  ASSUME TypeOK, NEW p \in Pollers, Pass(p) \/ Crash(p)
  PROVE  TypeOK'
<1>1. PassEffect(p) /\ UNCHANGED <<fresh, rows, enrolled, online, clock>>
  BY PassEffects
<1>2. poller' \in [Pollers -> Passes]
  BY <1>1, PollerBecomes DEF PassEffect, Forgets, Lists, Records, Writes
<1>3. row' \in [Devices -> Liveness]
  <2>1. CASE UNCHANGED row
    BY <2>1 DEF TypeOK
  <2>2. ASSUME NEW x \in poller[p].update, Writes(p, x) PROVE row' \in [Devices -> Liveness]
    <3>1. x \in Updates
      BY DEF TypeOK, Passes
    <3> QED BY <2>2, <3>1 DEF TypeOK, Writes, Updates
  <2> QED BY <1>1, <2>1, <2>2 DEF PassEffect
<1> QED BY <1>1, <1>2, <1>3 DEF TypeOK

LEMMA InitTyped == Init => TypeOK
<1> SUFFICES ASSUME Init PROVE TypeOK
  OBVIOUS
<1>1. 1 \in Times \ {nil} /\ 0 \in Times
  BY BoundsAssumption DEF Times, nil
<1>2. Created \in Liveness
  BY <1>1 DEF Created, Liveness, nil
<1> QED BY <1>1, <1>2, NoPassType DEF Init, TypeOK

LEMMA NextTyped == TypeOK /\ [Next]_vars => TypeOK'
<1> SUFFICES ASSUME TypeOK, [Next]_vars PROVE TypeOK'
  OBVIOUS
<1>1. CASE \E p \in Pollers : Pass(p) \/ Crash(p)
  BY <1>1, PassTyped
<1>2. CASE \E d \in Devices : CreateDevice(d) \/ DeleteDevice(d) \/ Enroll(d) \/ Connection(d)
  BY <1>2 DEF TypeOK, CreateDevice, DeleteDevice, Enroll, Connection
<1>3. CASE Tick
  BY <1>3, BoundsAssumption DEF TypeOK, Tick, Times, nil
<1>4. CASE UNCHANGED vars
  BY <1>4 DEF vars, TypeOK
<1> QED BY <1>1, <1>2, <1>3, <1>4 DEF Next, Environment

\* The table, the clock, OpenZiti and the copies the passes hold stay well
\* typed; only enrolled identities are online.
THEOREM TypeCorrect == Spec => []TypeOK
BY InitTyped, NextTyped, PTL DEF Spec

-----------------------------------------------------------------------------
(* The columns of a row agree.                                             *)

\* What OpenZiti says now, merged into a sound row, makes a sound row.
LEMMA ObservedSound ==
  ASSUME TypeOK, NEW d \in Devices, NEW was \in Liveness, Sound(d, was)
  PROVE  Sound(d, Observed(d, was))
BY DEF TypeOK, Sound, Agrees, Founded, Observed, Status, Connectivity, EnrolledAt,
       LastSeenAt, Liveness, Times, nil

\* When there is something to record, the device is enrolled.
LEMMA RecordsForward ==
  ASSUME TypeOK, NEW d \in Devices, NEW was \in Liveness, Sound(d, was),
         ~NothingToRecord(d, was)
  PROVE  Observed(d, was).status = "enrolled"
<1>1. CASE d \in enrolled
  BY <1>1 DEF Observed, Status
<1>2. CASE d \notin enrolled
  <2>1. was.status = "pending" /\ was.connectivity = "offline"
    BY <1>2 DEF Sound, Agrees, Founded, Liveness
  <2>2. Status(d) = "pending" /\ Connectivity(d) = "offline"
    BY <1>2 DEF TypeOK, Status, Connectivity
  <2> QED BY <2>1, <2>2 DEF NothingToRecord
<1> QED BY <1>1, <1>2

\* A status stays founded: nobody is unenrolled.
LEMMA SoundKept ==
  ASSUME NEW d, NEW l, enrolled \subseteq enrolled', Sound(d, l)
  PROVE  Sound(d, l)'
BY DEF Sound, Agrees, Founded

LEMMA PassSound ==
  ASSUME TypeOK, CopiesSound, NEW p \in Pollers, PassEffect(p), UNCHANGED enrolled
  PROVE  CopiesSound'
<1>1. poller[p] \in Passes
  BY DEF TypeOK
<1>2. SUFFICES /\ \A d \in Devices : Sound(d, row'[d])
               /\ \A x \in poller'[p].devices : Sound(x.device, x.was)
               /\ \A x \in poller'[p].update : Forward(x.device, x.to)
               /\ \A q \in Pollers \ {p} : poller'[q] = poller[q]
  BY DEF CopiesSound, Forward, Sound, Agrees, Founded
<1>3. ASSUME UNCHANGED row
      PROVE  \A d \in Devices : Sound(d, row'[d])
  BY <1>3 DEF CopiesSound
<1>4. CASE UNCHANGED row /\ Forgets(p)
  BY <1>3, <1>4, PollerBecomes DEF Forgets, CopiesSound
<1>5. ASSUME NEW u \in Users, UNCHANGED row, Lists(p, u)
      PROVE  /\ \A x \in poller'[p].devices : Sound(x.device, x.was)
             /\ \A x \in poller'[p].update : Forward(x.device, x.to)
             /\ \A q \in Pollers \ {p} : poller'[q] = poller[q]
  <2>1. \A x \in DevicesListed(u) : Sound(x.device, x.was)
    BY DEF DevicesListed, TypeOK, CopiesSound
  <2> QED BY <1>5, <2>1, PollerBecomes DEF Lists, CopiesSound
<1>6. ASSUME NEW x \in poller[p].devices, UNCHANGED row, Records(p, x)
      PROVE  /\ \A y \in poller'[p].devices : Sound(y.device, y.was)
             /\ \A y \in poller'[p].update : Forward(y.device, y.to)
             /\ \A q \in Pollers \ {p} : poller'[q] = poller[q]
  <2> DEFINE to == Observed(x.device, x.was)
  <2>1. x.device \in Devices /\ x.was \in Liveness
    BY <1>1 DEF Passes, Listed
  <2>2. Sound(x.device, x.was)
    BY DEF CopiesSound
  <2>3. Forward(x.device, to)
    BY <1>6, <2>1, <2>2, ObservedSound, RecordsForward DEF Records, Forward
  <2> HIDE DEF to
  <2>4. PICK pass \in Passes : /\ Becomes(p, pass) /\ pass.devices = poller[p].devices
                               /\ pass.update = {[device |-> x.device, to |-> to]}
    BY <1>6 DEF Records, to
  <2> QED BY <2>3, <2>4, PollerBecomes DEF CopiesSound
<1>7. ASSUME NEW x \in poller[p].update, Writes(p, x)
      PROVE  /\ \A d \in Devices : Sound(d, row'[d])
             /\ \A y \in poller'[p].devices : Sound(y.device, y.was)
             /\ \A y \in poller'[p].update : Forward(y.device, y.to)
             /\ \A q \in Pollers \ {p} : poller'[q] = poller[q]
  <2>1. Sound(x.device, x.to)
    BY DEF CopiesSound, Forward
  <2>2. \A d \in Devices : Sound(d, row'[d])
    BY <1>7, <2>1 DEF Writes, TypeOK, CopiesSound
  <2> QED BY <1>7, <2>2, PollerBecomes DEF Writes, Without, CopiesSound
<1> QED BY <1>3, <1>4, <1>5, <1>6, <1>7 DEF PassEffect

LEMMA NextSound == TypeOK /\ CopiesSound /\ [Next]_vars => CopiesSound'
<1> SUFFICES ASSUME TypeOK, CopiesSound, [Next]_vars PROVE CopiesSound'
  OBVIOUS
<1>1. CASE \E p \in Pollers : Pass(p) \/ Crash(p)
  BY <1>1, PassSound, PassEffects
<1>2. ASSUME UNCHANGED <<row, poller>>, enrolled \subseteq enrolled'
      PROVE  CopiesSound'
  BY <1>2 DEF CopiesSound, Forward, Sound, Agrees, Founded
<1>3. CASE Environment \/ UNCHANGED vars
  BY <1>2, <1>3
  DEF Environment, CreateDevice, DeleteDevice, Enroll, Connection, Tick, vars
<1> QED BY <1>1, <1>3 DEF Next

LEMMA Copies == Spec => []CopiesSound
<1>1. Init => CopiesSound
  BY DEF Init, CopiesSound, Sound, Agrees, Founded, Created, NoPass, nil
<1> QED BY <1>1, NextSound, TypeCorrect, PTL DEF Spec

\* Although the columns of a row are written together but learned in different
\* passes of different replicas: status and enrollment time agree, online
\* implies a last-seen time, and that an enrollment time.
THEOREM ColumnsAgree == Spec => []RecordsAgree
<1>1. TypeOK /\ CopiesSound => RecordsAgree
  BY DEF TypeOK, CopiesSound, Sound, Agrees, RecordsAgree
<1> QED BY <1>1, TypeCorrect, Copies, PTL

\* No pass, of whatever replica and however late it writes, records a device as
\* pending after it was recorded as enrolled.
THEOREM EnrollmentStays == Spec => EnrollmentKept
<1>1. ASSUME TypeOK, CopiesSound, [Next]_vars, NEW d \in Devices, row[d].status = "enrolled"
      PROVE  row'[d].status = "enrolled"
  <2>1. ASSUME NEW p \in Pollers, Pass(p) \/ Crash(p) PROVE row'[d].status = "enrolled"
    <3>1. CASE UNCHANGED row
      BY <1>1, <3>1
    <3>2. ASSUME NEW x \in poller[p].update, Writes(p, x) PROVE row'[d].status = "enrolled"
      <4>1. x.to.status = "enrolled"
        BY <1>1 DEF CopiesSound, Forward
      <4> QED BY <1>1, <3>2, <4>1 DEF Writes, TypeOK
    <3> QED BY <1>1, <2>1, <3>1, <3>2, PassEffects DEF PassEffect
  <2>2. CASE Environment \/ UNCHANGED vars
    BY <1>1, <2>2 DEF Environment, CreateDevice, DeleteDevice, Enroll, Connection, Tick, vars
  <2> QED BY <1>1, <2>1, <2>2 DEF Next
<1>2. TypeOK /\ CopiesSound /\ [Next]_vars
        => [\A d \in Devices : row[d].status = "enrolled" => row'[d].status = "enrolled"]_vars
  BY <1>1
<1> QED BY <1>2, TypeCorrect, Copies, PTL DEF Spec, EnrollmentKept

-----------------------------------------------------------------------------
(* One replica moves the times forward.                                    *)

LEMMA ObservedAdvances ==
  ASSUME TypeOK, NEW d \in Devices, NEW was \in Liveness, was.lastSeenAt <= clock
  PROVE  /\ Advances(was, Observed(d, was))
         /\ Observed(d, was).lastSeenAt <= clock
BY DEF TypeOK, Advances, Observed, EnrolledAt, LastSeenAt, Liveness, Times, nil

LEMMA AloneCurrent ==
  ASSUME OnePoller, TypeOK, CopiesCurrent, NEW p \in Pollers, PassEffect(p), UNCHANGED clock
  PROVE  CopiesCurrent'
<1>1. poller[p] \in Passes /\ row \in [Devices -> Liveness]
  BY DEF TypeOK
<1>2. SUFFICES /\ \A d \in Devices : row'[d].lastSeenAt <= clock
               /\ \A x \in poller'[p].devices : x.was = row'[x.device]
               /\ \A x \in poller'[p].update :
                    Advances(row'[x.device], x.to) /\ x.to.lastSeenAt <= clock
  <2>1. \A q \in Pollers : q = p
    BY DEF OnePoller
  <2> QED BY <2>1, <1>2 DEF CopiesCurrent, Advances
<1>3. CASE UNCHANGED row /\ Forgets(p)
  BY <1>3, PollerBecomes DEF Forgets, CopiesCurrent
<1>4. CASE UNCHANGED row /\ \E u \in Users : Lists(p, u)
  <2>1. PICK u \in Users : Lists(p, u)
    BY <1>4
  <2>2. \A x \in DevicesListed(u) : x.was = row[x.device]
    BY DEF DevicesListed
  <2> QED BY <1>4, <2>1, <2>2, PollerBecomes DEF Lists, CopiesCurrent
<1>5. ASSUME NEW x \in poller[p].devices, UNCHANGED row, Records(p, x)
      PROVE  /\ \A y \in poller'[p].devices : y.was = row[y.device]
             /\ \A y \in poller'[p].update :
                  Advances(row[y.device], y.to) /\ y.to.lastSeenAt <= clock
  <2> DEFINE to == Observed(x.device, x.was)
  <2>1. x.device \in Devices /\ x.was \in Liveness
    BY <1>1 DEF Passes, Listed
  <2>2. x.was = row[x.device] /\ x.was.lastSeenAt <= clock
    BY <2>1 DEF CopiesCurrent
  <2>3. Advances(row[x.device], to) /\ to.lastSeenAt <= clock
    BY <2>1, <2>2, ObservedAdvances
  <2> HIDE DEF to
  <2>4. PICK pass \in Passes : /\ Becomes(p, pass) /\ pass.devices = poller[p].devices
                               /\ pass.update = {[device |-> x.device, to |-> to]}
    BY <1>5 DEF Records, to
  <2> QED BY <2>3, <2>4, PollerBecomes DEF CopiesCurrent
<1>6. ASSUME NEW x \in poller[p].update, Writes(p, x)
      PROVE  /\ \A d \in Devices : row'[d].lastSeenAt <= clock
             /\ \A y \in poller'[p].devices : y.was = row'[y.device]
             /\ poller'[p].update = {}
  <2>1. PICK pass \in Passes : /\ row' = [row EXCEPT ![x.device] = x.to]
                               /\ Becomes(p, pass) /\ pass.update = {}
                               /\ pass.devices \subseteq Without(poller[p], x.device)
    BY <1>6 DEF Writes
  <2>2. \A d \in Devices : row'[d] = IF d = x.device THEN x.to ELSE row[d]
    BY <1>1, <2>1
  <2>3. \A d \in Devices : row'[d].lastSeenAt <= clock
    BY <2>2 DEF CopiesCurrent
  <2>4. \A y \in poller[p].devices : y.device \in Devices
    BY <1>1 DEF Passes, Listed
  <2> QED BY <2>1, <2>2, <2>3, <2>4, PollerBecomes DEF Without, CopiesCurrent
<1> QED BY <1>3, <1>4, <1>5, <1>6 DEF PassEffect, CopiesCurrent

LEMMA NextCurrent == OnePoller /\ TypeOK /\ CopiesCurrent /\ [Next]_vars => CopiesCurrent'
<1> SUFFICES ASSUME OnePoller, TypeOK, CopiesCurrent, [Next]_vars PROVE CopiesCurrent'
  OBVIOUS
<1>1. CASE \E p \in Pollers : Pass(p) \/ Crash(p)
  BY <1>1, AloneCurrent, PassEffects
<1>2. CASE UNCHANGED <<row, poller, clock>>
  BY <1>2 DEF CopiesCurrent, Advances
<1>3. CASE Tick
  <2>1. \A t \in Times : t <= clock => t <= clock'
    BY <1>3 DEF Tick, TypeOK, Times
  <2>2. \A d \in Devices : row[d].lastSeenAt \in Times
    BY DEF TypeOK, Liveness
  <2>3. \A p \in Pollers : \A x \in poller[p].update : x.to.lastSeenAt \in Times
    BY DEF TypeOK, Passes, Updates, Liveness
  <2> QED BY <1>3, <2>1, <2>2, <2>3 DEF Tick, CopiesCurrent, Advances
<1> QED
  BY <1>1, <1>2, <1>3
  DEF Next, Environment, CreateDevice, DeleteDevice, Enroll, Connection, vars

\* With one replica, whatever fails or restarts in between, an enrollment time
\* once recorded stays, and a last-seen time never moves back.  With two it may:
\* a pass that listed the row before another one wrote it still writes.
THEOREM AloneTimesAdvance == ASSUME OnePoller PROVE Spec => TimesAdvance
<1>1. Init => CopiesCurrent
  BY DEF Init, CopiesCurrent, Created, NoPass, nil
<1>2. TypeOK /\ CopiesCurrent /\ [Next]_vars => CopiesCurrent'
  BY NextCurrent
<1>3. ASSUME TypeOK, CopiesCurrent, [Next]_vars, NEW d \in Devices
      PROVE  Advances(row[d], row'[d])
  <2>1. CASE UNCHANGED row
    BY <1>3, <2>1 DEF Advances, TypeOK, Liveness, Times
  <2>2. ASSUME NEW p \in Pollers, NEW x \in poller[p].update, Writes(p, x)
        PROVE  Advances(row[d], row'[d])
    <3>1. row'[d] = IF d = x.device THEN x.to ELSE row[d]
      BY <1>3, <2>2 DEF Writes, TypeOK
    <3>2. Advances(row[x.device], x.to)
      BY <1>3 DEF CopiesCurrent
    <3>3. Advances(row[d], row[d])
      BY <1>3 DEF Advances, TypeOK, Liveness, Times
    <3> QED BY <3>1, <3>2, <3>3
  <2>3. CASE \E p \in Pollers : Pass(p) \/ Crash(p)
    BY <1>3, <2>1, <2>2, <2>3, PassEffects DEF PassEffect
  <2> QED
    BY <1>3, <2>1, <2>3
    DEF Next, Environment, CreateDevice, DeleteDevice, Enroll, Connection, Tick, vars
<1>4. TypeOK /\ CopiesCurrent /\ [Next]_vars
        => [\A d \in Devices :
              /\ row[d].enrolledAt # nil => row'[d].enrolledAt = row[d].enrolledAt
              /\ row'[d].lastSeenAt >= row[d].lastSeenAt]_vars
  BY <1>3 DEF Advances
<1> QED BY <1>1, <1>2, <1>4, TypeCorrect, PTL DEF Spec, TimesAdvance
=============================================================================
