------------------------- MODULE UserAccountsProofs -------------------------
(* Theorems about UserAccounts, for every value of its constants.          *)
EXTENDS UserAccounts, TLAPS

-----------------------------------------------------------------------------
(* Type correctness.  It is inductive together with what a request holds   *)
(* at each pc.                                                             *)

LiveUsed == \A u \in users : u.id \in used

HasSubject == {"select", "insert", "reselect", "insertNew"}
HasNames == {"select", "insert", "insertNew"}
HasId == PCs \ ({"idle"} \cup HasSubject)

RequestShape(r) ==
  /\ r.pc \in HasSubject => r.subject \in Subjects
  /\ r.pc \in HasNames => r.names # <<>>
  /\ r.pc \in HasId => r.id \in used

RequestsOK ==
  /\ req \in [Procs -> Requests]
  /\ \A p \in Procs : RequestShape(req[p])

TypeInv == TypeOK /\ LiveUsed /\ RequestsOK

\* The idle request has the type of a request.
LEMMA NoReqType == NoReq \in Requests
BY NoneAssumption DEF NoReq, Requests, PCs, Roles

LEMMA InitTyped == Init => TypeInv
<1> SUFFICES ASSUME Init PROVE TypeInv
  OBVIOUS
<1>1. TypeOK
  BY NoReqType, InitAssumption DEF Init, TypeOK, Rows
<1>2. LiveUsed
  BY DEF Init, LiveUsed
<1>3. RequestsOK
  BY <1>1 DEF Init, TypeOK, RequestsOK, RequestShape, NoReq, HasSubject, HasNames, HasId
<1> QED BY <1>1, <1>2, <1>3 DEF TypeInv

\* Writing and erasing tuples keep the relation and its history typed.
LEMMA TupleTypes ==
  ASSUME TypeOK, NEW i \in Ids, NEW o \in Orgs \cup {Cluster}, NEW S, NEW procs,
         \/ WriteTuple(<<i, o>>, procs)
         \/ EraseTuples(S)
         \/ UNCHANGED <<tuples, late>>
  PROVE  /\ tuples' \subseteq Ids \X (Orgs \cup {Cluster})
         /\ late' \subseteq tuples'
BY DEF TypeOK, WriteTuple, EraseTuples

LEMMA SyncTypes ==
  ASSUME TypeOK, NEW i \in Ids, NEW role, NEW a, NEW procs,
         SyncClusterRole(i, role, a, procs)
  PROVE  /\ tuples' \subseteq Ids \X (Orgs \cup {Cluster})
         /\ late' \subseteq tuples'
BY TupleTypes DEF SyncClusterRole

\* A request that takes a well-shaped record leaves the others as they were.
LEMMA BecomesType ==
  ASSUME TypeInv, NEW p \in Procs, NEW r \in Requests, Becomes(p, r), used \subseteq used',
         r.pc \in HasSubject => r.subject \in Subjects,
         r.pc \in HasNames => r.names # <<>>,
         r.pc \in HasId => r.id \in used'
  PROVE  RequestsOK'
BY DEF TypeInv, TypeOK, Becomes, RequestsOK, RequestShape

LEMMA ReplyType ==
  ASSUME TypeInv, NEW p \in Procs, Reply(p), used \subseteq used'
  PROVE  RequestsOK'
BY NoReqType, BecomesType DEF Reply, NoReq, HasSubject, HasNames, HasId

\* An edited record is a record.
LEMMA EditType ==
  ASSUME NEW r \in Requests
  PROVE  /\ \A pc \in PCs : [r EXCEPT !.pc = pc] \in Requests
         /\ \A pc \in PCs, names \in Seq(Usernames) :
              [r EXCEPT !.pc = pc, !.names = names] \in Requests
         /\ \A pc \in PCs, i \in Ids : [r EXCEPT !.pc = pc, !.id = i] \in Requests
         /\ \A pc \in PCs, i \in Ids :
              [r EXCEPT !.pc = pc, !.id = i, !.created = TRUE] \in Requests
         /\ \A pc \in PCs, orgs \in SUBSET Orgs :
              [r EXCEPT !.pc = pc, !.orgs = orgs] \in Requests
BY DEF Requests

LEMMA GotoType ==
  ASSUME TypeInv, NEW p \in Procs, NEW pc \in PCs, Goto(p, pc), UNCHANGED used,
         pc \in HasSubject => req[p].subject \in Subjects,
         pc \in HasNames => req[p].names # <<>>,
         pc \in HasId => req[p].id \in used
  PROVE  RequestsOK'
<1> DEFINE r == [req[p] EXCEPT !.pc = pc]
<1>1. r \in Requests
  BY EditType DEF TypeInv, TypeOK
<1>2. r.pc = pc /\ r.subject = req[p].subject /\ r.names = req[p].names /\ r.id = req[p].id
  BY DEF TypeInv, TypeOK, Requests
<1>3. Becomes(p, r)
  BY DEF Goto
<1> HIDE DEF r
<1> QED BY <1>1, <1>2, <1>3, BecomesType

LEMMA FoundType ==
  ASSUME TypeInv, NEW p \in Procs, FoundBySubject(p), UNCHANGED used
  PROVE  RequestsOK'
<1>1. PICK u \in users : Becomes(p, [req[p] EXCEPT !.pc = "register", !.id = u.id])
  BY DEF FoundBySubject
<1>2. u.id \in used /\ u.id \in Ids
  BY DEF TypeInv, TypeOK, LiveUsed
<1> DEFINE r == [req[p] EXCEPT !.pc = "register", !.id = u.id]
<1>3. r \in Requests
  BY <1>2, EditType DEF TypeInv, TypeOK, PCs
<1>4. r.pc = "register" /\ r.id = u.id
  BY DEF TypeInv, TypeOK, Requests
<1>5. Becomes(p, r)
  BY <1>1
<1> HIDE DEF r
<1> QED
  BY <1>2, <1>3, <1>4, <1>5, BecomesType DEF HasSubject, HasNames

LEMMA NextCandidateType ==
  ASSUME TypeInv, NEW p \in Procs, NEW next \in {"select", "insertNew"},
         req[p].pc \in {"insert", "insertNew"}, NextCandidate(p, next)
  PROVE  TypeInv'
<1>1. RequestsOK'
  <2> DEFINE rest == Remaining(req[p].names)
             r == [req[p] EXCEPT !.pc = next, !.names = rest]
  <2>1. CASE rest = <<>>
    BY <2>1, ReplyType DEF NextCandidate
  <2>2. CASE rest # <<>>
    <3>1. rest \in Seq(Usernames) /\ req[p].subject \in Subjects
      BY DEF TypeInv, TypeOK, RequestsOK, RequestShape, Requests, HasSubject, HasNames, Remaining
    <3>2. r \in Requests
      BY <3>1, EditType DEF TypeInv, TypeOK, PCs
    <3>3. r.pc = next /\ r.names = rest /\ r.subject = req[p].subject
      BY DEF TypeInv, TypeOK, Requests
    <3>4. Becomes(p, r) /\ UNCHANGED used
      BY <2>2 DEF NextCandidate
    <3> HIDE DEF r
    <3> QED
      BY <2>2, <3>1, <3>2, <3>3, <3>4, BecomesType DEF HasSubject, HasNames, HasId
  <2> QED BY <2>1, <2>2
<1> QED
  BY <1>1 DEF NextCandidate, TypeInv, TypeOK, LiveUsed, RequestsOK

LEMMA InsertRowType ==
  ASSUME TypeInv, NEW p \in Procs, NEW next \in {"register", "registerNew"},
         req[p].pc \in {"insert", "insertNew"}, InsertRow(p, next)
  PROVE  TypeInv'
<1>1. Head(req[p].names) \in Usernames /\ req[p].subject \in Subjects
  BY DEF TypeInv, TypeOK, RequestsOK, RequestShape, Requests, HasSubject, HasNames
<1>2. CASE UNCHANGED <<users, used>> /\ Reply(p)
  BY <1>2, ReplyType DEF InsertRow, TypeInv, TypeOK, LiveUsed, RequestsOK
<1>3. CASE ~(UNCHANGED <<users, used>> /\ Reply(p))
  <2>1. PICK i \in Ids \ used :
          /\ users' = users \cup {[id |-> i, subject |-> req[p].subject,
                                   username |-> Head(req[p].names)]}
          /\ used' = used \cup {i}
          /\ \/ Becomes(p, [req[p] EXCEPT !.pc = next, !.id = i, !.created = TRUE])
             \/ Reply(p)
    BY <1>3 DEF InsertRow
  <2>2. users' \subseteq Rows /\ used' \subseteq Ids /\ LiveUsed'
    BY <1>1, <2>1 DEF TypeInv, TypeOK, Rows, LiveUsed
  <2>3. RequestsOK'
    <3> DEFINE r == [req[p] EXCEPT !.pc = next, !.id = i, !.created = TRUE]
    <3>1. CASE Reply(p)
      BY <3>1, <2>1, ReplyType
    <3>2. CASE Becomes(p, r)
      <4>1. r \in Requests
        BY EditType DEF TypeInv, TypeOK, PCs
      <4>2. r.pc = next /\ r.id = i
        BY DEF TypeInv, TypeOK, Requests
      <4> HIDE DEF r
      <4> QED
        BY <2>1, <3>2, <4>1, <4>2, BecomesType DEF HasSubject, HasNames
    <3> QED BY <2>1, <3>1, <3>2
  <2> QED
    BY <2>2, <2>3 DEF InsertRow, TypeInv, TypeOK, RequestsOK
<1> QED BY <1>2, <1>3

\* A row keeps its id and its type when the username is replaced.
LEMMA RenamedType ==
  ASSUME TypeInv, NEW i, NEW names \in Seq(Usernames), users' = Renamed(i, names),
         UNCHANGED used
  PROVE  users' \subseteq Rows /\ LiveUsed'
<1> SUFFICES ASSUME NEW v \in users' PROVE v \in Rows /\ v.id \in used
  BY DEF LiveUsed
<1>1. PICK u \in users :
        v = IF u.id = i /\ names # <<>> THEN [u EXCEPT !.username = Head(names)] ELSE u
  BY DEF Renamed
<1>2. u \in Rows /\ u.id \in used
  BY DEF TypeInv, TypeOK, LiveUsed
<1>3. names # <<>> => Head(names) \in Usernames
  OBVIOUS
<1> QED BY <1>1, <1>2, <1>3 DEF Rows

LEMMA SingletonSeq == \A n \in Usernames : <<n>> \in Seq(Usernames)
OBVIOUS

\* The id a handler works on is one that was drawn.
LEMMA IdType ==
  ASSUME TypeInv, NEW p \in Procs, req[p].pc \in HasId
  PROVE  req[p].id \in used /\ req[p].id \in Ids
BY DEF TypeInv, TypeOK, RequestsOK, RequestShape

LEMMA AnswerType ==
  ASSUME TypeInv, NEW p \in Procs, req[p].pc \in HasId, Answer(p), UNCHANGED used
  PROVE  answered' \subseteq Ids \X BOOLEAN /\ RequestsOK'
<1>1. req[p].id \in Ids /\ req[p].created \in BOOLEAN
  BY IdType DEF TypeInv, TypeOK, Requests
<1> QED BY <1>1, ReplyType DEF Answer, TypeInv, TypeOK

LEMMA CallTyped ==
  ASSUME TypeInv, NEW p \in Procs, Call(p)
  PROVE  TypeInv'
<1> USE DEF HasSubject, HasNames, HasId, PCs
<1>1. UNCHANGED <<users, used, registered, tuples, late, answered>>
  BY DEF Call, CallResolve, CallCreate, CallUpdate, CallDelete
<1>2. RequestsOK'
  <2>1. CASE \E s \in Subjects, names \in CandidateLists :
               \/ CallResolve(p, s, names)
               \/ \E role \in {"admin", "none"} : CallCreate(p, s, names, role)
    <3>1. PICK s \in Subjects, names \in CandidateLists :
            \/ CallResolve(p, s, names)
            \/ \E role \in {"admin", "none"} : CallCreate(p, s, names, role)
      BY <2>1
    <3>2. CASE CallResolve(p, s, names)
      <4> DEFINE r == [NoReq EXCEPT !.pc = "select", !.subject = s, !.names = names]
      <4>1. r \in Requests /\ r.pc = "select" /\ r.subject = s /\ r.names = names
        BY NoReqType, NamesAssumption DEF NoReq, Requests
      <4>2. Becomes(p, r)
        BY <3>2 DEF CallResolve
      <4> HIDE DEF r
      <4> QED BY <1>1, <4>1, <4>2, NamesAssumption, BecomesType
    <3>3. ASSUME NEW role \in {"admin", "none"}, CallCreate(p, s, names, role)
          PROVE  RequestsOK'
      <4> DEFINE r == [NoReq EXCEPT !.pc = "insertNew", !.subject = s, !.names = names,
                                    !.role = role]
      <4>1. r \in Requests /\ r.pc = "insertNew" /\ r.subject = s /\ r.names = names
        BY NoReqType, NamesAssumption DEF NoReq, Requests, Roles
      <4>2. Becomes(p, r)
        BY <3>3 DEF CallCreate
      <4> HIDE DEF r
      <4> QED BY <1>1, <4>1, <4>2, NamesAssumption, BecomesType
    <3> QED BY <3>1, <3>2, <3>3
  <2>2. CASE \E i \in used \cap Targets :
               \/ CallDelete(p, i)
               \/ \E names \in {<<>>} \cup {<<n>> : n \in Usernames}, role \in Roles :
                    CallUpdate(p, i, names, role)
    <3>1. PICK i \in used \cap Targets :
            \/ CallDelete(p, i)
            \/ \E names \in {<<>>} \cup {<<n>> : n \in Usernames}, role \in Roles :
                 CallUpdate(p, i, names, role)
      BY <2>2
    <3>2. i \in Ids
      BY DEF TypeInv, TypeOK
    <3>3. CASE CallDelete(p, i)
      <4> DEFINE r == [NoReq EXCEPT !.pc = "demote", !.id = i]
      <4>1. r \in Requests /\ r.pc = "demote" /\ r.id = i
        BY <3>2, NoReqType DEF NoReq, Requests
      <4>2. Becomes(p, r)
        BY <3>3 DEF CallDelete
      <4> HIDE DEF r
      <4> QED BY <1>1, <4>1, <4>2, BecomesType
    <3>4. ASSUME NEW names \in {<<>>} \cup {<<n>> : n \in Usernames}, NEW role \in Roles,
                 CallUpdate(p, i, names, role)
          PROVE  RequestsOK'
      <4> DEFINE r == [NoReq EXCEPT !.pc = "update", !.id = i, !.names = names, !.role = role]
      <4>1. names \in Seq(Usernames)
        <5>1. CASE names = <<>>
          BY <5>1
        <5>2. CASE \E n \in Usernames : names = <<n>>
          BY <5>2, SingletonSeq
        <5> QED BY <5>1, <5>2
      <4>2. r \in Requests /\ r.pc = "update" /\ r.id = i
        BY <3>2, <4>1, NoReqType DEF NoReq, Requests
      <4>3. Becomes(p, r)
        BY <3>4 DEF CallUpdate
      <4> HIDE DEF r
      <4> QED BY <1>1, <4>2, <4>3, BecomesType
    <3> QED BY <3>1, <3>3, <3>4
  <2> QED BY <2>1, <2>2 DEF Call
<1> QED BY <1>1, <1>2 DEF TypeInv, TypeOK, LiveUsed, RequestsOK

LEMMA StepTyped ==
  ASSUME TypeInv, NEW p \in Procs, Step(p)
  PROVE  TypeInv'
<1> USE DEF HasSubject, HasNames, HasId, PCs
<1>1. CASE Select(p)
  <2>1. UNCHANGED <<users, used, registered, tuples, late, answered>>
    BY <1>1 DEF Select
  <2>2. RequestsOK'
    BY <1>1, <2>1, FoundType, ReplyType, GotoType
    DEF Select, TypeInv, RequestsOK, RequestShape
  <2> QED BY <2>1, <2>2 DEF TypeInv, TypeOK, LiveUsed, RequestsOK
<1>2. CASE Insert(p)
  <2>1. CASE InsertRow(p, "register") \/ NextCandidate(p, "select")
    BY <1>2, <2>1, InsertRowType, NextCandidateType DEF Insert
  <2>2. CASE Goto(p, "reselect")
             /\ UNCHANGED <<users, used, registered, tuples, late, answered>>
    <3>1. RequestsOK'
      BY <1>2, <2>2, GotoType DEF Insert, TypeInv, RequestsOK, RequestShape
    <3> QED BY <2>2, <3>1 DEF TypeInv, TypeOK, LiveUsed, RequestsOK
  <2> QED BY <1>2, <2>1, <2>2 DEF Insert
<1>3. CASE Reselect(p)
  <2>1. UNCHANGED <<users, used, registered, tuples, late, answered>>
    BY <1>3 DEF Reselect
  <2>2. RequestsOK'
    BY <1>3, <2>1, FoundType, ReplyType DEF Reselect
  <2> QED BY <2>1, <2>2 DEF TypeInv, TypeOK, LiveUsed, RequestsOK
<1>4. CASE Register(p)
  <2>1. req[p].id \in used /\ req[p].id \in Ids
    BY <1>4, IdType DEF Register
  <2>2. registered' \subseteq Ids
    BY <1>4, <2>1 DEF Register, RegisterIdentity, TypeInv, TypeOK
  <2>3. answered' \subseteq Ids \X BOOLEAN /\ RequestsOK'
    BY <1>4, <2>1, AnswerType, GotoType DEF Register, TypeInv, TypeOK
  <2> QED BY <1>4, <2>2, <2>3 DEF Register, TypeInv, TypeOK, LiveUsed, RequestsOK
<1>5. CASE Rollback(p)
  BY <1>5, ReplyType DEF Rollback, RemoveRow, TypeInv, TypeOK, LiveUsed, RequestsOK
<1>6. CASE InsertNew(p)
  <2>1. CASE InsertRow(p, "registerNew") \/ NextCandidate(p, "insertNew")
    BY <1>6, <2>1, InsertRowType, NextCandidateType DEF InsertNew
  <2>2. CASE Reply(p) /\ UNCHANGED <<users, used, registered, tuples, late, answered>>
    BY <2>2, ReplyType DEF TypeInv, TypeOK, LiveUsed, RequestsOK
  <2> QED BY <1>6, <2>1, <2>2 DEF InsertNew
<1>7. CASE RegisterNew(p)
  <2>1. req[p].id \in used /\ req[p].id \in Ids
    BY <1>7, IdType DEF RegisterNew
  <2>2. registered' \subseteq Ids
    BY <1>7, <2>1 DEF RegisterNew, RegisterIdentity, TypeInv, TypeOK
  <2>3. answered' \subseteq Ids \X BOOLEAN /\ RequestsOK'
    BY <1>7, <2>1, AnswerType, GotoType DEF RegisterNew, TypeInv, TypeOK
  <2> QED BY <1>7, <2>2, <2>3 DEF RegisterNew, TypeInv, TypeOK, LiveUsed, RequestsOK
<1>8. CASE Grant(p)
  <2>1. req[p].id \in used /\ req[p].id \in Ids
    BY <1>8, IdType DEF Grant
  <2>2. tuples' \subseteq Ids \X (Orgs \cup {Cluster}) /\ late' \subseteq tuples'
    BY <1>8, <2>1, SyncTypes DEF Grant, TypeInv
  <2>3. answered' \subseteq Ids \X BOOLEAN /\ RequestsOK'
    BY <1>8, <2>1, AnswerType, GotoType DEF Grant, TypeInv, TypeOK
  <2> QED BY <1>8, <2>2, <2>3 DEF Grant, TypeInv, TypeOK, LiveUsed, RequestsOK
<1>9. CASE Update(p)
  <2>1. req[p].id \in used /\ req[p].names \in Seq(Usernames)
    BY <1>9, IdType DEF Update, TypeInv, TypeOK, Requests
  <2>2. users' \subseteq Rows /\ LiveUsed'
    BY <1>9, <2>1, RenamedType DEF Update, TypeInv, TypeOK, LiveUsed
  <2>3. RequestsOK'
    BY <1>9, <2>1, ReplyType, GotoType DEF Update
  <2> QED BY <1>9, <2>2, <2>3 DEF Update, TypeInv, TypeOK, RequestsOK
<1>10. CASE Sync(p)
  <2>1. req[p].id \in Ids
    BY <1>10, IdType DEF Sync
  <2>2. tuples' \subseteq Ids \X (Orgs \cup {Cluster}) /\ late' \subseteq tuples'
    BY <1>10, <2>1, SyncTypes DEF Sync, TypeInv
  <2> QED BY <1>10, <2>2, ReplyType DEF Sync, TypeInv, TypeOK, LiveUsed, RequestsOK
<1>11. CASE Demote(p)
  <2>1. req[p].id \in used /\ req[p].id \in Ids
    BY <1>11, IdType DEF Demote
  <2>2. tuples' \subseteq Ids \X (Orgs \cup {Cluster}) /\ late' \subseteq tuples'
    BY <1>11, <2>1, SyncTypes DEF Demote, TypeInv
  <2>3. RequestsOK'
    BY <1>11, <2>1, ReplyType, GotoType DEF Demote
  <2> QED BY <1>11, <2>2, <2>3 DEF Demote, TypeInv, TypeOK, LiveUsed, RequestsOK
<1>12. CASE ListMemberships(p)
  <2>1. UNCHANGED <<users, used, registered, tuples, late, answered>>
    BY <1>12 DEF ListMemberships
  <2>2. RequestsOK'
    <3> DEFINE orgs == Memberships(req[p].id)
               next == IF orgs = {} THEN "delete" ELSE "revoke"
               r == [req[p] EXCEPT !.pc = next, !.orgs = orgs]
    <3>1. CASE Reply(p)
      BY <2>1, <3>1, ReplyType
    <3>2. CASE Becomes(p, r)
      <4>1. orgs \in SUBSET Orgs /\ next \in PCs
        BY DEF Memberships
      <4>2. r \in Requests
        BY <4>1, EditType DEF TypeInv, TypeOK
      <4>3. r.pc \in {"delete", "revoke"} /\ r.id = req[p].id
        BY DEF TypeInv, TypeOK, Requests
      <4>4. req[p].id \in used
        BY <1>12, IdType DEF ListMemberships
      <4> HIDE DEF r
      <4> QED BY <2>1, <3>2, <4>2, <4>3, <4>4, BecomesType
    <3> QED BY <1>12, <3>1, <3>2 DEF ListMemberships
  <2> QED BY <2>1, <2>2 DEF TypeInv, TypeOK, LiveUsed, RequestsOK
<1>13. CASE Revoke(p)
  <2>1. req[p].id \in used
    BY <1>13, IdType DEF Revoke
  <2>2. tuples' \subseteq Ids \X (Orgs \cup {Cluster}) /\ late' \subseteq tuples'
    BY <1>13 DEF Revoke, EraseTuples, TypeInv, TypeOK
  <2>3. RequestsOK'
    BY <1>13, <2>1, ReplyType, GotoType DEF Revoke
  <2> QED BY <1>13, <2>2, <2>3 DEF Revoke, TypeInv, TypeOK, LiveUsed, RequestsOK
<1>14. CASE Delete(p)
  BY <1>14, ReplyType DEF Delete, RemoveRow, TypeInv, TypeOK, LiveUsed, RequestsOK
<1> QED
  BY <1>1, <1>2, <1>3, <1>4, <1>5, <1>6, <1>7, <1>8, <1>9, <1>10, <1>11, <1>12, <1>13, <1>14
  DEF Step

LEMMA EnvironmentTyped ==
  ASSUME TypeInv, Environment
  PROVE  TypeInv'
<1>1. CASE \E i \in used, n \in Usernames : UpdateMe(i, n)
  <2>1. PICK i \in used, n \in Usernames : UpdateMe(i, n)
    BY <1>1
  <2>2. users' \subseteq Rows /\ LiveUsed'
    BY <2>1, SingletonSeq, RenamedType DEF UpdateMe
  <2> QED BY <2>1, <2>2 DEF UpdateMe, TypeInv, TypeOK, RequestsOK, RequestShape
<1>2. CASE \E i \in used, o \in Orgs : OrgJoin(i, o) \/ OrgLeave(i, o)
  <2>1. PICK i \in used, o \in Orgs : OrgJoin(i, o) \/ OrgLeave(i, o)
    BY <1>2
  <2>2. i \in Ids
    BY DEF TypeInv, TypeOK
  <2>3. tuples' \subseteq Ids \X (Orgs \cup {Cluster}) /\ late' \subseteq tuples'
    BY <2>1, <2>2, TupleTypes DEF OrgJoin, OrgLeave, TypeInv
  <2> QED
    BY <2>1, <2>3 DEF OrgJoin, OrgLeave, TypeInv, TypeOK, LiveUsed, RequestsOK, RequestShape
<1> QED BY <1>1, <1>2 DEF Environment

LEMMA NextTyped == TypeInv /\ [Next]_vars => TypeInv'
<1> SUFFICES ASSUME TypeInv, [Next]_vars PROVE TypeInv'
  OBVIOUS
<1>1. CASE UNCHANGED vars
  BY <1>1 DEF vars, TypeInv, TypeOK, LiveUsed, RequestsOK, RequestShape
<1>2. ASSUME NEW p \in Procs, Crash(p) PROVE TypeInv'
  BY <1>2, ReplyType DEF Crash, TypeInv, TypeOK, LiveUsed, RequestsOK
<1> QED BY <1>1, <1>2, CallTyped, StepTyped, EnvironmentTyped DEF Next

LEMMA Typed == Spec => []TypeInv
BY InitTyped, NextTyped, PTL DEF Spec

\* Every reachable state is well typed.
THEOREM TypeCorrect == Spec => []TypeOK
<1>1. TypeInv => TypeOK
  BY DEF TypeInv
<1> QED BY <1>1, Typed, PTL

-----------------------------------------------------------------------------
(* Unique keys.                                                            *)

LEMMA InsertUnique ==
  ASSUME TypeInv, UniqueKeys, NEW p \in Procs, NEW next, InsertRow(p, next)
  PROVE  UniqueKeys'
<1>1. CASE UNCHANGED users
  BY <1>1 DEF UniqueKeys, UniqueIn
<1>2. CASE ~UNCHANGED users
  <2>1. PICK i \in Ids \ used :
          users' = users \cup {[id |-> i, subject |-> req[p].subject,
                                username |-> Head(req[p].names)]}
    BY <1>2 DEF InsertRow
  <2>2. ~SubjectTaken(req[p].subject) /\ ~UsernameTaken(Head(req[p].names))
    BY DEF InsertRow
  <2>3. ~Live(i)
    BY <2>1 DEF TypeInv, LiveUsed, Live
  <2> QED
    BY <2>1, <2>2, <2>3 DEF UniqueKeys, UniqueIn, SubjectTaken, UsernameTaken, Live
<1> QED BY <1>1, <1>2

LEMMA RenameUnique ==
  ASSUME TypeInv, UniqueKeys, NEW i, NEW names, MayRename(i, names),
         users' = Renamed(i, names)
  PROVE  UniqueKeys'
<1>1. CASE names = <<>>
  <2>1. users' = users
    BY <1>1 DEF Renamed
  <2> QED BY <2>1 DEF UniqueKeys, UniqueIn
<1>2. CASE names # <<>>
  <2> DEFINE New(u) == IF u.id = i THEN [u EXCEPT !.username = Head(names)] ELSE u
  <2>1. users' = {New(u) : u \in users}
    BY <1>2 DEF Renamed
  <2>2. ASSUME NEW u \in users, NEW v \in users,
               \/ New(u).id = New(v).id
               \/ New(u).subject = New(v).subject
               \/ New(u).username = New(v).username /\ New(u).username # None
        PROVE  u = v
    <3>1. u \in Rows /\ v \in Rows
      BY DEF TypeInv, TypeOK
    <3>2. \A w \in Rows :
            /\ New(w).id = w.id /\ New(w).subject = w.subject
            /\ New(w).username = IF w.id = i THEN Head(names) ELSE w.username
      BY DEF Rows
    <3>3. \A w \in users : w.username = Head(names) => w.id = i
      BY <1>2 DEF MayRename
    <3> HIDE DEF New
    <3> QED BY <2>2, <3>1, <3>2, <3>3 DEF UniqueKeys, UniqueIn
  <2>3. \A a, b \in users' :
          \/ a.id = b.id
          \/ a.subject = b.subject
          \/ a.username = b.username /\ a.username # None
          => a = b
    <3> HIDE DEF New
    <3> QED BY <2>1, <2>2
  <2> QED BY <2>3 DEF UniqueKeys, UniqueIn
<1> QED BY <1>1, <1>2

LEMMA NextUnique == TypeInv /\ UniqueKeys /\ [Next]_vars => UniqueKeys'
<1> SUFFICES ASSUME TypeInv, UniqueKeys, [Next]_vars PROVE UniqueKeys'
  OBVIOUS
<1>1. CASE users' \subseteq users
  BY <1>1 DEF UniqueKeys, UniqueIn
<1>2. ASSUME NEW p \in Procs, Call(p) \/ Crash(p) PROVE users' \subseteq users
  BY <1>2 DEF Call, CallResolve, CallCreate, CallUpdate, CallDelete, Crash
<1>3. ASSUME NEW p \in Procs, Step(p) PROVE UniqueKeys'
  <2>1. CASE Insert(p) \/ InsertNew(p)
    BY <1>1, <2>1, InsertUnique DEF Insert, InsertNew, NextCandidate
  <2>2. CASE Update(p)
    BY <1>1, <2>2, RenameUnique DEF Update
  <2>3. CASE Rollback(p) \/ Delete(p)
    BY <1>1, <2>3 DEF Rollback, Delete, RemoveRow
  <2>4. CASE ~(Insert(p) \/ InsertNew(p) \/ Update(p) \/ Rollback(p) \/ Delete(p))
    BY <1>1, <1>3, <2>4 DEF Step, Select, Reselect, Register, RegisterNew, Grant, Sync,
                            Demote, ListMemberships, Revoke
  <2> QED BY <2>1, <2>2, <2>3, <2>4
<1>4. CASE Environment
  BY <1>1, <1>4, RenameUnique DEF Environment, UpdateMe, OrgJoin, OrgLeave
<1>5. CASE UNCHANGED vars
  BY <1>1, <1>5 DEF vars
<1> QED BY <1>1, <1>2, <1>3, <1>4, <1>5 DEF Next

\* No two rows share an id, a subject or a username, whatever creations,
\* sign-ins and renames interleave.
THEOREM KeysUnique == Spec => []UniqueKeys
<1>1. Init => UniqueKeys
  BY InitAssumption DEF Init, UniqueKeys
<1> QED BY <1>1, NextUnique, Typed, PTL DEF Spec

-----------------------------------------------------------------------------
(* The creation of an account.  Only the request that inserted a row can   *)
(* take it back, and it answers or takes it back, never both.              *)

CreationInv ==
  /\ \A p \in Procs : req[p].pc \in HasSubject => ~req[p].created
  /\ \A p \in Procs, i \in Ids :
       Creating(p, i) => i \in used /\ req[p].created /\ <<i, TRUE>> \notin answered
  /\ \A p, q \in Procs, i \in Ids : Creating(p, i) /\ Creating(q, i) => p = q
  /\ \A p \in Procs : req[p].pc = "grant" => req[p].id \in registered
  /\ \A i \in Ids : <<i, TRUE>> \in answered => i \in used /\ i \in registered

\* What a step makes of the other requests, and of its own.
LEMMA BecomesElse ==
  ASSUME TypeInv, NEW p \in Procs, NEW r, Becomes(p, r)
  PROVE  req'[p] = r /\ \A q \in Procs \ {p} : req'[q] = req[q]
BY DEF TypeInv, TypeOK, Becomes

LEMMA GotoElse ==
  ASSUME TypeInv, NEW p \in Procs, NEW pc, Goto(p, pc)
  PROVE  /\ req'[p].pc = pc /\ req'[p].id = req[p].id /\ req'[p].created = req[p].created
         /\ req'[p].orgs = req[p].orgs /\ req'[p].role = req[p].role
         /\ \A q \in Procs \ {p} : req'[q] = req[q]
BY DEF TypeInv, TypeOK, Requests, Goto, Becomes

\* A request that ends, or goes on without becoming a creation, keeps CreationInv.
LEMMA CreationKept ==
  ASSUME TypeInv, CreationInv, UNCHANGED answered, used \subseteq used',
         registered \subseteq registered', NEW p \in Procs,
         \A q \in Procs \ {p} : req'[q] = req[q],
         req'[p].pc \in HasSubject => ~req'[p].created,
         \A i \in Ids : Creating(p, i)' => Creating(p, i) /\ req'[p].created,
         req'[p].pc = "grant" => req'[p].id \in registered'
  PROVE  CreationInv'
<1>1. \A q \in Procs \ {p}, i \in Ids : Creating(q, i)' <=> Creating(q, i)
  BY DEF Creating
<1> QED BY <1>1 DEF CreationInv

LEMMA ReplyCreation ==
  ASSUME TypeInv, CreationInv, UNCHANGED answered, used \subseteq used',
         registered \subseteq registered', NEW p \in Procs, Reply(p)
  PROVE  CreationInv'
<1>1. req'[p] = NoReq /\ \A q \in Procs \ {p} : req'[q] = req[q]
  BY BecomesElse DEF Reply
<1> QED BY <1>1, CreationKept DEF NoReq, Creating, HasSubject

\* The answer of a creation ends it, the answer of a sign-in announces nothing.
LEMMA AnswerCreation ==
  ASSUME TypeInv, CreationInv, UNCHANGED used, registered \subseteq registered',
         NEW p \in Procs, Answer(p), req[p].pc \in HasId,
         req[p].created => Creating(p, req[p].id) /\ req[p].id \in registered'
  PROVE  CreationInv'
<1> DEFINE i == req[p].id
<1>1. req'[p] = NoReq /\ \A q \in Procs \ {p} : req'[q] = req[q]
  BY BecomesElse DEF Answer, Reply
<1>2. answered' = answered \cup {<<i, req[p].created>>}
  BY DEF Answer
<1>3. i \in Ids /\ i \in used /\ req[p].created \in BOOLEAN
  BY IdType DEF TypeInv, TypeOK, Requests
<1>4. \A q \in Procs \ {p}, j \in Ids : Creating(q, j)' <=> Creating(q, j)
  BY <1>1 DEF Creating
<1>5. \A j \in Ids : ~Creating(p, j)'
  BY <1>1 DEF Creating, NoReq
<1>6. \A j \in Ids : <<j, TRUE>> \in answered' =>
        <<j, TRUE>> \in answered \/ (j = i /\ req[p].created)
  BY <1>2, <1>3
<1>7. ASSUME NEW q \in Procs, NEW j \in Ids, Creating(q, j)'
      PROVE  j \in used /\ req'[q].created /\ <<j, TRUE>> \notin answered'
  <2>1. q # p /\ Creating(q, j)
    BY <1>4, <1>5, <1>7
  <2>2. j \in used /\ req[q].created /\ <<j, TRUE>> \notin answered
    BY <2>1 DEF CreationInv
  <2>3. req'[q].created
    BY <1>1, <2>1, <2>2
  <2>4. ~(j = i /\ req[p].created)
    BY <2>1 DEF CreationInv
  <2> HIDE DEF i
  <2> QED BY <1>6, <2>2, <2>3, <2>4
<1>8. \A q \in Procs : req'[q].pc \in HasSubject => ~req'[q].created
  BY <1>1 DEF CreationInv, NoReq, HasSubject
<1>9. \A q, r \in Procs, j \in Ids : Creating(q, j)' /\ Creating(r, j)' => q = r
  BY <1>4, <1>5 DEF CreationInv
<1>10. \A q \in Procs : req'[q].pc = "grant" => req'[q].id \in registered'
  BY <1>1 DEF CreationInv, NoReq
<1>11. \A j \in Ids : <<j, TRUE>> \in answered' => j \in used' /\ j \in registered'
  BY <1>3, <1>6 DEF CreationInv
<1> QED BY <1>7, <1>8, <1>9, <1>10, <1>11 DEF CreationInv

LEMMA NextCandidateCreation ==
  ASSUME TypeInv, CreationInv, NEW p \in Procs, NEW next \in {"select", "insertNew"},
         req[p].pc \in {"insert", "insertNew"}, NextCandidate(p, next)
  PROVE  CreationInv'
<1> DEFINE r == [req[p] EXCEPT !.pc = next, !.names = Remaining(req[p].names)]
<1>1. UNCHANGED <<answered, used, registered>>
  BY DEF NextCandidate
<1>2. CASE Reply(p)
  BY <1>1, <1>2, ReplyCreation
<1>3. CASE Becomes(p, r)
  <2>1. r.pc = next /\ r.created = req[p].created /\ ~req[p].created
    BY DEF TypeInv, TypeOK, Requests, CreationInv, HasSubject
  <2>2. req'[p] = r /\ \A q \in Procs \ {p} : req'[q] = req[q]
    BY <1>3, BecomesElse
  <2> HIDE DEF r
  <2> QED BY <1>1, <2>1, <2>2, CreationKept DEF Creating
<1> QED BY <1>2, <1>3 DEF NextCandidate

\* A row is inserted under an id that no request works on and no answer named.
LEMMA InsertCreation ==
  ASSUME TypeInv, CreationInv, NEW p \in Procs, NEW next \in {"register", "registerNew"},
         req[p].pc \in {"insert", "insertNew"}, InsertRow(p, next)
  PROVE  CreationInv'
<1>1. UNCHANGED <<answered, registered>> /\ used \subseteq used'
  BY DEF InsertRow
<1>2. CASE Reply(p)
  BY <1>1, <1>2, ReplyCreation
<1>3. CASE ~Reply(p)
  <2>1. PICK i \in Ids \ used :
          /\ used' = used \cup {i}
          /\ Becomes(p, [req[p] EXCEPT !.pc = next, !.id = i, !.created = TRUE])
    BY <1>3 DEF InsertRow
  <2> DEFINE r == [req[p] EXCEPT !.pc = next, !.id = i, !.created = TRUE]
  <2>12. r.pc = next /\ r.id = i /\ r.created
    BY DEF TypeInv, TypeOK, Requests
  <2>13. Becomes(p, r)
    BY <2>1
  <2> HIDE DEF r
  <2>2. req'[p].pc = next /\ req'[p].id = i /\ req'[p].created
    BY <2>12, <2>13, BecomesElse
  <2>3. \A q \in Procs \ {p} : req'[q] = req[q]
    BY <2>13, BecomesElse
  <2>4. \A q \in Procs \ {p}, j \in Ids : Creating(q, j)' <=> Creating(q, j)
    BY <2>3 DEF Creating
  <2>5. \A j \in Ids : Creating(p, j)' => j = i
    BY <2>2 DEF Creating
  <2>6. \A q \in Procs, j \in Ids : Creating(q, j) => j \in used
    BY DEF CreationInv
  <2>7. <<i, TRUE>> \notin answered
    BY DEF CreationInv
  <2>8. \A q \in Procs : req'[q].pc \in HasSubject => ~req'[q].created
    BY <2>2, <2>3 DEF CreationInv, HasSubject
  <2>9. \A q \in Procs, j \in Ids : Creating(q, j)' =>
          j \in used' /\ req'[q].created /\ <<j, TRUE>> \notin answered'
    BY <1>1, <2>1, <2>2, <2>3, <2>4, <2>5, <2>7 DEF CreationInv
  <2>10. \A q, q2 \in Procs, j \in Ids : Creating(q, j)' /\ Creating(q2, j)' => q = q2
    BY <2>1, <2>4, <2>5, <2>6 DEF CreationInv
  <2>11. \A q \in Procs : req'[q].pc = "grant" => req'[q].id \in registered'
    BY <1>1, <2>2, <2>3 DEF CreationInv
  <2> QED
    BY <1>1, <2>8, <2>9, <2>10, <2>11 DEF CreationInv
<1> QED BY <1>2, <1>3

LEMMA FoundCreation ==
  ASSUME TypeInv, CreationInv, UNCHANGED <<answered, used, registered>>, NEW p \in Procs,
         req[p].pc \in HasSubject, FoundBySubject(p)
  PROVE  CreationInv'
<1>1. PICK u \in users : Becomes(p, [req[p] EXCEPT !.pc = "register", !.id = u.id])
  BY DEF FoundBySubject
<1> DEFINE r == [req[p] EXCEPT !.pc = "register", !.id = u.id]
<1>2. r.pc = "register" /\ ~r.created
  BY DEF TypeInv, TypeOK, Requests, CreationInv
<1>3. Becomes(p, r)
  BY <1>1
<1> HIDE DEF r
<1>4. req'[p] = r /\ \A q \in Procs \ {p} : req'[q] = req[q]
  BY <1>3, BecomesElse
<1> QED BY <1>2, <1>4, CreationKept DEF Creating, HasSubject

\* A new request has inserted nothing yet; only a cluster admin's names a role.
IsCall(p) ==
  \E r : /\ Becomes(p, r) /\ ~r.created
         /\ r.pc \in {"select", "insertNew", "update", "demote"}
         /\ r.role = "admin" => AdminCaller

LEMMA CallRecord ==
  ASSUME NEW p \in Procs, Call(p)
  PROVE  IsCall(p)
<1>1. ASSUME NEW s, NEW names, CallResolve(p, s, names)
      PROVE  IsCall(p)
  <2> DEFINE r == [NoReq EXCEPT !.pc = "select", !.subject = s, !.names = names]
  <2>1. r.pc = "select" /\ ~r.created /\ (r.role = "admin" => AdminCaller)
    BY DEF NoReq
  <2>2. Becomes(p, r)
    BY <1>1 DEF CallResolve
  <2> HIDE DEF r
  <2> QED BY <2>1, <2>2 DEF IsCall
<1>2. ASSUME NEW s, NEW names, NEW role, CallCreate(p, s, names, role)
      PROVE  IsCall(p)
  <2> DEFINE r == [NoReq EXCEPT !.pc = "insertNew", !.subject = s, !.names = names,
                                !.role = role]
  <2>1. r.pc = "insertNew" /\ ~r.created /\ (r.role = "admin" => AdminCaller)
    BY <1>2 DEF NoReq, CallCreate
  <2>2. Becomes(p, r)
    BY <1>2 DEF CallCreate
  <2> HIDE DEF r
  <2> QED BY <2>1, <2>2 DEF IsCall
<1>3. ASSUME NEW i, NEW names, NEW role, CallUpdate(p, i, names, role)
      PROVE  IsCall(p)
  <2> DEFINE r == [NoReq EXCEPT !.pc = "update", !.id = i, !.names = names, !.role = role]
  <2>1. r.pc = "update" /\ ~r.created /\ (r.role = "admin" => AdminCaller)
    BY <1>3 DEF NoReq, CallUpdate
  <2>2. Becomes(p, r)
    BY <1>3 DEF CallUpdate
  <2> HIDE DEF r
  <2> QED BY <2>1, <2>2 DEF IsCall
<1>4. ASSUME NEW i, CallDelete(p, i)
      PROVE  IsCall(p)
  <2> DEFINE r == [NoReq EXCEPT !.pc = "demote", !.id = i]
  <2>1. r.pc = "demote" /\ ~r.created /\ (r.role = "admin" => AdminCaller)
    BY DEF NoReq
  <2>2. Becomes(p, r)
    BY <1>4 DEF CallDelete
  <2> HIDE DEF r
  <2> QED BY <2>1, <2>2 DEF IsCall
<1> QED BY <1>1, <1>2, <1>3, <1>4 DEF Call

LEMMA CallCreation ==
  ASSUME TypeInv, CreationInv, NEW p \in Procs, Call(p)
  PROVE  CreationInv'
<1>1. UNCHANGED <<used, registered, answered>>
  BY DEF Call, CallResolve, CallCreate, CallUpdate, CallDelete
<1>2. PICK r : /\ Becomes(p, r) /\ ~r.created
               /\ r.pc \in {"select", "insertNew", "update", "demote"}
  BY CallRecord DEF IsCall
<1>3. req'[p] = r /\ \A q \in Procs \ {p} : req'[q] = req[q]
  BY <1>2, BecomesElse
<1> QED BY <1>1, <1>2, <1>3, CreationKept DEF Creating

LEMMA StepCreation ==
  ASSUME TypeInv, CreationInv, NEW p \in Procs, Step(p)
  PROVE  CreationInv'
<1> USE DEF HasSubject, HasId, PCs
<1>1. CASE Select(p)
  <2>1. UNCHANGED <<answered, used, registered>> /\ req[p].pc = "select"
    BY <1>1 DEF Select
  <2>2. CASE Goto(p, "insert")
    <3>1. ~req[p].created
      BY <2>1 DEF CreationInv
    <3>2. /\ req'[p].pc = "insert" /\ ~req'[p].created
          /\ \A q \in Procs \ {p} : req'[q] = req[q]
      BY <2>2, <3>1, GotoElse
    <3> QED BY <2>1, <3>2, CreationKept DEF Creating
  <2> QED BY <1>1, <2>1, <2>2, FoundCreation, ReplyCreation DEF Select
<1>2. CASE Insert(p)
  <2>1. CASE Goto(p, "reselect") /\ UNCHANGED <<answered, used, registered>>
    <3>1. ~req[p].created
      BY <1>2 DEF Insert, CreationInv
    <3>2. /\ req'[p].pc = "reselect" /\ ~req'[p].created
          /\ \A q \in Procs \ {p} : req'[q] = req[q]
      BY <2>1, <3>1, GotoElse
    <3> QED BY <2>1, <3>2, CreationKept DEF Creating
  <2> QED BY <1>2, <2>1, InsertCreation, NextCandidateCreation DEF Insert
<1>3. CASE Reselect(p)
  BY <1>3, FoundCreation, ReplyCreation DEF Reselect
<1>4. CASE Register(p)
  <2>1. UNCHANGED used /\ req[p].pc = "register" /\ registered \subseteq registered'
    BY <1>4 DEF Register, RegisterIdentity
  <2>2. CASE Goto(p, "rollback") /\ UNCHANGED answered /\ req[p].created
    BY <2>1, <2>2, GotoElse, CreationKept DEF Creating
  <2>3. CASE Answer(p) /\ (req[p].created => req[p].id \in registered')
    BY <2>1, <2>3, AnswerCreation DEF Creating
  <2>4. PICK a \in Answers :
          /\ RegisterIdentity(req[p].id, a)
          /\ IF SignInFails(RegisterCode(req[p].id, a), req[p].created)
             THEN Goto(p, "rollback") /\ UNCHANGED answered
             ELSE Answer(p)
    BY <1>4 DEF Register
  <2>5. CASE SignInFails(RegisterCode(req[p].id, a), req[p].created)
    BY <2>2, <2>4, <2>5 DEF SignInFails
  <2>6. CASE ~SignInFails(RegisterCode(req[p].id, a), req[p].created)
    <3>1. req[p].created => a = "ok"
      BY <2>6, IdType DEF SignInFails, RegisterCode, TypeInv, TypeOK, Requests
    <3> QED BY <2>3, <2>4, <2>6, <3>1 DEF RegisterIdentity
  <2> QED BY <2>5, <2>6
<1>5. CASE InsertNew(p)
  BY <1>5, InsertCreation, NextCandidateCreation, ReplyCreation DEF InsertNew
<1>6. CASE RegisterNew(p)
  <2>1. UNCHANGED used /\ req[p].pc = "registerNew" /\ registered \subseteq registered'
    BY <1>6 DEF RegisterNew, RegisterIdentity
  <2>2. Creating(p, req[p].id) /\ req[p].created /\ req[p].id \in Ids
    BY <2>1, IdType DEF Creating, CreationInv
  <2>3. PICK a \in Answers :
          /\ RegisterIdentity(req[p].id, a)
          /\ \/ Goto(p, "rollback") /\ UNCHANGED answered
             \/ /\ ~CreateFails(RegisterCode(req[p].id, a))
                /\ \/ Goto(p, "grant") /\ UNCHANGED answered
                   \/ Answer(p)
    BY <1>6 DEF RegisterNew
  <2>4. CASE Goto(p, "rollback") /\ UNCHANGED answered
    BY <2>1, <2>2, <2>4, GotoElse, CreationKept DEF Creating
  <2>5. CASE ~CreateFails(RegisterCode(req[p].id, a))
    <3>1. req[p].id \in registered'
      BY <2>3, <2>5 DEF CreateFails, RegisterCode, RegisterIdentity
    <3>2. CASE Goto(p, "grant") /\ UNCHANGED answered
      BY <2>1, <2>2, <3>1, <3>2, GotoElse, CreationKept DEF Creating
    <3>3. CASE Answer(p)
      BY <2>1, <2>2, <3>1, <3>3, AnswerCreation
    <3> QED BY <2>3, <2>4, <3>2, <3>3
  <2> QED BY <2>3, <2>4, <2>5
<1>7. CASE Grant(p)
  <2>1. UNCHANGED <<used, registered>> /\ req[p].pc = "grant"
    BY <1>7 DEF Grant
  <2>2. Creating(p, req[p].id) /\ req[p].created /\ req[p].id \in registered
    BY <2>1, IdType DEF Creating, CreationInv
  <2>3. CASE Goto(p, "rollback") /\ UNCHANGED answered
    BY <2>1, <2>2, <2>3, GotoElse, CreationKept DEF Creating
  <2>4. CASE Answer(p)
    BY <2>1, <2>2, <2>4, AnswerCreation
  <2> QED BY <1>7, <2>3, <2>4 DEF Grant
<1>8. CASE Rollback(p) \/ Sync(p) \/ Delete(p)
  BY <1>8, ReplyCreation DEF Rollback, Sync, Delete
<1>9. CASE Update(p) \/ Demote(p) \/ Revoke(p)
  <2>1. UNCHANGED <<answered, used, registered>>
    BY <1>9 DEF Update, Demote, Revoke
  <2>2. PICK pc \in {"sync", "list", "delete"} : Goto(p, pc) \/ Reply(p)
    BY <1>9 DEF Update, Demote, Revoke
  <2>3. CASE Goto(p, pc)
    BY <2>1, <2>3, GotoElse, CreationKept DEF Creating
  <2> QED BY <2>1, <2>2, <2>3, ReplyCreation
<1>10. CASE ListMemberships(p)
  <2>1. UNCHANGED <<answered, used, registered>>
    BY <1>10 DEF ListMemberships
  <2>2. CASE ~Reply(p)
    <3> DEFINE orgs == Memberships(req[p].id)
               next == IF orgs = {} THEN "delete" ELSE "revoke"
    <3>1. Becomes(p, [req[p] EXCEPT !.pc = next, !.orgs = orgs])
      BY <1>10, <2>2 DEF ListMemberships
    <3>2. next \in {"delete", "revoke"}
      OBVIOUS
    <3> HIDE DEF orgs, next
    <3> DEFINE r == [req[p] EXCEPT !.pc = next, !.orgs = orgs]
    <3>3. r.pc = next
      BY DEF TypeInv, TypeOK, Requests
    <3>4. Becomes(p, r)
      BY <3>1
    <3> HIDE DEF r
    <3>5. req'[p] = r /\ \A q \in Procs \ {p} : req'[q] = req[q]
      BY <3>4, BecomesElse
    <3> QED BY <2>1, <3>2, <3>3, <3>5, CreationKept DEF Creating
  <2> QED BY <2>1, <2>2, ReplyCreation
<1> QED
  BY <1>1, <1>2, <1>3, <1>4, <1>5, <1>6, <1>7, <1>8, <1>9, <1>10 DEF Step

LEMMA NextCreation == TypeInv /\ CreationInv /\ [Next]_vars => CreationInv'
<1> SUFFICES ASSUME TypeInv, CreationInv, [Next]_vars PROVE CreationInv'
  OBVIOUS
<1>1. CASE UNCHANGED <<used, registered, answered, req>>
  BY <1>1 DEF CreationInv, Creating
<1>2. CASE UNCHANGED vars \/ Environment
  BY <1>1, <1>2 DEF vars, Environment, UpdateMe, OrgJoin, OrgLeave
<1>3. ASSUME NEW p \in Procs, Crash(p) PROVE CreationInv'
  BY <1>3, ReplyCreation DEF Crash
<1> QED BY <1>2, <1>3, CallCreation, StepCreation DEF Next

LEMMA Created == Spec => []CreationInv
<1>1. Init => CreationInv
  BY DEF Init, CreationInv, Creating, NoReq
<1> QED BY <1>1, NextCreation, Typed, PTL DEF Spec

\* An account announced as created is one the Identity service knows.
THEOREM AnnouncedRegistered == Spec => []AnnouncedAreRegistered
<1>1. CreationInv => AnnouncedAreRegistered
  BY DEF CreationInv, AnnouncedAreRegistered
<1> QED BY <1>1, Created, PTL

\* The ids with a row stay, but for the one that a rollback or a DeleteUser names.
LEMMA RowsKept ==
  ASSUME [Next]_vars, NEW i, Live(i), ~Live(i)'
  PROVE  \E p \in Procs : (Rollback(p) \/ Delete(p)) /\ req[p].id = i
<1>1. ~(users \subseteq users')
  BY DEF Live
<1>2. ASSUME NEW j, NEW names, users' = Renamed(j, names) PROVE FALSE
  <2>1. PICK u \in users : u.id = i
    BY DEF Live
  <2> DEFINE v == IF u.id = j /\ names # <<>> THEN [u EXCEPT !.username = Head(names)] ELSE u
  <2>2. v \in users'
    BY <1>2 DEF Renamed
  <2>3. v.id = i
    BY <2>1
  <2> QED BY <2>2, <2>3 DEF Live
<1>3. ASSUME NEW p \in Procs, Call(p) \/ Crash(p) PROVE UNCHANGED users
  BY <1>3 DEF Call, CallResolve, CallCreate, CallUpdate, CallDelete, Crash
<1>4. ASSUME NEW p \in Procs, Step(p)
      PROVE  \E q \in Procs : (Rollback(q) \/ Delete(q)) /\ req[q].id = i
  <2>1. CASE Insert(p) \/ InsertNew(p)
    BY <1>1, <2>1 DEF Insert, InsertNew, InsertRow, NextCandidate
  <2>2. CASE Update(p)
    BY <1>1, <1>2, <2>2 DEF Update
  <2>3. CASE Rollback(p) \/ Delete(p)
    BY <2>3 DEF Rollback, Delete, RemoveRow, Live
  <2>4. CASE ~(Insert(p) \/ InsertNew(p) \/ Update(p) \/ Rollback(p) \/ Delete(p))
    BY <1>1, <1>4, <2>4 DEF Step, Select, Reselect, Register, RegisterNew, Grant, Sync,
                            Demote, ListMemberships, Revoke
  <2> QED BY <2>1, <2>2, <2>3, <2>4
<1>5. ~Environment
  BY <1>1, <1>2 DEF Environment, UpdateMe, OrgJoin, OrgLeave
<1>6. ~UNCHANGED vars
  BY <1>1 DEF vars
<1> QED BY <1>1, <1>3, <1>4, <1>5, <1>6 DEF Next

\* No rollback removes an account once it was announced as created.
THEOREM AnnouncedKept == Spec => AnnouncedSurvive
<1>1. TypeInv /\ CreationInv /\ [Next]_vars => [Survive({TRUE})]_vars
  <2> SUFFICES ASSUME TypeInv, CreationInv, [Next]_vars,
                      NEW i \in Ids, <<i, TRUE>> \in answered, Live(i), ~Live(i)'
               PROVE  \E p \in Procs : req[p].pc = "delete" /\ req[p].id = i
    BY DEF Survive
  <2>1. PICK p \in Procs : (Rollback(p) \/ Delete(p)) /\ req[p].id = i
    BY RowsKept
  <2>2. ~Rollback(p)
    BY <2>1 DEF Rollback, CreationInv, Creating
  <2> QED BY <2>1, <2>2 DEF Delete
<1> QED BY <1>1, Typed, Created, PTL DEF Spec, AnnouncedSurvive

-----------------------------------------------------------------------------
(* Nobody becomes cluster admin unless a cluster admin asked for it.       *)

GrantInv == \A p \in Procs : req[p].pc = "grant" => req[p].role = "admin"

\* The steps that lead to the call of grant, and the others.
LEMMA NextGrant == TypeInv /\ GrantInv /\ [Next]_vars => GrantInv'
<1> SUFFICES ASSUME TypeInv, GrantInv, [Next]_vars PROVE GrantInv'
  OBVIOUS
<1>1. CASE UNCHANGED req
  BY <1>1 DEF GrantInv
<1>2. ASSUME NEW p \in Procs, NEW r, Becomes(p, r), r.pc = "grant" => r.role = "admin"
      PROVE  GrantInv'
  BY <1>2, BecomesElse DEF GrantInv
<1>3. ASSUME NEW p \in Procs, Reply(p) PROVE GrantInv'
  BY <1>2, <1>3 DEF Reply, NoReq
<1>4. ASSUME NEW p \in Procs, NEW pc, Goto(p, pc), pc = "grant" => req[p].role = "admin"
      PROVE  GrantInv'
  BY <1>4, GotoElse DEF GrantInv
<1>5. ASSUME NEW p \in Procs, FoundBySubject(p) PROVE GrantInv'
  <2>1. PICK u \in users : Becomes(p, [req[p] EXCEPT !.pc = "register", !.id = u.id])
    BY <1>5 DEF FoundBySubject
  <2> DEFINE r == [req[p] EXCEPT !.pc = "register", !.id = u.id]
  <2>2. r.pc = "register"
    BY DEF TypeInv, TypeOK, Requests
  <2>3. Becomes(p, r)
    BY <2>1
  <2> HIDE DEF r
  <2> QED BY <1>2, <2>2, <2>3
<1>6. ASSUME NEW p \in Procs, NEW next \in {"select", "insertNew"}, NextCandidate(p, next)
      PROVE  GrantInv'
  <2> DEFINE r == [req[p] EXCEPT !.pc = next, !.names = Remaining(req[p].names)]
  <2>1. Reply(p) \/ Becomes(p, r)
    BY <1>6 DEF NextCandidate
  <2>2. r.pc = next
    BY DEF TypeInv, TypeOK, Requests
  <2> HIDE DEF r
  <2> QED BY <1>2, <1>3, <2>1, <2>2
<1>7. ASSUME NEW p \in Procs, NEW next \in {"register", "registerNew"}, InsertRow(p, next)
      PROVE  GrantInv'
  <2>1. CASE ~Reply(p)
    <3>1. PICK i \in Ids : Becomes(p, [req[p] EXCEPT !.pc = next, !.id = i, !.created = TRUE])
      BY <1>7, <2>1 DEF InsertRow
    <3> DEFINE r == [req[p] EXCEPT !.pc = next, !.id = i, !.created = TRUE]
    <3>2. r.pc = next
      BY DEF TypeInv, TypeOK, Requests
    <3>3. Becomes(p, r)
      BY <3>1
    <3> HIDE DEF r
    <3> QED BY <1>2, <3>2, <3>3
  <2> QED BY <1>3, <2>1
<1>8. ASSUME NEW p \in Procs, Step(p) PROVE GrantInv'
  <2>1. CASE Select(p) \/ Reselect(p) \/ Insert(p) \/ InsertNew(p)
    BY <1>3, <1>4, <1>5, <1>6, <1>7, <2>1 DEF Select, Reselect, Insert, InsertNew
  <2>2. CASE RegisterNew(p)
    BY <1>3, <1>4, <2>2 DEF RegisterNew, Answer
  <2>3. CASE Register(p) \/ Rollback(p) \/ Grant(p) \/ Update(p) \/ Sync(p)
             \/ Demote(p) \/ Revoke(p) \/ Delete(p)
    <3>1. Reply(p) \/ Goto(p, "rollback") \/ Goto(p, "sync") \/ Goto(p, "list")
          \/ Goto(p, "delete")
      BY <2>3 DEF Register, Rollback, Grant, Update, Sync, Demote, Revoke, Delete, Answer
    <3> QED BY <1>3, <1>4, <3>1
  <2>4. CASE ListMemberships(p)
    <3> DEFINE orgs == Memberships(req[p].id)
               next == IF orgs = {} THEN "delete" ELSE "revoke"
               r == [req[p] EXCEPT !.pc = next, !.orgs = orgs]
    <3>1. Reply(p) \/ Becomes(p, r)
      BY <2>4 DEF ListMemberships
    <3>2. r.pc # "grant"
      BY DEF TypeInv, TypeOK, Requests
    <3> HIDE DEF r
    <3> QED BY <1>2, <1>3, <3>1, <3>2
  <2> QED BY <1>8, <2>1, <2>2, <2>3, <2>4 DEF Step
<1>9. ASSUME NEW p \in Procs, Call(p) PROVE GrantInv'
  <2>1. PICK r : Becomes(p, r) /\ r.pc \in {"select", "insertNew", "update", "demote"}
    BY <1>9, CallRecord DEF IsCall
  <2> QED BY <1>2, <2>1
<1> QED BY <1>1, <1>3, <1>8, <1>9 DEF Next, Crash, Environment, UpdateMe, OrgJoin, OrgLeave, vars

LEMMA Granting == Spec => []GrantInv
<1>1. Init => GrantInv
  BY DEF Init, GrantInv, NoReq
<1> QED BY <1>1, NextGrant, Typed, PTL DEF Spec

\* A request that is not making an admin leaves it so.
LEMMA NoAdminsKept ==
  ASSUME TypeInv, NoAdmins, UNCHANGED tuples, NEW p \in Procs, NEW r, Becomes(p, r),
         r.role # "admin"
  PROVE  NoAdmins'
BY BecomesElse DEF NoAdmins

LEMMA NoAdminsReply ==
  ASSUME TypeInv, NoAdmins, NEW p \in Procs, Reply(p),
         \A i \in Ids : <<i, Cluster>> \notin tuples'
  PROVE  NoAdmins'
BY BecomesElse DEF NoAdmins, Reply, NoReq

LEMMA NoAdminsGoto ==
  ASSUME TypeInv, NoAdmins, NEW p \in Procs, NEW pc, Goto(p, pc),
         \A i \in Ids : <<i, Cluster>> \notin tuples'
  PROVE  NoAdmins'
BY GotoElse DEF NoAdmins

LEMMA NoAdminsEdit ==
  ASSUME TypeInv, NoAdmins, UNCHANGED tuples, NEW p \in Procs,
         FoundBySubject(p) \/ ListMemberships(p)
         \/ (\E next : InsertRow(p, next) \/ NextCandidate(p, next))
  PROVE  NoAdmins'
<1>1. req[p].role # "admin"
  BY DEF NoAdmins
<1>2. CASE Reply(p)
  BY <1>2, NoAdminsReply DEF NoAdmins
<1>3. \E r : (Reply(p) \/ Becomes(p, r)) /\ r.role # "admin"
  <2>1. CASE FoundBySubject(p)
    <3>1. PICK u \in users : Becomes(p, [req[p] EXCEPT !.pc = "register", !.id = u.id])
      BY <2>1 DEF FoundBySubject
    <3>2. [req[p] EXCEPT !.pc = "register", !.id = u.id].role # "admin"
      BY <1>1 DEF TypeInv, TypeOK, Requests
    <3> QED BY <3>1, <3>2
  <2>2. CASE ListMemberships(p)
    <3> DEFINE orgs == Memberships(req[p].id)
               next == IF orgs = {} THEN "delete" ELSE "revoke"
    <3>1. Reply(p) \/ Becomes(p, [req[p] EXCEPT !.pc = next, !.orgs = orgs])
      BY <2>2 DEF ListMemberships
    <3>2. [req[p] EXCEPT !.pc = next, !.orgs = orgs].role # "admin"
      BY <1>1 DEF TypeInv, TypeOK, Requests
    <3> QED BY <3>1, <3>2
  <2>3. ASSUME NEW next, InsertRow(p, next) PROVE \E r : (Reply(p) \/ Becomes(p, r)) /\ r.role # "admin"
    <3>1. PICK i : Reply(p)
                   \/ Becomes(p, [req[p] EXCEPT !.pc = next, !.id = i, !.created = TRUE])
      BY <2>3 DEF InsertRow
    <3>2. [req[p] EXCEPT !.pc = next, !.id = i, !.created = TRUE].role # "admin"
      BY <1>1 DEF TypeInv, TypeOK, Requests
    <3> QED BY <3>1, <3>2
  <2>4. ASSUME NEW next, NextCandidate(p, next) PROVE \E r : (Reply(p) \/ Becomes(p, r)) /\ r.role # "admin"
    <3> DEFINE rest == Remaining(req[p].names)
    <3>1. Reply(p) \/ Becomes(p, [req[p] EXCEPT !.pc = next, !.names = rest])
      BY <2>4 DEF NextCandidate
    <3>2. [req[p] EXCEPT !.pc = next, !.names = rest].role # "admin"
      BY <1>1 DEF TypeInv, TypeOK, Requests
    <3> QED BY <3>1, <3>2
  <2> QED BY <2>1, <2>2, <2>3, <2>4
<1> QED BY <1>2, <1>3, NoAdminsKept

\* With no cluster admin, and no request of one to make another, there is never one.
THEOREM AdminsClosed == Spec => AdminSetClosed
<1>1. TypeInv /\ GrantInv /\ [Next]_vars => [NoAdmins => NoAdmins']_vars
  <2> SUFFICES ASSUME TypeInv, GrantInv, Next, NoAdmins PROVE NoAdmins'
    BY DEF vars
  <2>1. ASSUME NEW p \in Procs, Call(p) PROVE NoAdmins'
    <3>1. PICK r : Becomes(p, r) /\ (r.role = "admin" => AdminCaller)
      BY <2>1, CallRecord DEF IsCall
    <3>2. r.role # "admin"
      BY <3>1 DEF NoAdmins, AdminCaller
    <3>3. UNCHANGED tuples
      BY <2>1 DEF Call, CallResolve, CallCreate, CallUpdate, CallDelete
    <3> QED BY <3>1, <3>2, <3>3, NoAdminsKept
  <2>2. ASSUME NEW p \in Procs, Step(p) PROVE NoAdmins'
    <3>1. CASE Select(p) \/ Insert(p) \/ Reselect(p) \/ InsertNew(p) \/ ListMemberships(p)
      <4>1. UNCHANGED tuples
        BY <3>1 DEF Select, Insert, Reselect, InsertNew, ListMemberships, InsertRow,
                    NextCandidate
      <4>2. \A i \in Ids : <<i, Cluster>> \notin tuples'
        BY <4>1 DEF NoAdmins
      <4>3. CASE Reply(p) \/ Goto(p, "insert") \/ Goto(p, "reselect")
        BY <4>2, <4>3, NoAdminsReply, NoAdminsGoto
      <4>4. CASE FoundBySubject(p) \/ ListMemberships(p)
                 \/ (\E next : InsertRow(p, next) \/ NextCandidate(p, next))
        BY <4>1, <4>4, NoAdminsEdit
      <4> QED BY <3>1, <4>3, <4>4 DEF Select, Insert, Reselect, InsertNew
    <3>2. CASE Register(p) \/ RegisterNew(p) \/ Update(p) \/ Rollback(p) \/ Delete(p)
      <4>1. UNCHANGED tuples
        BY <3>2 DEF Register, RegisterNew, Update, Rollback, Delete
      <4>2. Reply(p) \/ Goto(p, "rollback") \/ Goto(p, "grant") \/ Goto(p, "sync")
        BY <3>2 DEF Register, RegisterNew, Update, Rollback, Delete, Answer
      <4>3. \A i \in Ids : <<i, Cluster>> \notin tuples'
        BY <4>1 DEF NoAdmins
      <4> QED BY <4>2, <4>3, NoAdminsReply, NoAdminsGoto
    <3>3. CASE Sync(p) \/ Demote(p) \/ Revoke(p)
      <4>1. tuples' \subseteq tuples
        BY <3>3 DEF Sync, Demote, Revoke, SyncClusterRole, EraseTuples, NoAdmins
      <4>2. Reply(p) \/ Goto(p, "list") \/ Goto(p, "delete")
        BY <3>3 DEF Sync, Demote, Revoke
      <4>3. \A i \in Ids : <<i, Cluster>> \notin tuples'
        BY <4>1 DEF NoAdmins
      <4> QED BY <4>2, <4>3, NoAdminsReply, NoAdminsGoto
    <3>4. ~Grant(p)
      BY DEF Grant, GrantInv, NoAdmins
    <3> QED BY <2>2, <3>1, <3>2, <3>3, <3>4 DEF Step
  <2>3. ASSUME NEW p \in Procs, Crash(p) PROVE NoAdmins'
    BY <2>3, NoAdminsReply DEF Crash, NoAdmins
  <2>4. CASE Environment
    <3>1. UNCHANGED req
      BY <2>4 DEF Environment, UpdateMe, OrgJoin, OrgLeave
    <3>2. \A i \in Ids : <<i, Cluster>> \in tuples' => <<i, Cluster>> \in tuples
      <4>1. \A i \in Ids, o \in Orgs : <<i, Cluster>> # <<i, o>>
        BY NoneAssumption
      <4>2. ASSUME NEW i \in Ids, NEW o \in Orgs, OrgJoin(i, o) \/ OrgLeave(i, o),
                   NEW j \in Ids, <<j, Cluster>> \in tuples'
            PROVE  <<j, Cluster>> \in tuples
        BY <4>1, <4>2 DEF OrgJoin, OrgLeave, WriteTuple, EraseTuples
      <4>3. \/ UNCHANGED tuples
            \/ \E i \in Ids, o \in Orgs : OrgJoin(i, o) \/ OrgLeave(i, o)
        BY <2>4 DEF Environment, UpdateMe, TypeInv, TypeOK
      <4> QED BY <4>2, <4>3
    <3> QED BY <3>1, <3>2 DEF NoAdmins
  <2> QED BY <2>1, <2>2, <2>3, <2>4 DEF Next
<1> QED BY <1>1, Typed, Granting, PTL DEF Spec, AdminSetClosed
-----------------------------------------------------------------------------
(* DeleteUser leaves no relation behind.  A tuple written while its user   *)
(* was settled stays under the eyes of every DeleteUser that is still      *)
(* going to remove the user's row: each pc of the handler says what its    *)
(* cleanup has dealt with already.                                         *)

Watched(r, t) ==
  r.id = t[1] =>
    /\ r.pc \in {"list", "revoke"} => t[2] # Cluster
    /\ r.pc = "revoke" => t[2] \in r.orgs
    /\ r.pc # "delete"

SettledTuple(t) ==
  /\ Live(t[1])
  /\ \A p \in Procs : ~Creating(p, t[1]) /\ Watched(req[p], t)

CleanupInv == \A t \in tuples \ late : SettledTuple(t)

LEMMA TuplePair ==
  ASSUME TypeInv, NEW t \in tuples
  PROVE  t = <<t[1], t[2]>> /\ t[1] \in Ids /\ t[2] \in Orgs \cup {Cluster}
BY DEF TypeInv, TypeOK

\* What is written settled was so in the eyes of all requests considered.
LEMMA WriteSettled ==
  ASSUME NEW t, NEW procs, WriteTuple(t, procs), NEW u \in (tuples \ late)'
  PROVE  u \in tuples \ late \/ (u = t /\ ~Unsettled(t, procs))
BY DEF WriteTuple

LEMMA EraseSettled ==
  ASSUME NEW S, EraseTuples(S), NEW u \in (tuples \ late)'
  PROVE  u \in tuples \ late /\ u \notin S
BY DEF EraseTuples

\* A tuple stays settled when the user's row stays and the request that moves
\* neither becomes its creator nor forgets it.
LEMMA SettledKept ==
  ASSUME TypeInv, NEW t, SettledTuple(t), [Next]_vars, NEW p \in Procs,
         \A q \in Procs \ {p} : req'[q] = req[q],
         ~(Creating(p, t[1])'), Watched(req'[p], t)
  PROVE  SettledTuple(t)'
<1>1. \A q \in Procs \ {p} : ~(Creating(q, t[1])') /\ Watched(req'[q], t)
  BY DEF SettledTuple, Creating
<1>2. Live(t[1])'
  <2>1. SUFFICES ASSUME ~Live(t[1])' PROVE FALSE
    OBVIOUS
  <2>2. PICK q \in Procs : (Rollback(q) \/ Delete(q)) /\ req[q].id = t[1]
    BY <2>1, RowsKept DEF SettledTuple
  <2>3. req[q].pc \in {"rollback", "delete"}
    BY <2>2 DEF Rollback, Delete
  <2> QED BY <2>2, <2>3 DEF SettledTuple, Creating, Watched
<1> QED BY <1>1, <1>2 DEF SettledTuple

LEMMA SettledReply ==
  ASSUME TypeInv, NEW t, SettledTuple(t), [Next]_vars, NEW p \in Procs, Reply(p)
  PROVE  SettledTuple(t)'
<1>1. req'[p] = NoReq /\ \A q \in Procs \ {p} : req'[q] = req[q]
  BY BecomesElse DEF Reply
<1> QED BY <1>1, SettledKept DEF Creating, Watched, NoReq

\* A handler that does not look at tuples, or whose cleanup dealt with t.
LEMMA SettledGoto ==
  ASSUME TypeInv, NEW t, SettledTuple(t), [Next]_vars, NEW p \in Procs, NEW pc, Goto(p, pc),
         pc \in {"registerNew", "grant", "rollback"} => Creating(p, req[p].id),
         pc # "register",
         req[p].id = t[1] =>
           /\ pc \in {"list", "revoke"} => t[2] # Cluster
           /\ pc = "revoke" => t[2] \in req[p].orgs
           /\ pc # "delete"
  PROVE  SettledTuple(t)'
<1>1. /\ req'[p].pc = pc /\ req'[p].id = req[p].id /\ req'[p].orgs = req[p].orgs
      /\ \A q \in Procs \ {p} : req'[q] = req[q]
  BY GotoElse
<1>2. ~(Creating(p, t[1])')
  BY <1>1 DEF Creating, SettledTuple
<1>3. Watched(req'[p], t)
  BY <1>1 DEF Watched
<1> QED BY <1>1, <1>2, <1>3, SettledKept
\* Whatever a request does next, a settled tuple it does not erase stays settled.
LEMMA OldSettled ==
  ASSUME TypeInv, CreationInv, CleanupInv, [Next]_vars, NEW p \in Procs,
         Step(p) \/ Call(p) \/ Crash(p),
         NEW t \in tuples \ late, t \in tuples'
  PROVE  SettledTuple(t)'
<1> USE DEF HasSubject
<1>1. SettledTuple(t) /\ t[1] \in used
  BY DEF CleanupInv, SettledTuple, Live, TypeInv, LiveUsed
<1>2. ASSUME FoundBySubject(p), req[p].pc \in HasSubject PROVE SettledTuple(t)'
  <2>1. PICK u \in users : Becomes(p, [req[p] EXCEPT !.pc = "register", !.id = u.id])
    BY <1>2 DEF FoundBySubject
  <2> DEFINE r == [req[p] EXCEPT !.pc = "register", !.id = u.id]
  <2>2. r.pc = "register" /\ ~r.created
    BY <1>2 DEF TypeInv, TypeOK, Requests, CreationInv
  <2>3. Becomes(p, r)
    BY <2>1
  <2> HIDE DEF r
  <2>4. req'[p] = r /\ \A q \in Procs \ {p} : req'[q] = req[q]
    BY <2>3, BecomesElse
  <2> QED BY <1>1, <2>2, <2>4, SettledKept DEF Creating, Watched
<1>3. ASSUME NEW next \in {"register", "registerNew"}, InsertRow(p, next)
      PROVE  SettledTuple(t)'
  <2>1. CASE ~Reply(p)
    <3>1. PICK i \in Ids \ used :
            Becomes(p, [req[p] EXCEPT !.pc = next, !.id = i, !.created = TRUE])
      BY <1>3, <2>1 DEF InsertRow
    <3> DEFINE r == [req[p] EXCEPT !.pc = next, !.id = i, !.created = TRUE]
    <3>2. r.id = i
      BY DEF TypeInv, TypeOK, Requests
    <3>3. Becomes(p, r)
      BY <3>1
    <3> HIDE DEF r
    <3>4. req'[p] = r /\ \A q \in Procs \ {p} : req'[q] = req[q]
      BY <3>3, BecomesElse
    <3> QED BY <1>1, <3>1, <3>2, <3>4, SettledKept DEF Creating, Watched
  <2> QED BY <1>1, <2>1, SettledReply
<1>4. ASSUME NEW next \in {"select", "insertNew"}, NextCandidate(p, next)
      PROVE  SettledTuple(t)'
  <2> DEFINE r == [req[p] EXCEPT !.pc = next, !.names = Remaining(req[p].names)]
  <2>1. Reply(p) \/ Becomes(p, r)
    BY <1>4 DEF NextCandidate
  <2>2. r.pc = next
    BY DEF TypeInv, TypeOK, Requests
  <2> HIDE DEF r
  <2>3. CASE Becomes(p, r)
    <3>1. req'[p] = r /\ \A q \in Procs \ {p} : req'[q] = req[q]
      BY <2>3, BecomesElse
    <3> QED BY <1>1, <2>2, <3>1, SettledKept DEF Creating, Watched
  <2> QED BY <1>1, <2>1, <2>3, SettledReply
<1>5. CASE Select(p) \/ Insert(p) \/ Reselect(p) \/ InsertNew(p)
  <2>1. CASE Goto(p, "insert") \/ Goto(p, "reselect")
    BY <1>1, <2>1, SettledGoto
  <2> QED
    BY <1>1, <1>2, <1>3, <1>4, <1>5, <2>1, SettledReply DEF Select, Insert, Reselect, InsertNew
<1>6. CASE Register(p) \/ RegisterNew(p)
  <2>1. CASE Reply(p)
    BY <1>1, <2>1, SettledReply
  <2>2. CASE Goto(p, "rollback") /\ Creating(p, req[p].id)
    BY <1>1, <2>2, SettledGoto
  <2>3. CASE Goto(p, "grant") /\ Creating(p, req[p].id)
    BY <1>1, <2>3, SettledGoto
  <2>4. CASE Register(p)
    BY <2>1, <2>2, <2>4 DEF Register, SignInFails, Answer, Creating
  <2>5. CASE RegisterNew(p)
    BY <2>1, <2>2, <2>3, <2>5 DEF RegisterNew, Answer, Creating
  <2> QED BY <1>6, <2>4, <2>5
<1>7. CASE Rollback(p) \/ Delete(p) \/ Crash(p) \/ Sync(p)
  BY <1>1, <1>7, SettledReply DEF Rollback, Delete, Crash, Sync
<1>8. CASE Update(p)
  <2>1. Goto(p, "sync") \/ Reply(p)
    BY <1>8 DEF Update
  <2> QED BY <1>1, <2>1, SettledGoto, SettledReply
<1>9. CASE ListMemberships(p)
  <2>1. CASE ~Reply(p)
    <3> DEFINE orgs == Memberships(req[p].id)
               next == IF orgs = {} THEN "delete" ELSE "revoke"
               r == [req[p] EXCEPT !.pc = next, !.orgs = orgs]
    <3>1. Becomes(p, r) /\ req[p].pc = "list"
      BY <1>9, <2>1 DEF ListMemberships
    <3>2. r.pc = next /\ r.id = req[p].id /\ r.orgs = orgs
      BY DEF TypeInv, TypeOK, Requests
    <3>3. req[p].id = t[1] => t[2] \in orgs
      <4>1. req[p].id = t[1] => t[2] # Cluster
        BY <1>1, <3>1 DEF SettledTuple, Watched
      <4> QED BY <4>1, TuplePair DEF Memberships
    <3>4. req[p].id = t[1] => t[2] # Cluster
      BY <1>1, <3>1 DEF SettledTuple, Watched
    <3>5. next \in {"delete", "revoke"} /\ (t[2] \in orgs => next = "revoke")
      OBVIOUS
    <3> HIDE DEF r, next, orgs
    <3>6. req'[p] = r /\ \A q \in Procs \ {p} : req'[q] = req[q]
      BY <3>1, BecomesElse
    <3>7. ~(Creating(p, t[1])') /\ Watched(req'[p], t)
      BY <3>2, <3>3, <3>4, <3>5, <3>6 DEF Creating, Watched
    <3> QED BY <1>1, <3>6, <3>7, SettledKept
  <2> QED BY <1>1, <2>1, SettledReply
<1>10. CASE Grant(p) \/ Demote(p) \/ Revoke(p)
  <2>1. CASE Reply(p)
    BY <1>1, <2>1, SettledReply
  <2>2. CASE Goto(p, "rollback") /\ req[p].pc = "grant"
    BY <1>1, <2>2, SettledGoto DEF Creating
  <2>3. CASE Demote(p) /\ Goto(p, "list")
    <3>1. t # <<req[p].id, Cluster>>
      <4>1. ~Reply(p)
        BY <2>3, GotoElse, BecomesElse DEF Reply, NoReq
      <4>2. \E a \in Answers : a = "ok" /\ SyncClusterRole(req[p].id, "none", a, Procs)
        BY <2>3, <4>1 DEF Demote, SyncFails, SyncCode
      <4> QED BY <4>2 DEF SyncClusterRole, EraseTuples
    <3>2. req[p].id = t[1] => t[2] # Cluster
      BY <3>1, TuplePair
    <3> QED BY <1>1, <2>3, <3>2, SettledGoto
  <2>4. CASE Revoke(p) /\ Goto(p, "delete")
    <3>1. req[p].id # t[1]
      <4>1. ASSUME req[p].id = t[1] PROVE FALSE
        <5>1. t[2] \in req[p].orgs
          BY <1>1, <2>4, <4>1 DEF Revoke, SettledTuple, Watched
        <5>2. t \in {<<req[p].id, o>> : o \in req[p].orgs}
          BY <4>1, <5>1, TuplePair
        <5>3. ~Reply(p)
          BY <2>4, GotoElse, BecomesElse DEF Reply, NoReq
        <5> QED BY <2>4, <5>2, <5>3 DEF Revoke, EraseTuples
      <4> QED BY <4>1
    <3> QED BY <1>1, <2>4, <3>1, SettledGoto
  <2> QED BY <1>10, <2>1, <2>2, <2>3, <2>4 DEF Grant, Demote, Revoke, Answer
<1>11. CASE Call(p)
  <2>1. PICK r : Becomes(p, r) /\ r.pc \in {"select", "insertNew", "update", "demote"}
    BY <1>11, CallRecord DEF IsCall
  <2>2. req'[p] = r /\ \A q \in Procs \ {p} : req'[q] = req[q]
    BY <2>1, BecomesElse
  <2> QED BY <1>1, <2>1, <2>2, SettledKept DEF Creating, Watched
<1> QED BY <1>5, <1>6, <1>7, <1>8, <1>9, <1>10, <1>11 DEF Step
\* A tuple that p writes for id i as settled, ending its own request.
LEMMA NewSettled ==
  ASSUME TypeInv, NEW p \in Procs, NEW procs, procs = Procs \/ procs = Procs \ {p},
         Reply(p), UNCHANGED users, NEW t, ~Unsettled(t, procs)
  PROVE  SettledTuple(t)'
<1>1. req'[p] = NoReq /\ \A q \in Procs \ {p} : req'[q] = req[q]
  BY BecomesElse DEF Reply
<1>2. Live(t[1])'
  BY DEF Unsettled, Live
<1>3. \A q \in Procs \ {p} : ~(Creating(q, t[1])') /\ Watched(req'[q], t)
  BY <1>1 DEF Unsettled, Creating, PastCleanup, Watched
<1>4. ~(Creating(p, t[1])') /\ Watched(req'[p], t)
  BY <1>1 DEF Creating, Watched, NoReq
<1> QED BY <1>2, <1>3, <1>4 DEF SettledTuple

LEMMA NextCleanup == TypeInv /\ CreationInv /\ CleanupInv /\ [Next]_vars => CleanupInv'
<1> SUFFICES ASSUME TypeInv, CreationInv, CleanupInv, [Next]_vars,
                    NEW t \in (tuples \ late)'
             PROVE  SettledTuple(t)'
  BY DEF CleanupInv
<1>1. CASE UNCHANGED vars
  BY <1>1 DEF vars, CleanupInv, SettledTuple, Live, Creating
<1>2. ASSUME NEW p \in Procs, Step(p) \/ Call(p) \/ Crash(p), t \in tuples \ late
      PROVE  SettledTuple(t)'
  BY <1>2, OldSettled
<1>3. ASSUME NEW p \in Procs, Grant(p), t \notin tuples \ late
      PROVE  SettledTuple(t)'
  <2> DEFINE u == <<req[p].id, Cluster>>
  <2>1. PICK procs \in {Procs, Procs \ {p}} :
          /\ WriteTuple(u, procs) \/ UNCHANGED <<tuples, late>>
          /\ Reply(p) \/ procs = Procs
    BY <1>3 DEF Grant, SyncClusterRole, Answer
  <2>2. t = u /\ ~Unsettled(t, procs)
    BY <1>3, <2>1, WriteSettled
  <2>3. procs # Procs
    BY <1>3, <2>2 DEF Grant, Unsettled, Creating
  <2> QED BY <1>3, <2>1, <2>2, <2>3, NewSettled DEF Grant
<1>4. ASSUME NEW p \in Procs, Sync(p), t \notin tuples \ late
      PROVE  SettledTuple(t)'
  <2> DEFINE u == <<req[p].id, Cluster>>
  <2>1. WriteTuple(u, Procs) \/ EraseTuples({u}) \/ UNCHANGED <<tuples, late>>
    BY <1>4 DEF Sync, SyncClusterRole
  <2>2. ~Unsettled(t, Procs)
    BY <1>4, <2>1, WriteSettled, EraseSettled
  <2> QED BY <1>4, <2>2, NewSettled DEF Sync
<1>5. ASSUME NEW p \in Procs, Step(p) \/ Call(p) \/ Crash(p), t \notin tuples \ late
      PROVE  SettledTuple(t)'
  <2>1. CASE Demote(p) \/ Revoke(p)
    BY <1>5, <2>1 DEF Demote, Revoke, SyncClusterRole, EraseTuples
  <2>2. CASE ~(Demote(p) \/ Revoke(p) \/ Grant(p) \/ Sync(p))
    BY <1>5, <2>2 DEF Step, Select, Insert, InsertRow, NextCandidate, Reselect, Register,
         Rollback, InsertNew, RegisterNew, Update, ListMemberships, Delete,
         Call, CallResolve, CallCreate, CallUpdate, CallDelete, Crash
  <2> QED BY <1>3, <1>4, <1>5, <2>1, <2>2
<1>6. CASE Environment
  <2>1. UNCHANGED req
    BY <1>6 DEF Environment, UpdateMe, OrgJoin, OrgLeave
  <2>2. CASE t \in tuples \ late
    <3>1. Live(t[1])'
      <4>1. SUFFICES ASSUME ~Live(t[1])' PROVE FALSE
        OBVIOUS
      <4>2. PICK q \in Procs : Rollback(q) \/ Delete(q)
        BY <2>2, <4>1, RowsKept DEF CleanupInv, SettledTuple
      <4>3. Reply(q) /\ req[q].pc # "idle"
        BY <4>2 DEF Rollback, Delete
      <4> QED BY <2>1, <4>3, BecomesElse DEF Reply, NoReq
    <3> QED BY <2>1, <2>2, <3>1 DEF CleanupInv, SettledTuple, Creating
  <2>3. CASE t \notin tuples \ late
    <3>1. PICK i \in Ids, o \in Orgs : OrgJoin(i, o) \/ OrgLeave(i, o)
      BY <1>6, <2>3 DEF Environment, UpdateMe, TypeInv, TypeOK
    <3>2. ~Unsettled(t, Procs) /\ UNCHANGED users
      BY <2>3, <3>1, WriteSettled, EraseSettled DEF OrgJoin, OrgLeave
    <3> QED BY <2>1, <3>2 DEF Unsettled, PastCleanup, SettledTuple, Watched, Creating, Live
  <2> QED BY <2>2, <2>3
<1> QED BY <1>1, <1>2, <1>5, <1>6 DEF Next

\* DeleteUser leaves behind only the tuples written after its cleanup had passed
\* them, or while the user's creation was undecided, or once the user was gone.
THEOREM OrphansAreLate == Spec => []OrphanTuplesAreLate
<1>1. Init => CleanupInv
  <2> SUFFICES ASSUME Init, NEW t \in tuples \ late PROVE SettledTuple(t)
    BY DEF CleanupInv
  <2>1. Live(t[1])
    BY InitAssumption DEF Init, Live
  <2> QED BY <2>1 DEF Init, SettledTuple, Creating, Watched, NoReq
<1>2. CleanupInv => OrphanTuplesAreLate
  BY DEF CleanupInv, SettledTuple, OrphanTuplesAreLate
<1> QED BY <1>1, <1>2, NextCleanup, Typed, Created, PTL DEF Spec
=============================================================================
