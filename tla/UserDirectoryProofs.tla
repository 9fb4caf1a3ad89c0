------------------------- MODULE UserDirectoryProofs -------------------------
(* UserAccounts implements UserDirectory: each step of a handler is a step *)
(* of the directory, or none.                                              *)
EXTENDS UserAccountsProofs

\* What the refinement takes for the announcements and the deletions under way.
Announced == {i \in Ids : <<i, TRUE>> \in answered}
Doomed == {i \in Ids : \E p \in Procs : req[p].id = i /\ Deleting(p)}

Stutters == UNCHANGED <<users, used, Announced, Doomed>>
DirectoryStep == [Directory!Next]_(Directory!vars)

LEMMA StutterStep == Stutters => DirectoryStep
BY DEF Stutters, DirectoryStep, Directory!vars, Announced, Doomed

-----------------------------------------------------------------------------
(* The actions of the directory, over the variables of UserAccounts.       *)

LEMMA AppearStep ==
  ASSUME NEW u \in Rows, u.id \notin used, ~SubjectTaken(u.subject),
         ~UsernameTaken(u.username), \A v \in users : v.id \in used,
         users' = users \cup {u}, used' = used \cup {u.id}, UNCHANGED <<Announced, Doomed>>
  PROVE  DirectoryStep
<1>1. Directory!Free(u, users)
  BY DEF Directory!Free, SubjectTaken, UsernameTaken
<1>2. Directory!Appear(u)
  BY <1>1 DEF Directory!Appear, Announced, Doomed
<1>3. u \in Directory!Accounts
  BY DEF Rows, Directory!Accounts
<1> QED BY <1>2, <1>3 DEF DirectoryStep, Directory!Next

LEMMA AnnounceStep ==
  ASSUME NEW i \in Ids, i \in used, Announced' = Announced \cup {i},
         UNCHANGED <<users, used, Doomed>>
  PROVE  DirectoryStep
BY DEF DirectoryStep, Directory!Next, Directory!Announce, Announced, Doomed

LEMMA WithdrawStep ==
  ASSUME NEW i \in Ids, i \notin Announced, users' = {u \in users : u.id # i},
         UNCHANGED <<used, Announced, Doomed>>
  PROVE  DirectoryStep
BY DEF DirectoryStep, Directory!Next, Directory!Withdraw, Directory!Without, Announced, Doomed

LEMMA AskStep ==
  ASSUME NEW i \in Ids, i \in used, Doomed' = Doomed \cup {i},
         UNCHANGED <<users, used, Announced>>
  PROVE  DirectoryStep
BY DEF DirectoryStep, Directory!Next, Directory!AskDeletion, Announced, Doomed

LEMMA EndStep ==
  ASSUME NEW i \in Ids, i \in Doomed, users' \in {users, {u \in users : u.id # i}},
         Doomed' \in {Doomed, Doomed \ {i}}, UNCHANGED <<used, Announced>>
  PROVE  DirectoryStep
BY DEF DirectoryStep, Directory!Next, Directory!EndDeletion, Directory!Without, Announced, Doomed

\* Store.UpdateUser is a renaming: of one row, to a username no other row has.
LEMMA RenameStep ==
  ASSUME TypeInv, UniqueKeys, NEW i, NEW names \in Seq(Usernames), MayRename(i, names),
         users' = Renamed(i, names), UNCHANGED <<used, Announced, Doomed>>
  PROVE  DirectoryStep
<1>1. CASE names = <<>>
  <2>1. users' = users
    BY <1>1 DEF Renamed
  <2> QED BY <2>1, StutterStep DEF Stutters
<1>2. CASE names # <<>>
  <2> DEFINE n == Head(names)
  <2>1. n \in Usernames
    BY <1>2
  <2>2. PICK u \in users : u.id = i
    BY DEF MayRename, Live
  <2> DEFINE v == [u EXCEPT !.username = n]
  <2>3. users \subseteq Rows
    BY DEF TypeInv, TypeOK
  <2>4. v.id = u.id /\ v.subject = u.subject /\ v.username = n
    BY <2>2, <2>3 DEF Rows
  <2>5. \A w \in users : w.id = i <=> w = u
    BY <2>2 DEF UniqueKeys, UniqueIn
  <2>6. users' = {w \in users : w.id # u.id} \cup {v}
    <3>1. users' = {IF w.id = i THEN [w EXCEPT !.username = n] ELSE w : w \in users}
      BY <1>2 DEF Renamed
    <3>2. \A w \in users : (IF w.id = i THEN [w EXCEPT !.username = n] ELSE w)
                           = IF w = u THEN v ELSE w
      BY <2>5
    <3>3. users' = {IF w = u THEN v ELSE w : w \in users}
      BY <3>1, <3>2
    <3> HIDE DEF v
    <3> QED BY <3>3, <2>2, <2>5
  <2>7. Directory!Free(v, {w \in users : w.id # u.id})
    <3> SUFFICES ASSUME NEW w \in users, w.id # u.id
                 PROVE  w.id # v.id /\ w.subject # v.subject
                        /\ (w.username = v.username => v.username = None)
      BY DEF Directory!Free
    <3>1. w.subject # u.subject
      BY <2>2 DEF UniqueKeys, UniqueIn
    <3>2. w.username # n
      BY <1>2, <2>2 DEF MayRename
    <3> HIDE DEF v
    <3> QED BY <2>4, <3>1, <3>2
  <2>8. Directory!Rename(u, n)
    BY <2>6, <2>7 DEF Directory!Rename, Directory!Without, Announced, Doomed
  <2> QED BY <2>1, <2>2, <2>8 DEF DirectoryStep, Directory!Next
<1> QED BY <1>1, <1>2

-----------------------------------------------------------------------------
(* What a step of a request does to the deletions under way.               *)

LEMMA DoomedKept ==
  ASSUME NEW p \in Procs, \A q \in Procs \ {p} : req'[q] = req[q],
         \A i \in Ids : (req[p].id = i /\ Deleting(p))' <=> req[p].id = i /\ Deleting(p)
  PROVE  UNCHANGED Doomed
<1>1. \A i \in Ids, q \in Procs :
        (req[q].id = i /\ Deleting(q))' <=> req[q].id = i /\ Deleting(q)
  BY DEF Deleting
<1> QED BY <1>1 DEF Doomed

\* A request that is no deletion, before and after.
LEMMA DoomedBecomes ==
  ASSUME TypeInv, NEW p \in Procs, NEW r, Becomes(p, r), ~Deleting(p),
         r.pc \notin {"demote", "list", "revoke", "delete"}
  PROVE  UNCHANGED Doomed
<1>1. req'[p] = r /\ \A q \in Procs \ {p} : req'[q] = req[q]
  BY BecomesElse
<1> QED BY <1>1, DoomedKept DEF Deleting

LEMMA DoomedReply ==
  ASSUME TypeInv, NEW p \in Procs, Reply(p), ~Deleting(p)
  PROVE  UNCHANGED Doomed
BY DoomedBecomes DEF Reply, NoReq

LEMMA DoomedGoto ==
  ASSUME TypeInv, NEW p \in Procs, NEW pc, Goto(p, pc),
         pc \in {"demote", "list", "revoke", "delete"} <=> Deleting(p)
  PROVE  UNCHANGED Doomed
<1>1. /\ req'[p].pc = pc /\ req'[p].id = req[p].id
      /\ \A q \in Procs \ {p} : req'[q] = req[q]
  BY GotoElse
<1> QED BY <1>1, DoomedKept DEF Deleting

\* The end of a deletion: another one of the same user may be under way.
LEMMA DoomedEnds ==
  ASSUME TypeInv, NEW p \in Procs, Reply(p), Deleting(p)
  PROVE  req[p].id \in Doomed /\ Doomed' \in {Doomed, Doomed \ {req[p].id}}
<1> DEFINE i == req[p].id
<1>1. i \in Ids
  BY IdType DEF Deleting, HasId, HasSubject, PCs
<1>2. req'[p] = NoReq /\ \A q \in Procs \ {p} : req'[q] = req[q]
  BY BecomesElse DEF Reply
<1>3. ~Deleting(p)' /\ \A q \in Procs \ {p} : Deleting(q)' <=> Deleting(q)
  BY <1>2 DEF Deleting, NoReq
<1>4. \A j \in Ids \ {i} : j \in Doomed' <=> j \in Doomed
  BY <1>2, <1>3 DEF Doomed
<1>5. i \in Doomed
  BY <1>1 DEF Doomed
<1>6. Doomed \subseteq Ids /\ Doomed' \subseteq Ids
  BY DEF Doomed
<1> HIDE DEF i
<1>7. i \in Doomed' => Doomed' = Doomed
  <2> HAVE i \in Doomed'
  <2>1. \A j : j \in Doomed' <=> j \in Doomed
    BY <1>4, <1>5, <1>6
  <2> QED BY <2>1
<1>8. i \notin Doomed' => Doomed' = Doomed \ {i}
  <2> HAVE i \notin Doomed'
  <2>1. \A j : j \in Doomed' <=> j \in Doomed \ {i}
    BY <1>4, <1>5, <1>6
  <2> QED BY <2>1
<1>9. Doomed' \in {Doomed, Doomed \ {i}}
  BY <1>7, <1>8
<1> QED BY <1>5, <1>9 DEF i

\* The answer of a creation announces it, other answers announce nothing.
LEMMA AnswerStep ==
  ASSUME TypeInv, NEW p \in Procs, Answer(p), ~Deleting(p), req[p].pc \in HasId,
         UNCHANGED <<users, used>>
  PROVE  DirectoryStep
<1>1. req[p].id \in Ids /\ req[p].id \in used /\ req[p].created \in BOOLEAN
  BY IdType DEF TypeInv, TypeOK, Requests
<1>2. UNCHANGED Doomed
  BY DoomedReply DEF Answer
<1>3. CASE req[p].created
  <2>1. Announced' = Announced \cup {req[p].id}
    BY <1>1, <1>3 DEF Answer, Announced
  <2> QED BY <1>1, <1>2, <2>1, AnnounceStep
<1>4. CASE ~req[p].created
  <2>1. UNCHANGED Announced
    BY <1>1, <1>4 DEF Answer, Announced
  <2> QED BY <1>2, <2>1, StutterStep DEF Stutters
<1> QED BY <1>3, <1>4

-----------------------------------------------------------------------------
(* The steps of the handlers.                                              *)

LEMMA CallImplements ==
  ASSUME TypeInv, NEW p \in Procs, Call(p)
  PROVE  DirectoryStep
<1>1. ~Deleting(p) /\ UNCHANGED <<users, used, Announced>>
  BY DEF Call, CallResolve, CallCreate, CallUpdate, CallDelete, Deleting, Announced
<1>2. ASSUME NEW s, NEW names, CallResolve(p, s, names)
      PROVE  DirectoryStep
  BY <1>1, <1>2, DoomedBecomes, StutterStep DEF CallResolve, NoReq, Stutters
<1>3. ASSUME NEW s, NEW names, NEW role, CallCreate(p, s, names, role)
      PROVE  DirectoryStep
  BY <1>1, <1>3, DoomedBecomes, StutterStep DEF CallCreate, NoReq, Stutters
<1>4. ASSUME NEW i, NEW names, NEW role, CallUpdate(p, i, names, role)
      PROVE  DirectoryStep
  BY <1>1, <1>4, DoomedBecomes, StutterStep DEF CallUpdate, NoReq, Stutters
<1>5. ASSUME NEW i \in used, CallDelete(p, i)
      PROVE  DirectoryStep
  <2>1. i \in Ids
    BY DEF TypeInv, TypeOK
  <2>2. /\ req'[p].pc = "demote" /\ req'[p].id = i
        /\ \A q \in Procs \ {p} : req'[q] = req[q]
    <3> DEFINE r == [NoReq EXCEPT !.pc = "demote", !.id = i]
    <3>1. Becomes(p, r)
      BY <1>5 DEF CallDelete
    <3>2. r.pc = "demote" /\ r.id = i
      BY DEF NoReq
    <3> HIDE DEF r
    <3> QED BY <3>1, <3>2, BecomesElse
  <2>3. \A j \in Ids, q \in Procs :
          (req[q].id = j /\ Deleting(q))'
            <=> (q = p /\ j = i) \/ (req[q].id = j /\ Deleting(q))
    BY <1>1, <2>2 DEF Deleting
  <2>4. Doomed' = Doomed \cup {i}
    BY <2>1, <2>3 DEF Doomed
  <2> QED BY <1>1, <2>1, <2>4, AskStep
<1> QED BY <1>2, <1>3, <1>4, <1>5 DEF Call

LEMMA InsertImplements ==
  ASSUME TypeInv, NEW p \in Procs, NEW next \in {"register", "registerNew"},
         req[p].pc \in {"insert", "insertNew"}, InsertRow(p, next)
  PROVE  DirectoryStep
<1>1. UNCHANGED Announced
  BY DEF InsertRow, Announced
<1>2. UNCHANGED Doomed
  <2>1. CASE Reply(p)
    BY <2>1, DoomedReply DEF Deleting
  <2>2. ASSUME NEW i, Becomes(p, [req[p] EXCEPT !.pc = next, !.id = i, !.created = TRUE])
        PROVE  UNCHANGED Doomed
    <3>1. [req[p] EXCEPT !.pc = next, !.id = i, !.created = TRUE].pc = next
      BY DEF TypeInv, TypeOK, Requests
    <3> QED BY <2>2, <3>1, DoomedBecomes DEF Deleting
  <2> QED BY <2>1, <2>2 DEF InsertRow
<1>3. CASE UNCHANGED <<users, used>>
  BY <1>1, <1>2, <1>3, StutterStep DEF Stutters
<1>4. ASSUME NEW i \in Ids \ used,
             users' = users \cup {[id |-> i, subject |-> req[p].subject,
                                   username |-> Head(req[p].names)]},
             used' = used \cup {i}
      PROVE  DirectoryStep
  <2> DEFINE u == [id |-> i, subject |-> req[p].subject, username |-> Head(req[p].names)]
  <2>1. req[p].subject \in Subjects /\ Head(req[p].names) \in Usernames
    BY DEF TypeInv, TypeOK, RequestsOK, RequestShape, Requests, HasSubject, HasNames
  <2>2. u \in Rows
    BY <2>1 DEF Rows
  <2>3. u.id = i /\ ~SubjectTaken(u.subject) /\ ~UsernameTaken(u.username)
    BY DEF InsertRow
  <2>4. \A v \in users : v.id \in used
    BY DEF TypeInv, LiveUsed
  <2>5. users' = users \cup {u} /\ used' = used \cup {u.id}
    BY <1>4
  <2> HIDE DEF u
  <2> QED BY <1>1, <1>2, <2>2, <2>3, <2>4, <2>5, AppearStep
<1> QED BY <1>3, <1>4 DEF InsertRow

\* The steps of sign-ins and creations before their answer, but for the insert.
LEMMA SearchImplements ==
  ASSUME TypeInv, NEW p \in Procs,
         \/ Select(p) \/ Reselect(p)
         \/ req[p].pc = "insert" /\ NextCandidate(p, "select")
         \/ req[p].pc = "insertNew" /\ NextCandidate(p, "insertNew")
  PROVE  DirectoryStep
<1>1. ~Deleting(p) /\ UNCHANGED <<users, used, Announced>>
  BY DEF Select, Reselect, NextCandidate, Deleting, Announced
<1>2. CASE Reply(p)
  BY <1>1, <1>2, DoomedReply, StutterStep DEF Stutters
<1>3. CASE Goto(p, "insert")
  BY <1>1, <1>3, DoomedGoto, StutterStep DEF Stutters
<1>4. CASE FoundBySubject(p)
  <2>1. PICK u \in users : Becomes(p, [req[p] EXCEPT !.pc = "register", !.id = u.id])
    BY <1>4 DEF FoundBySubject
  <2>2. [req[p] EXCEPT !.pc = "register", !.id = u.id].pc = "register"
    BY DEF TypeInv, TypeOK, Requests
  <2> QED BY <1>1, <2>1, <2>2, DoomedBecomes, StutterStep DEF Stutters
<1>5. ASSUME NEW next \in {"select", "insertNew"}, NextCandidate(p, next)
      PROVE  DirectoryStep
  <2> DEFINE r == [req[p] EXCEPT !.pc = next, !.names = Remaining(req[p].names)]
  <2>1. r.pc = next
    BY DEF TypeInv, TypeOK, Requests
  <2>2. Reply(p) \/ Becomes(p, r)
    BY <1>5 DEF NextCandidate
  <2> HIDE DEF r
  <2> QED BY <1>1, <1>2, <2>1, <2>2, DoomedBecomes, StutterStep DEF Stutters
<1> QED BY <1>2, <1>3, <1>4, <1>5 DEF Select, Reselect

LEMMA SignInImplements ==
  ASSUME TypeInv, CreationInv, NEW p \in Procs,
         Insert(p) \/ InsertNew(p) \/ Register(p) \/ RegisterNew(p) \/ Grant(p) \/ Rollback(p)
  PROVE  DirectoryStep
<1>1. ~Deleting(p)
  BY DEF Insert, InsertNew, Register, RegisterNew, Grant, Rollback, Deleting
<1>2. CASE Insert(p) \/ InsertNew(p)
  <2>1. ASSUME (Goto(p, "reselect") \/ Reply(p)) /\ UNCHANGED <<users, used, answered>>
        PROVE  DirectoryStep
    <3>1. UNCHANGED Doomed
      BY <1>1, <2>1, DoomedGoto, DoomedReply
    <3> QED BY <2>1, <3>1, StutterStep DEF Stutters, Announced
  <2>2. CASE Insert(p)
    <3>1. req[p].pc = "insert"
      BY <2>2 DEF Insert
    <3>2. CASE InsertRow(p, "register")
      BY <3>1, <3>2, InsertImplements
    <3>3. CASE NextCandidate(p, "select")
      BY <3>1, <3>3, SearchImplements
    <3> QED BY <2>1, <2>2, <3>2, <3>3 DEF Insert
  <2>3. CASE InsertNew(p)
    <3>1. req[p].pc = "insertNew"
      BY <2>3 DEF InsertNew
    <3>2. CASE InsertRow(p, "registerNew")
      BY <3>1, <3>2, InsertImplements
    <3>3. CASE NextCandidate(p, "insertNew")
      BY <3>1, <3>3, SearchImplements
    <3> QED BY <2>1, <2>3, <3>2, <3>3 DEF InsertNew
  <2> QED BY <1>2, <2>2, <2>3
<1>3. CASE Register(p) \/ RegisterNew(p) \/ Grant(p)
  <2>1. UNCHANGED <<users, used>> /\ req[p].pc \in HasId
    BY <1>3 DEF Register, RegisterNew, Grant, HasId, HasSubject, PCs
  <2>2. CASE Answer(p)
    BY <1>1, <2>1, <2>2, AnswerStep
  <2>3. CASE (Goto(p, "rollback") \/ Goto(p, "grant")) /\ UNCHANGED answered
    <3>1. UNCHANGED Doomed
      BY <1>1, <2>3, DoomedGoto
    <3> QED BY <2>1, <2>3, <3>1, StutterStep DEF Stutters, Announced
  <2> QED BY <1>3, <2>2, <2>3 DEF Register, RegisterNew, Grant
<1>4. CASE Rollback(p)
  <2>1. req[p].id \in Ids /\ Creating(p, req[p].id)
    BY <1>4, IdType DEF Rollback, Creating, HasId, HasSubject, PCs
  <2>2. req[p].id \notin Announced
    BY <2>1 DEF CreationInv, Announced
  <2>3. UNCHANGED <<used, Announced, Doomed>>
    BY <1>1, <1>4, DoomedReply DEF Rollback, Announced
  <2>4. users' = users \/ users' = {u \in users : u.id # req[p].id}
    BY <1>4 DEF Rollback, RemoveRow
  <2> QED BY <2>1, <2>2, <2>3, <2>4, WithdrawStep, StutterStep DEF Stutters
<1> QED BY <1>2, <1>3, <1>4

LEMMA UpdateImplements ==
  ASSUME TypeInv, UniqueKeys, NEW p \in Procs, Update(p) \/ Sync(p)
  PROVE  DirectoryStep
<1>1. ~Deleting(p) /\ UNCHANGED <<used, Announced>>
  BY DEF Update, Sync, Deleting, Announced
<1>2. UNCHANGED Doomed
  BY <1>1, DoomedReply, DoomedGoto DEF Update, Sync
<1>3. CASE UNCHANGED users
  BY <1>1, <1>2, <1>3, StutterStep DEF Stutters
<1>4. CASE MayRename(req[p].id, req[p].names) /\ users' = Renamed(req[p].id, req[p].names)
  <2>1. req[p].names \in Seq(Usernames)
    BY DEF TypeInv, TypeOK, Requests
  <2> QED BY <1>1, <1>2, <1>4, <2>1, RenameStep
<1> QED BY <1>3, <1>4 DEF Update, Sync

LEMMA DeletionImplements ==
  ASSUME TypeInv, NEW p \in Procs, Demote(p) \/ ListMemberships(p) \/ Revoke(p) \/ Delete(p)
  PROVE  DirectoryStep
<1>1. Deleting(p) /\ req[p].id \in Ids
  BY IdType DEF Demote, ListMemberships, Revoke, Delete, Deleting, HasId, HasSubject, PCs
<1>2. UNCHANGED <<used, Announced>>
  BY DEF Demote, ListMemberships, Revoke, Delete, Announced
<1>3. users' \in {users, {u \in users : u.id # req[p].id}}
  BY DEF Demote, ListMemberships, Revoke, Delete, RemoveRow
<1>4. CASE Reply(p)
  BY <1>1, <1>2, <1>3, <1>4, DoomedEnds, EndStep
<1>5. CASE ~Reply(p)
  <2>1. UNCHANGED users
    BY <1>5 DEF Demote, ListMemberships, Revoke, Delete
  <2>2. CASE Goto(p, "list") \/ Goto(p, "delete")
    BY <1>1, <1>2, <2>1, <2>2, DoomedGoto, StutterStep DEF Stutters
  <2>3. CASE ListMemberships(p)
    <3> DEFINE orgs == Memberships(req[p].id)
               r == [req[p] EXCEPT !.pc = IF orgs = {} THEN "delete" ELSE "revoke", !.orgs = orgs]
    <3>1. r.pc \in {"delete", "revoke"} /\ r.id = req[p].id
      BY DEF TypeInv, TypeOK, Requests
    <3>2. Becomes(p, r)
      BY <1>5, <2>3 DEF ListMemberships
    <3> HIDE DEF r
    <3>3. req'[p] = r /\ \A q \in Procs \ {p} : req'[q] = req[q]
      BY <3>2, BecomesElse
    <3>4. UNCHANGED Doomed
      BY <1>1, <3>1, <3>3, DoomedKept DEF Deleting
    <3> QED BY <1>2, <2>1, <3>4, StutterStep DEF Stutters
  <2> QED BY <1>5, <2>2, <2>3 DEF Demote, Revoke, Delete
<1> QED BY <1>4, <1>5

LEMMA NextImplements == TypeInv /\ UniqueKeys /\ CreationInv /\ [Next]_vars => DirectoryStep
<1> SUFFICES ASSUME TypeInv, UniqueKeys, CreationInv, [Next]_vars PROVE DirectoryStep
  OBVIOUS
<1>1. ASSUME NEW p \in Procs, Step(p) PROVE DirectoryStep
  BY <1>1, SearchImplements, SignInImplements, UpdateImplements, DeletionImplements DEF Step
<1>2. ASSUME NEW p \in Procs, Crash(p) PROVE DirectoryStep
  <2>1. UNCHANGED <<users, used, Announced>> /\ Reply(p)
    BY <1>2 DEF Crash, Announced
  <2>2. CASE Deleting(p)
    <3>1. req[p].id \in Ids
      BY <2>2, IdType DEF Deleting, HasId, HasSubject, PCs
    <3> QED BY <2>1, <2>2, <3>1, DoomedEnds, EndStep
  <2>3. CASE ~Deleting(p)
    BY <2>1, <2>3, DoomedReply, StutterStep DEF Stutters
  <2> QED BY <2>2, <2>3
<1>3. ASSUME UNCHANGED <<used, answered, req>>
      PROVE  UNCHANGED <<used, Announced, Doomed>>
  BY <1>3 DEF Announced, Doomed, Deleting
<1>4. CASE UNCHANGED <<users, used, answered, req>>
  BY <1>3, <1>4, StutterStep DEF Stutters
<1>5. ASSUME NEW i, NEW n \in Usernames, UpdateMe(i, n) PROVE DirectoryStep
  <2>1. UNCHANGED <<used, Announced, Doomed>>
    BY <1>3, <1>5 DEF UpdateMe
  <2>2. <<n>> \in Seq(Usernames)
    BY SingletonSeq
  <2> QED BY <1>5, <2>1, <2>2, RenameStep DEF UpdateMe
<1>6. CASE Environment
  BY <1>4, <1>5, <1>6 DEF Environment, OrgJoin, OrgLeave
<1>7. CASE UNCHANGED vars
  BY <1>4, <1>7 DEF vars
<1> QED BY <1>1, <1>2, <1>6, <1>7, CallImplements DEF Next

\* However the calls of the handlers interleave and fail, their callers see a
\* plain directory: accounts appear whole under fresh ids with free keys, and go
\* away only by a deletion somebody asked for or before they were announced.
THEOREM AccountsImplementDirectory == Spec => ImplementsDirectory
<1>1. Init => Directory!Init
  BY DEF Init, Directory!Init, Deleting, NoReq
<1>2. TypeInv /\ UniqueKeys /\ CreationInv /\ [Next]_vars => [Directory!Next]_(Directory!vars)
  BY NextImplements DEF DirectoryStep
<1> QED
  BY <1>1, <1>2, Typed, KeysUnique, Created, PTL DEF Spec, ImplementsDirectory, Directory!Spec
=============================================================================
