---------------------------- MODULE UserAccounts ----------------------------
(***************************************************************************)
(* The account operations of the users service: sign-in                    *)
(* (ResolveOrCreateUser), CreateUser, UpdateUser, UpdateMe and DeleteUser  *)
(* (internal/server/server.go over internal/store/store.go).  One request  *)
(* spans three stores that share no transaction:                           *)
(*   users       the rows of the PostgreSQL table,                         *)
(*   registered  the records of the Identity service,                      *)
(*   tuples      the relations of the Authorization service.               *)
(* A handler is a sequence of calls, one action each; the requests of      *)
(* other clients run between any two of them, and each call may fail       *)
(* before or after it took effect.                                         *)
(***************************************************************************)
EXTENDS Sequences, FiniteSets

CONSTANTS
  Ids,             \* identity ids: the seeded ones and those uuid.New may draw
  Subjects,        \* OIDC subjects
  Usernames,
  Orgs,            \* organizations
  Procs,           \* requests that can be in flight together
  Cluster,         \* the object cluster:global
  None,
  CandidateLists,  \* the sequences of usernames a request may offer, in order
  InitUsers,       \* rows of the table at start, seeded users included
  InitRegistered,  \* ids the Identity service knows at start
  InitAdmins,      \* ids holding the admin relation at start
  Ops,             \* bound: the operations clients call in the run
  Targets,         \* bound: the ids that updates, deletions and organizations name
  Faults           \* failures of the run, out of {"error", "lost", "crash"}

Rows == [id : Ids, subject : Subjects, username : Usernames \cup {None}]

UniqueIn(rows) ==
  \A u, v \in rows :
    \/ u.id = v.id
    \/ u.subject = v.subject
    \/ u.username = v.username /\ u.username # None
    => u = v

ASSUME NoneAssumption ==
  /\ None \notin Ids \cup Subjects \cup Usernames
  /\ Cluster \notin Orgs
ASSUME NamesAssumption == CandidateLists \subseteq Seq(Usernames) \ {<<>>}
ASSUME InitAssumption ==
  /\ InitUsers \subseteq Rows /\ UniqueIn(InitUsers)
  /\ InitRegistered \cup InitAdmins \subseteq {u.id : u \in InitUsers}
ASSUME BoundsAssumption ==
  /\ Ops \subseteq {"resolve", "create", "update", "updateMe", "delete"}
  /\ Targets \subseteq Ids
  /\ Faults \subseteq {"error", "lost", "crash"}

VARIABLES
  users,       \* table users: the rows, under users_oidc_subject_idx and users_username_idx
  used,        \* the ids drawn so far: uuid.New never repeats one
  registered,  \* Identity service: ids registered as users; nothing removes one
  tuples,      \* Authorization service: <<id, Cluster>> admin, <<id, org>> member
  late,        \* history: the tuples written while their user was not settled
  answered,    \* history: <<id, created>> of the sign-ins and creations answered OK
  req          \* the requests in flight

vars == <<users, used, registered, tuples, late, answered, req>>

-----------------------------------------------------------------------------
(* Requests.  pc names the call the handler makes next.                    *)

PCs == {"idle", "select", "insert", "reselect", "register",     \* sign-in
        "insertNew", "registerNew", "grant", "rollback",        \* CreateUser
        "update", "sync",                                       \* UpdateUser
        "demote", "list", "revoke", "delete"}                   \* DeleteUser

Roles == {"keep", "admin", "none"}   \* a cluster_role not given, ADMIN, UNSPECIFIED

Requests ==
  [pc : PCs, subject : Subjects \cup {None}, id : Ids \cup {None},
   names : Seq(Usernames), created : BOOLEAN, role : Roles, orgs : SUBSET Orgs]

NoReq == [pc |-> "idle", subject |-> None, id |-> None, names |-> <<>>,
          created |-> FALSE, role |-> "keep", orgs |-> {}]

Becomes(p, r) == req' = [req EXCEPT ![p] = r]
Reply(p) == Becomes(p, NoReq)
Goto(p, pc) == Becomes(p, [req[p] EXCEPT !.pc = pc])

\* What a call to another process comes to: done and confirmed, refused, or
\* done while the caller is told it failed.
Answers == {"ok"} \cup (Faults \cap {"error", "lost"})

Answer(p) ==
  /\ answered' = answered \cup {<<req[p].id, req[p].created>>}
  /\ Reply(p)

-----------------------------------------------------------------------------
(* The table users.                                                        *)

Live(i) == \E u \in users : u.id = i

\* The unique indexes an INSERT of (s, n) violates; PostgreSQL names one of them.
SubjectTaken(s) == \E u \in users : u.subject = s
UsernameTaken(n) == \E u \in users : u.username = n

RemoveRow(i, a) ==
  users' = IF a = "error" THEN users ELSE {u \in users : u.id # i}

\* Mutant of MayRename: no unique index on usernames.
MayRenameOver(i, names) == Live(i)

\* Store.UpdateUser with the username in names, if any; other columns are not
\* modelled.  The answer says whether the handler goes on.
Renamed(i, names) ==
  {IF u.id = i /\ names # <<>> THEN [u EXCEPT !.username = Head(names)] ELSE u
     : u \in users}
MayRename(i, names) ==
  /\ Live(i)
  /\ names # <<>> => \A u \in users : u.username = Head(names) => u.id = i

\* INSERT of the row of request p under a fresh id.  The insert also fails once
\* the ids of the model are used up.
InsertRow(p, next) ==
  /\ ~SubjectTaken(req[p].subject) /\ ~UsernameTaken(Head(req[p].names))
  /\ \/ \E i \in Ids \ used :
          /\ users' = users \cup {[id |-> i, subject |-> req[p].subject,
                                   username |-> Head(req[p].names)]}
          /\ used' = used \cup {i}
          /\ \/ Becomes(p, [req[p] EXCEPT !.pc = next, !.id = i, !.created = TRUE])
             \/ "lost" \in Faults /\ Reply(p)
     \/ /\ "error" \in Faults \/ Ids \subseteq used
        /\ Reply(p) /\ UNCHANGED <<users, used>>
  /\ UNCHANGED <<registered, tuples, late, answered>>

\* Mutant of Remaining: the candidate that collided is offered again.
RemainingStuck(names) == names

\* users_username_idx was violated: the iterator's next candidate, or "allocate
\* username" when there is none.
Remaining(names) == Tail(names)
NextCandidate(p, next) ==
  /\ UsernameTaken(Head(req[p].names))
  /\ LET rest == Remaining(req[p].names) IN
       IF rest = <<>>
       THEN Reply(p)
       ELSE Becomes(p, [req[p] EXCEPT !.pc = next, !.names = rest])
  /\ UNCHANGED <<users, used, registered, tuples, late, answered>>

-----------------------------------------------------------------------------
(* The Identity and Authorization services.                                *)

RegisterIdentity(i, a) ==
  registered' = IF a = "error" THEN registered ELSE registered \cup {i}
RegisterCode(i, a) ==
  IF a # "ok" THEN "Unavailable"
  ELSE IF i \in registered THEN "AlreadyExists" ELSE "OK"

\* p may still take back the row of i that it inserted.
Creating(p, i) ==
  /\ req[p].id = i
  /\ \/ req[p].pc \in {"registerNew", "grant", "rollback"}
     \/ req[p].pc = "register" /\ req[p].created

\* The DeleteUser p will not look at tuple t again.
PastCleanup(p, t) ==
  /\ req[p].id = t[1]
  /\ \/ req[p].pc \in {"revoke", "delete"}
     \/ req[p].pc = "list" /\ t[2] = Cluster

Unsettled(t, procs) ==
  ~Live(t[1]) \/ \E p \in procs : Creating(p, t[1]) \/ PastCleanup(p, t)

WriteTuple(t, procs) ==
  /\ tuples' = tuples \cup {t}
  /\ late' = IF t \notin tuples /\ Unsettled(t, procs) THEN late \cup {t} ELSE late

EraseTuples(S) == tuples' = tuples \ S /\ late' = late \ S

\* Mutant of SyncFails: every error of the write counts as convergence.
SyncFailsNever(code) == FALSE

\* syncClusterRole: the write of i's admin tuple, and what the handler makes of
\* the code it gets.
SyncClusterRole(i, role, a, procs) ==
  IF a = "error" THEN UNCHANGED <<tuples, late>>
  ELSE IF role = "admin" THEN WriteTuple(<<i, Cluster>>, procs)
  ELSE EraseTuples({<<i, Cluster>>})
SyncCode(i, role, a) ==
  IF a # "ok" THEN "Unavailable"
  ELSE IF role = "admin" /\ <<i, Cluster>> \in tuples THEN "AlreadyExists"
  ELSE IF role = "none" /\ <<i, Cluster>> \notin tuples THEN "NotFound"
  ELSE "OK"
SyncFails(code) == code \notin {"OK", "AlreadyExists", "NotFound"}

\* Mutant of AdminCaller: the check is left out.
AnyCaller == TRUE

\* requireClusterAdmin: some caller passes it.
AdminCaller == \E i \in Ids : <<i, Cluster>> \in tuples

-----------------------------------------------------------------------------
(* Sign-in: ResolveOrCreateUser.                                           *)

CallResolve(p, s, names) ==
  /\ req[p].pc = "idle"
  /\ Becomes(p, [NoReq EXCEPT !.pc = "select", !.subject = s, !.names = names])
  /\ UNCHANGED <<users, used, registered, tuples, late, answered>>

\* Mutant of FoundBySubject: only a user just created is registered.
FoundAndDone(p) ==
  \E u \in users : u.subject = req[p].subject /\ Reply(p)

\* Mutant of FoundBySubject: the row's subject is taken for its id.
FoundSubject(p) ==
  \E u \in users :
    /\ u.subject = req[p].subject
    /\ Becomes(p, [req[p] EXCEPT !.pc = "register", !.id = u.subject])

\* The row of the request's subject: registered whether it is new or not.
FoundBySubject(p) ==
  \E u \in users :
    /\ u.subject = req[p].subject
    /\ Becomes(p, [req[p] EXCEPT !.pc = "register", !.id = u.id])

Select(p) ==
  /\ req[p].pc = "select"
  /\ \/ FoundBySubject(p)
     \/ ~SubjectTaken(req[p].subject) /\ Goto(p, "insert")
     \/ "error" \in Faults /\ Reply(p)
  /\ UNCHANGED <<users, used, registered, tuples, late, answered>>

Insert(p) ==
  /\ req[p].pc = "insert"
  /\ \/ InsertRow(p, "register")
     \/ NextCandidate(p, "select")
     \/ /\ SubjectTaken(req[p].subject)
        /\ Goto(p, "reselect")
        /\ UNCHANGED <<users, used, registered, tuples, late, answered>>

\* The row that won the race for the subject; NotFound when it is gone again.
Reselect(p) ==
  /\ req[p].pc = "reselect"
  /\ \/ FoundBySubject(p)
     \/ /\ ~SubjectTaken(req[p].subject) \/ "error" \in Faults
        /\ Reply(p)
  /\ UNCHANGED <<users, used, registered, tuples, late, answered>>

\* Mutant of SignInFails: an account without an identity record is announced.
SignInNeverFails(code, created) == FALSE

\* Mutant of SignInFails: existing users are taken back as well.
SignInFailsForAll(code, created) == code \notin {"OK", "AlreadyExists"}

SignInFails(code, created) == code \notin {"OK", "AlreadyExists"} /\ created
Register(p) ==
  /\ req[p].pc = "register"
  /\ \E a \in Answers :
       /\ RegisterIdentity(req[p].id, a)
       /\ IF SignInFails(RegisterCode(req[p].id, a), req[p].created)
          THEN Goto(p, "rollback") /\ UNCHANGED answered
          ELSE Answer(p)
  /\ UNCHANGED <<users, used, tuples, late>>

\* The compensation of a sign-in or a creation that failed; its error is dropped.
Rollback(p) ==
  /\ req[p].pc = "rollback"
  /\ \E a \in Answers : RemoveRow(req[p].id, a)
  /\ Reply(p)
  /\ UNCHANGED <<used, registered, tuples, late, answered>>

-----------------------------------------------------------------------------
(* CreateUser.  An explicit username is a list of one candidate.           *)

CallCreate(p, s, names, role) ==
  /\ req[p].pc = "idle" /\ AdminCaller
  /\ Becomes(p, [NoReq EXCEPT !.pc = "insertNew", !.subject = s,
                               !.names = names, !.role = role])
  /\ UNCHANGED <<users, used, registered, tuples, late, answered>>

InsertNew(p) ==
  /\ req[p].pc = "insertNew"
  /\ \/ InsertRow(p, "registerNew")
     \/ NextCandidate(p, "insertNew")
     \/ /\ SubjectTaken(req[p].subject)
        /\ Reply(p)
        /\ UNCHANGED <<users, used, registered, tuples, late, answered>>

\* Mutant of RegisterNew: the caller is answered before the role is granted.
RegisterNewEarly(p) ==
  /\ req[p].pc = "registerNew"
  /\ \E a \in Answers :
       /\ RegisterIdentity(req[p].id, a)
       /\ IF RegisterCode(req[p].id, a) # "OK"
          THEN Goto(p, "rollback") /\ UNCHANGED answered
          ELSE Goto(p, "grant") /\ answered' = answered \cup {<<req[p].id, TRUE>>}
  /\ UNCHANGED <<users, used, tuples, late>>

CreateFails(code) == code # "OK"
RegisterNew(p) ==
  /\ req[p].pc = "registerNew"
  /\ \E a \in Answers :
       /\ RegisterIdentity(req[p].id, a)
       /\ \/ /\ CreateFails(RegisterCode(req[p].id, a))
             /\ Goto(p, "rollback") /\ UNCHANGED answered
          \/ /\ ~CreateFails(RegisterCode(req[p].id, a))
             /\ IF req[p].role = "admin"
                THEN Goto(p, "grant") /\ UNCHANGED answered
                ELSE Answer(p)
  /\ UNCHANGED <<users, used, tuples, late>>

Grant(p) ==
  /\ req[p].pc = "grant"
  /\ \E a \in Answers :
       LET fails == SyncFails(SyncCode(req[p].id, "admin", a)) IN
       /\ SyncClusterRole(req[p].id, "admin", a, IF fails THEN Procs ELSE Procs \ {p})
       /\ IF fails THEN Goto(p, "rollback") /\ UNCHANGED answered ELSE Answer(p)
  /\ UNCHANGED <<users, used, registered>>

-----------------------------------------------------------------------------
(* UpdateUser and UpdateMe.                                                *)

CallUpdate(p, i, names, role) ==
  /\ req[p].pc = "idle" /\ AdminCaller
  /\ Becomes(p, [NoReq EXCEPT !.pc = "update", !.id = i, !.names = names, !.role = role])
  /\ UNCHANGED <<users, used, registered, tuples, late, answered>>

Update(p) ==
  /\ req[p].pc = "update"
  /\ \/ /\ MayRename(req[p].id, req[p].names)
        /\ users' = Renamed(req[p].id, req[p].names)
        /\ \/ req[p].role # "keep" /\ Goto(p, "sync")
           \/ /\ req[p].role = "keep" \/ "lost" \in Faults
              /\ Reply(p)
     \/ /\ ~MayRename(req[p].id, req[p].names) \/ "error" \in Faults
        /\ Reply(p) /\ UNCHANGED users
  /\ UNCHANGED <<used, registered, tuples, late, answered>>

Sync(p) ==
  /\ req[p].pc = "sync"
  /\ \E a \in Answers : SyncClusterRole(req[p].id, req[p].role, a, Procs)
  /\ Reply(p)
  /\ UNCHANGED <<users, used, registered, answered>>

UpdateMe(i, n) ==
  /\ MayRename(i, <<n>>)
  /\ users' = Renamed(i, <<n>>)
  /\ UNCHANGED <<used, registered, tuples, late, answered, req>>

-----------------------------------------------------------------------------
(* DeleteUser.                                                             *)

CallDelete(p, i) ==
  /\ req[p].pc = "idle" /\ AdminCaller
  /\ Becomes(p, [NoReq EXCEPT !.pc = "demote", !.id = i])
  /\ UNCHANGED <<users, used, registered, tuples, late, answered>>

Demote(p) ==
  /\ req[p].pc = "demote"
  /\ \E a \in Answers :
       /\ SyncClusterRole(req[p].id, "none", a, Procs)
       /\ IF SyncFails(SyncCode(req[p].id, "none", a)) THEN Reply(p) ELSE Goto(p, "list")
  /\ UNCHANGED <<users, used, registered, answered>>

Memberships(i) == {o \in Orgs : <<i, o>> \in tuples}
ListMemberships(p) ==
  /\ req[p].pc = "list"
  /\ \/ LET orgs == Memberships(req[p].id) IN
          Becomes(p, [req[p] EXCEPT !.pc = IF orgs = {} THEN "delete" ELSE "revoke",
                                     !.orgs = orgs])
     \/ "error" \in Faults /\ Reply(p)
  /\ UNCHANGED <<users, used, registered, tuples, late, answered>>

\* One Write deletes all the listed tuples or, if one of them is gone, none.
Revoke(p) ==
  /\ req[p].pc = "revoke"
  /\ LET listed == {<<req[p].id, o>> : o \in req[p].orgs} IN
       \/ /\ listed \subseteq tuples
          /\ EraseTuples(listed)
          /\ Goto(p, "delete") \/ ("lost" \in Faults /\ Reply(p))
       \/ /\ ~(listed \subseteq tuples) \/ "error" \in Faults
          /\ Reply(p) /\ UNCHANGED <<tuples, late>>
  /\ UNCHANGED <<users, used, registered, answered>>

Delete(p) ==
  /\ req[p].pc = "delete"
  /\ \E a \in Answers : RemoveRow(req[p].id, a)
  /\ Reply(p)
  /\ UNCHANGED <<used, registered, tuples, late, answered>>

Deleting(p) == req[p].pc \in {"demote", "list", "revoke", "delete"}

-----------------------------------------------------------------------------
(* Outside the service: organizations gain and lose members, and a replica *)
(* dies with the requests it serves.                                       *)

OrgJoin(i, o) ==
  /\ i \in registered /\ <<i, o>> \notin tuples
  /\ WriteTuple(<<i, o>>, Procs)
  /\ UNCHANGED <<users, used, registered, answered, req>>

OrgLeave(i, o) ==
  /\ <<i, o>> \in tuples
  /\ EraseTuples({<<i, o>>})
  /\ UNCHANGED <<users, used, registered, answered, req>>

Crash(p) ==
  /\ "crash" \in Faults /\ req[p].pc # "idle"
  /\ Reply(p)
  /\ UNCHANGED <<users, used, registered, tuples, late, answered>>

-----------------------------------------------------------------------------
Init ==
  /\ users = InitUsers
  /\ used = {u.id : u \in InitUsers}
  /\ registered = InitRegistered
  /\ tuples = InitAdmins \X {Cluster}
  /\ late = {}
  /\ answered = {}
  /\ req = [p \in Procs |-> NoReq]

Call(p) ==
  \/ \E s \in Subjects, names \in CandidateLists :
       \/ "resolve" \in Ops /\ CallResolve(p, s, names)
       \/ /\ "create" \in Ops
          /\ \E role \in {"admin", "none"} : CallCreate(p, s, names, role)
  \/ \E i \in used \cap Targets :
       \/ "delete" \in Ops /\ CallDelete(p, i)
       \/ \E names \in {<<>>} \cup {<<n>> : n \in Usernames}, role \in Roles :
            "update" \in Ops /\ CallUpdate(p, i, names, role)

Step(p) ==
  \/ Select(p) \/ Insert(p) \/ Reselect(p) \/ Register(p) \/ Rollback(p)
  \/ InsertNew(p) \/ RegisterNew(p) \/ Grant(p)
  \/ Update(p) \/ Sync(p)
  \/ Demote(p) \/ ListMemberships(p) \/ Revoke(p) \/ Delete(p)

Environment ==
  \E i \in used \cap Targets :
    \/ \E n \in Usernames : "updateMe" \in Ops /\ UpdateMe(i, n)
    \/ \E o \in Orgs : OrgJoin(i, o) \/ OrgLeave(i, o)

Next ==
  \/ \E p \in Procs : Call(p) \/ Step(p) \/ Crash(p)
  \/ Environment

Spec == Init /\ [][Next]_vars

\* A handler that waits for a call is answered.
RequestFairness == \A p \in Procs : WF_vars(Step(p))

\* Everybody keeps signing in, and the calls of a sign-in that are tried again
\* and again get through at last.
SignInFairness ==
  /\ \A s \in Subjects :
       /\ SF_vars(\E p \in Procs, names \in CandidateLists : CallResolve(p, s, names))
       /\ SF_vars(\E p \in Procs : Select(p) /\ req[p].subject = s /\ req'[p].pc # "idle")
  /\ \A i \in Ids :
       SF_vars(\E p \in Procs : Register(p) /\ req[p].id = i /\ i \in registered')

FairSpec == Spec /\ RequestFairness
SignInSpec == FairSpec /\ SignInFairness

-----------------------------------------------------------------------------
(* What the service guarantees.                                            *)

\* The variables keep their types, and the histories follow the state.
TypeOK ==
  /\ users \subseteq Rows
  /\ used \subseteq Ids
  /\ registered \subseteq Ids
  /\ tuples \subseteq Ids \X (Orgs \cup {Cluster})
  /\ late \subseteq tuples
  /\ answered \subseteq Ids \X BOOLEAN
  /\ req \in [Procs -> Requests]

\* Two accounts never share an id, a subject or a username, whatever sign-ins,
\* creations and renames interleave (ResolveOrCreateUser, CreateUser, UpdateUser).
UniqueKeys == UniqueIn(users)

\* DeleteUser leaves no relation behind: a tuple whose user has no row was
\* written after the cleanup of a DeleteUser had passed it, while the creation
\* of the user was still undecided, or when the user was gone already.
OrphanTuplesAreLate == \A t \in tuples \ late : Live(t[1])

\* An account announced as created has an identity record: a registration that
\* fails is never answered with Created or by CreateUser.
AnnouncedAreRegistered == \A i \in Ids : <<i, TRUE>> \in answered => i \in registered

\* The accounts answered with a flag of F disappear only by a DeleteUser.
Survive(F) ==
  \A i \in Ids :
    /\ \E c \in F : <<i, c>> \in answered
    /\ Live(i) /\ ~Live(i)'
    => \E p \in Procs : req[p].pc = "delete" /\ req[p].id = i

\* No compensation removes an account that was announced as created: neither a
\* later sign-in whose registration fails nor another request's rollback.
AnnouncedSurvive == [][Survive({TRUE})]_vars

\* Stronger, and not so: no compensation removes an account that any sign-in
\* was answered with.
AnsweredSurvive == [][Survive(BOOLEAN)]_vars

\* With no cluster admin and no request that is making one, there never is one:
\* no sign-in claims the role (the claim was dropped in migration 0007).
NoAdmins ==
  /\ \A i \in Ids : <<i, Cluster>> \notin tuples
  /\ \A p \in Procs : req[p].role # "admin"
AdminSetClosed == [][NoAdmins => NoAdmins']_vars

\* What a comment of config.go says of an unset admin list, and not so: after a
\* first sign-in somebody is cluster admin.
FirstSignInTakesAdmin ==
  answered # {} => \E i \in Ids : <<i, Cluster>> \in tuples

\* A user seeded without an identity record gets one when they keep signing in.
EventuallyRegistered ==
  \A i \in Ids : Live(i) /\ i \notin registered ~> ~Live(i) \/ i \in registered

\* However the calls of the handlers interleave and fail, the service is a plain
\* directory: an account appears whole under a fresh id with free keys, and goes
\* away only by a deletion somebody asked for or before it was announced
\* (ResolveOrCreateUser, CreateUser, UpdateUser, UpdateMe, DeleteUser).
Directory == INSTANCE UserDirectory WITH
  accounts <- users,
  drawn <- used,
  announced <- {i \in Ids : <<i, TRUE>> \in answered},
  doomed <- {i \in Ids : \E p \in Procs : req[p].id = i /\ Deleting(p)}
ImplementsDirectory == Directory!Spec

\* Every request is answered: the candidates run out, no loop is endless.
RequestsEnd == \A p \in Procs : req[p].pc # "idle" ~> req[p].pc = "idle"
=============================================================================
