---------------------------- MODULE UserDirectory ----------------------------
(***************************************************************************)
(* What the account operations promise, without the calls they are made    *)
(* of: a directory of accounts.  An account appears under an id that was   *)
(* never used, with a subject and a username nobody has; it is announced;  *)
(* it goes away because somebody asked for its deletion or, while it was   *)
(* not announced, because its creation failed.  UserAccounts implements    *)
(* this specification.                                                     *)
(***************************************************************************)
CONSTANTS Ids, Subjects, Usernames, None, InitUsers

Accounts == [id : Ids, subject : Subjects, username : Usernames \cup {None}]

VARIABLES
  accounts,   \* the accounts there are
  drawn,      \* the ids that ever appeared
  announced,  \* the ids a caller was told were created
  doomed      \* the ids whose deletion was asked for and is under way

vars == <<accounts, drawn, announced, doomed>>

Without(i) == {u \in accounts : u.id # i}

\* u may join the accounts of S.
Free(u, S) ==
  \A v \in S :
    /\ v.id # u.id /\ v.subject # u.subject
    /\ v.username = u.username => u.username = None

Appear(u) ==
  /\ u.id \notin drawn /\ Free(u, accounts)
  /\ accounts' = accounts \cup {u}
  /\ drawn' = drawn \cup {u.id}
  /\ UNCHANGED <<announced, doomed>>

\* Possibly after the account was deleted again.
Announce(i) ==
  /\ i \in drawn
  /\ announced' = announced \cup {i}
  /\ UNCHANGED <<accounts, drawn, doomed>>

Rename(u, n) ==
  LET v == [u EXCEPT !.username = n] IN
  /\ Free(v, Without(u.id))
  /\ accounts' = Without(u.id) \cup {v}
  /\ UNCHANGED <<drawn, announced, doomed>>

Withdraw(i) ==
  /\ i \notin announced
  /\ accounts' = Without(i)
  /\ UNCHANGED <<drawn, announced, doomed>>

AskDeletion(i) ==
  /\ i \in drawn
  /\ doomed' = doomed \cup {i}
  /\ UNCHANGED <<accounts, drawn, announced>>

\* One of the requests for it ends, with the account gone or not.
EndDeletion(i) ==
  /\ i \in doomed
  /\ accounts' \in {accounts, Without(i)}
  /\ doomed' \in {doomed, doomed \ {i}}
  /\ UNCHANGED <<drawn, announced>>

Init ==
  /\ accounts = InitUsers
  /\ drawn = {u.id : u \in InitUsers}
  /\ announced = {} /\ doomed = {}

Next ==
  \/ \E u \in Accounts : Appear(u)
  \/ \E u \in accounts, n \in Usernames : Rename(u, n)
  \/ \E i \in Ids : Announce(i) \/ Withdraw(i) \/ AskDeletion(i) \/ EndDeletion(i)

Spec == Init /\ [][Next]_vars
=============================================================================
