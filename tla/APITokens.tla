------------------------------ MODULE APITokens ------------------------------
(***************************************************************************)
(* API tokens (CreateAPIToken, RevokeAPIToken, ResolveAPIToken of          *)
(* internal/server/server.go over internal/store/store.go).  A token       *)
(* expires by two clocks: PostgreSQL's decides whether a use is recorded,  *)
(* that of the replica whether it is accepted.  Tokens, users and clocks   *)
(* change between the statements of a request.                             *)
(***************************************************************************)
EXTENDS Integers

CONSTANTS
  Users, Tokens,
  Procs,    \* requests that can be in flight together
  Servers,  \* the replicas
  Database,
  None,
  MaxTime,  \* bound: the clocks stop there
  Skew,     \* how far two clocks may differ
  Faults    \* failures of the run, out of {"error", "lost"}

Clocks == Servers \cup {Database}
Times == 0..MaxTime

ASSUME TokensAssumption ==
  /\ Database \notin Servers
  /\ None \notin Users \cup Tokens \cup Servers \cup Times
  /\ MaxTime \in Nat /\ Skew \in Nat
  /\ Faults \subseteq {"error", "lost"}

VARIABLES
  accounts,  \* table users
  tokens,    \* table user_api_tokens
  drawn,     \* the tokens generated so far
  clock,
  dead,      \* history: <<token, server>> where a caller was told it is gone or expired
  req        \* the requests in flight, until their answer is read

vars == <<accounts, tokens, drawn, clock, dead, req>>

Rows == [token : Tokens, owner : Users, expires : Times \cup {None}, used : Times \cup {None}]

PCs == {"idle", "insert", "revoke", "touch", "fallback", "expiry",
        "done", "missing", "unknown", "expired", "accepted"}
Requests ==
  [pc : PCs, server : Servers \cup {None}, user : Users \cup {None},
   token : Tokens \cup {None}, expires : Times \cup {None},
   touched : BOOLEAN,   \* the use was recorded
   doomed : BOOLEAN,    \* it was dead for this server when the request began
   good : BOOLEAN]      \* it was valid for this server then

NoReq == [pc |-> "idle", server |-> None, user |-> None, token |-> None,
          expires |-> None, touched |-> FALSE, doomed |-> FALSE, good |-> FALSE]

Becomes(p, r) == req' = [req EXCEPT ![p] = r]
Goto(p, pc) == Becomes(p, [req[p] EXCEPT !.pc = pc])

Row(t) == {r \in tokens : r.token = t}
Valid(expires, now) == expires # None => expires > now
ValidFor(t) == {s \in Servers : \E r \in Row(t) : Valid(r.expires, clock[s])}

-----------------------------------------------------------------------------
(* CreateAPIToken.                                                         *)

CallCreate(p, s, u, expires) ==
  /\ req[p].pc = "idle" /\ Valid(expires, clock[s])
  /\ Becomes(p, [NoReq EXCEPT !.pc = "insert", !.server = s, !.user = u, !.expires = expires])
  /\ UNCHANGED <<accounts, tokens, drawn, clock, dead>>

\* Mutant of MayOwn: no foreign key to users.
AnybodyOwns(u) == TRUE

MayOwn(u) == u \in accounts

\* apitoken.Generate: random, so never one that exists or existed.
Fresh == Tokens \ drawn

\* Also fails when the tokens of the model are used up.
Insert(p) ==
  /\ req[p].pc = "insert"
  /\ \/ /\ MayOwn(req[p].user)
        /\ \E t \in Fresh :
             /\ drawn' = drawn \cup {t}
             /\ tokens' = tokens \cup {[token |-> t, owner |-> req[p].user,
                                        expires |-> req[p].expires, used |-> None]}
     \/ /\ ~MayOwn(req[p].user) \/ "error" \in Faults \/ Fresh = {}
        /\ UNCHANGED <<drawn, tokens>>
  /\ Becomes(p, NoReq)
  /\ UNCHANGED <<accounts, clock, dead>>

-----------------------------------------------------------------------------
(* RevokeAPIToken, by the identity u of the caller.                        *)

CallRevoke(p, s, u, t) ==
  /\ req[p].pc = "idle"
  /\ Becomes(p, [NoReq EXCEPT !.pc = "revoke", !.server = s, !.user = u, !.token = t])
  /\ UNCHANGED <<accounts, tokens, drawn, clock, dead>>

\* Mutant of Revoked: the identity is not compared.
RevokedByAnybody(t, u) == Row(t)

Revoked(t, u) == {r \in Row(t) : r.owner = u}

Revoke(p) ==
  /\ req[p].pc = "revoke"
  /\ \/ /\ tokens' = tokens \ Revoked(req[p].token, req[p].user)
        /\ \/ Goto(p, IF tokens' = tokens THEN "unknown" ELSE "done")
           \/ "lost" \in Faults /\ Becomes(p, NoReq)
     \/ "error" \in Faults /\ Becomes(p, NoReq) /\ UNCHANGED tokens
  /\ UNCHANGED <<accounts, drawn, clock, dead>>

-----------------------------------------------------------------------------
(* ResolveAPIToken.                                                        *)

\* Nobody presents the hash of a token before it is generated.
CallResolve(p, s, t) ==
  /\ req[p].pc = "idle"
  /\ Becomes(p, [NoReq EXCEPT !.pc = "touch", !.server = s, !.token = t,
                              !.doomed = <<t, s>> \in dead, !.good = s \in ValidFor(t)])
  /\ UNCHANGED <<accounts, tokens, drawn, clock, dead>>

\* Mutant of Touchable: a token without an expiry is not matched.
TouchableIfDated(t) ==
  {r \in Row(t) : r.expires # None /\ Valid(r.expires, clock[Database])}

\* The rows the UPDATE matches.
Touchable(t) == {r \in Row(t) : Valid(r.expires, clock[Database])}

\* The UPDATE may have waited for a lock: NOW() is when it began, not before the
\* request.
Touch(p) ==
  /\ req[p].pc = "touch"
  /\ LET matched == Touchable(req[p].token) IN
     \/ \E r \in matched :
          /\ tokens' = (tokens \ matched) \cup {[r EXCEPT !.used = clock[Database]]}
          /\ \/ Becomes(p, [req[p] EXCEPT !.pc = "expiry", !.expires = r.expires,
                                          !.touched = TRUE])
             \/ "lost" \in Faults /\ Becomes(p, NoReq)
     \/ matched = {} /\ Goto(p, "fallback") /\ UNCHANGED tokens
     \/ "error" \in Faults /\ Becomes(p, NoReq) /\ UNCHANGED tokens
  /\ UNCHANGED <<accounts, drawn, clock, dead>>

Fallback(p) ==
  /\ req[p].pc = "fallback"
  /\ \/ \E r \in Row(req[p].token) :
          Becomes(p, [req[p] EXCEPT !.pc = "expiry", !.expires = r.expires])
     \/ Row(req[p].token) = {} /\ Goto(p, "missing")
     \/ "error" \in Faults /\ Becomes(p, NoReq)
  /\ UNCHANGED <<accounts, tokens, drawn, clock, dead>>

\* Mutant of Expiry: the expiry is left to the database.
ExpiryUnchecked(p) ==
  /\ req[p].pc = "expiry" /\ Goto(p, "accepted")
  /\ UNCHANGED <<accounts, tokens, drawn, clock, dead>>

Expiry(p) ==
  /\ req[p].pc = "expiry"
  /\ Goto(p, IF Valid(req[p].expires, clock[req[p].server]) THEN "accepted" ELSE "expired")
  /\ UNCHANGED <<accounts, tokens, drawn, clock, dead>>

-----------------------------------------------------------------------------
\* What the caller learns from the answer to p: a token revoked, or missing
\* when it is resolved, is gone; an expired one is expired for that replica.
Learnt(p) ==
  LET t == req[p].token IN
  IF req[p].pc \in {"done", "missing"} THEN {t} \X Servers
  ELSE IF req[p].pc = "expired" THEN {<<t, req[p].server>>} ELSE {}

ReadAnswer(p) ==
  /\ req[p].pc \in {"done", "missing", "unknown", "expired", "accepted"}
  /\ dead' = dead \cup Learnt(p)
  /\ Becomes(p, NoReq)
  /\ UNCHANGED <<accounts, tokens, drawn, clock>>

\* Mutant of Orphaned: no cascade.
OrphanedNone(u) == {}

\* The cascade of user_api_tokens, whatever deletes the row of u.
Orphaned(u) == {r \in tokens : r.owner = u}
DeleteUser(u) ==
  /\ u \in accounts
  /\ accounts' = accounts \ {u}
  /\ tokens' = tokens \ Orphaned(u)
  /\ dead' = dead \cup {r.token : r \in {x \in tokens : x.owner = u}} \X Servers
  /\ UNCHANGED <<drawn, clock, req>>

Tick(c) ==
  /\ clock[c] < MaxTime
  /\ \A d \in Clocks : clock[c] + 1 - clock[d] <= Skew
  /\ clock' = [clock EXCEPT ![c] = @ + 1]
  /\ UNCHANGED <<accounts, tokens, drawn, dead, req>>

Init ==
  /\ accounts = Users /\ tokens = {} /\ drawn = {}
  /\ clock = [c \in Clocks |-> 0]
  /\ dead = {} /\ req = [p \in Procs |-> NoReq]

Next ==
  \/ \E p \in Procs :
       \/ \E s \in Servers :
            \/ \E u \in Users, x \in Times \cup {None} : CallCreate(p, s, u, x)
            \/ \E t \in drawn : CallResolve(p, s, t) \/ \E u \in Users : CallRevoke(p, s, u, t)
       \/ Insert(p) \/ Revoke(p) \/ Touch(p) \/ Fallback(p) \/ Expiry(p) \/ ReadAnswer(p)
  \/ \E u \in Users : DeleteUser(u)
  \/ \E c \in Clocks : Tick(c)

Spec == Init /\ [][Next]_vars

-----------------------------------------------------------------------------
\* The variables keep their types; a token has an owner who exists.
TypeOK ==
  /\ accounts \subseteq Users
  /\ tokens \subseteq Rows /\ \A r \in tokens : r.owner \in accounts /\ r.token \in drawn
  /\ drawn \subseteq Tokens
  /\ clock \in [Clocks -> Times] /\ \A c, d \in Clocks : clock[c] - clock[d] <= Skew
  /\ dead \subseteq drawn \X Servers
  /\ req \in [Procs -> Requests]

\* Dead tokens stay dead: one whose revocation was answered, whose user was
\* deleted, that was reported missing, or that this replica reported expired is
\* not accepted by a request that begins afterwards (ResolveAPIToken).
DeadStayDead == \A p \in Procs : req[p].pc = "accepted" => ~req[p].doomed

\* A use that is accepted is recorded, except shortly before the expiry: only
\* while the token is expired for the database and not yet for the replica, a
\* time no longer than the clocks differ (the condition of the UPDATE, and "expiration
\* is enforced in the server layer" of Store.ResolveAPIToken).
UseIsRecorded ==
  \A p \in Procs :
    req[p].pc = "expiry" /\ ~req[p].touched /\ Valid(req[p].expires, clock[req[p].server])
      => req[p].expires # None /\ req[p].expires <= clock[req[p].server] + Skew

\* A token goes away only by a revocation in the name of its own user or with
\* that user (RevokeAPIToken compares the identity of the caller).
OwnersRevoke ==
  [][\A r \in tokens :
       (\A x \in tokens' : x.token # r.token) =>
         \/ r.owner \notin accounts'
         \/ \E p \in Procs :
              req[p].pc = "revoke" /\ req[p].token = r.token /\ req[p].user = r.owner]_vars

Held == [t \in Tokens |-> ValidFor(t)]

\* The questions are the resolutions, answered once the expiry was compared or no
\* row was found; creations and revocations are none.
Stage(pc) ==
  CASE pc \in {"touch", "fallback", "expiry"} -> "open"
    [] pc = "accepted" -> "accepted"
    [] pc \in {"missing", "expired"} -> "refused"
    [] OTHER -> "none"
Question(r) ==
  LET asking == IF Stage(r.pc) = "none" THEN NoReq ELSE r IN
  [stage |-> Stage(asking.pc), token |-> asking.token, server |-> asking.server,
   good |-> asking.good]
Questions == [p \in Procs |-> Question(req[p])]

Registry == INSTANCE TokenRegistry WITH
  issued <- drawn, valid <- Held, asked <- Questions

\* The table, the two clocks and the statements of a resolution are a registry of
\* tokens that never become valid again, in which each answer of ResolveAPIToken
\* was true at some moment of the request: an accepted token was valid for the
\* replica when it was asked, a refused one is not when the answer is found.
ImplementsRegistry == Registry!Spec
=============================================================================
