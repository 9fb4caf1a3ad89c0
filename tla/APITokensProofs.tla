--------------------------- MODULE APITokensProofs ---------------------------
(***************************************************************************)
(* Theorems about APITokens, for any number of users, tokens, requests and *)
(* replicas, any skew of their clocks and any faults.                      *)
(***************************************************************************)
EXTENDS APITokens, TLAPS

\* What a request holds at each pc; ids are the tokens drawn.
Shape(r, ids) ==
  /\ r.pc # "idle" => r.server \in Servers
  /\ r.pc \in {"insert", "revoke"} => r.user \in Users
  /\ r.pc \notin {"idle", "insert"} => r.token \in ids

TypeInv == TypeOK /\ \A p \in Procs : Shape(req[p], drawn)

(***************************************************************************)
(* A dead token has no row, or one that the replica's clock has passed: it *)
(* comes back neither way, for ids are drawn once, expiries never change   *)
(* and clocks go forward.  What a request has read of a row is as good as  *)
(* the row.                                                                *)
(***************************************************************************)
Expired(expires, now) == expires # None /\ expires <= now

Gone(t, c, rows, time) == \A x \in rows : x.token = t => Expired(x.expires, time[c])

\* Hashes of tokens are unique.
OneRow(rows) == \A x, y \in rows : x.token = y.token => x = y

Read(r, rows, time, gone) ==
  /\ r.pc \in {"done", "missing"} => \A x \in rows : x.token # r.token
  /\ r.pc = "expired" => Gone(r.token, r.server, rows, time)
  /\ r.pc = "fallback" => Gone(r.token, Database, rows, time)
  /\ r.pc = "expiry" =>
       /\ \A x \in rows : x.token = r.token => x.expires = r.expires
       /\ ~r.touched => Expired(r.expires, time[Database])
       /\ r.doomed \/ ~r.good => Expired(r.expires, time[r.server])
  /\ r.pc \in {"touch", "fallback"} =>
       /\ r.doomed => <<r.token, r.server>> \in gone
       /\ ~r.good => Gone(r.token, r.server, rows, time)
  /\ r.pc = "accepted" => ~r.doomed /\ r.good

AllGone(gone, rows, time) ==
  \A t \in Tokens, s \in Servers : <<t, s>> \in gone => Gone(t, s, rows, time)

TokensInv ==
  /\ OneRow(tokens)
  /\ AllGone(dead, tokens, clock)
  /\ \A p \in Procs : Read(req[p], tokens, clock, dead)

-----------------------------------------------------------------------------
(* Type correctness.                                                       *)

\* The next state of p's request is r, a sound one.
Takes(p, r) == Becomes(p, r) /\ r \in Requests /\ Shape(r, drawn')

LEMMA ReqBecomes ==
  ASSUME TypeInv, NEW p \in Procs, NEW r, Becomes(p, r)
  PROVE  req'[p] = r /\ \A q \in Procs \ {p} : req'[q] = req[q]
BY DEF TypeInv, TypeOK, Becomes

LEMMA TakesTyped ==
  ASSUME TypeInv, drawn \subseteq drawn', NEW p \in Procs, NEW r, Takes(p, r)
  PROVE  req' \in [Procs -> Requests] /\ \A q \in Procs : Shape(req'[q], drawn')
<1>1. req' \in [Procs -> Requests]
  BY DEF TypeInv, TypeOK, Takes, Becomes
<1>2. ASSUME NEW q \in Procs PROVE Shape(req'[q], drawn')
  <2>1. CASE q = p
    BY <2>1, ReqBecomes DEF Takes, Shape
  <2>2. CASE q # p
    BY <2>2, ReqBecomes DEF Takes, Shape, TypeInv
  <2> QED BY <2>1, <2>2
<1> QED BY <1>1, <1>2

LEMMA NoReqType == NoReq \in Requests /\ NoReq.pc = "idle"
BY DEF NoReq, Requests, PCs

LEMMA NoReqTakes == ASSUME NEW p \in Procs, Becomes(p, NoReq) PROVE Takes(p, NoReq)
BY NoReqType DEF Takes, Shape

\* A request that goes on keeps what it holds.
GoesOn(p, pc) ==
  \E r \in Requests :
    /\ Takes(p, r) /\ r.pc = pc /\ r.server = req[p].server /\ r.user = req[p].user
    /\ r.token = req[p].token /\ r.expires = req[p].expires
    /\ r.touched = req[p].touched /\ r.doomed = req[p].doomed /\ r.good = req[p].good

LEMMA GotoTakes ==
  ASSUME TypeInv, drawn \subseteq drawn', NEW p \in Procs, NEW pc \in PCs \ {"idle", "insert", "revoke"},
         Goto(p, pc), req[p].pc \notin {"idle", "insert"}
  PROVE  GoesOn(p, pc)
<1> DEFINE r == [req[p] EXCEPT !.pc = pc]
<1>1. req[p] \in Requests /\ Shape(req[p], drawn)
  BY DEF TypeInv, TypeOK
<1>2. /\ r \in Requests /\ r.pc = pc /\ r.server = req[p].server /\ r.user = req[p].user
      /\ r.token = req[p].token /\ r.expires = req[p].expires
      /\ r.touched = req[p].touched /\ r.doomed = req[p].doomed /\ r.good = req[p].good
  BY <1>1 DEF Requests
<1>3. Becomes(p, r)
  BY DEF Goto
<1> HIDE DEF r
<1>4. Shape(r, drawn')
  BY <1>1, <1>2 DEF Shape
<1> QED BY <1>2, <1>3, <1>4 DEF GoesOn, Takes

LEMMA CallCreateTakes ==
  ASSUME TypeInv, NEW p \in Procs, NEW s \in Servers, NEW u \in Users, NEW x \in Times \cup {None},
         CallCreate(p, s, u, x)
  PROVE  \E r \in Requests : Takes(p, r) /\ r.pc = "insert"
<1> DEFINE r == [NoReq EXCEPT !.pc = "insert", !.server = s, !.user = u, !.expires = x]
<1>1. r \in Requests /\ r.pc = "insert" /\ r.server = s /\ r.user = u
  BY DEF NoReq, Requests, PCs
<1>2. Becomes(p, r)
  BY DEF CallCreate
<1> HIDE DEF r
<1> QED BY <1>1, <1>2 DEF Takes, Shape

LEMMA CallRevokeTakes ==
  ASSUME TypeInv, NEW p \in Procs, NEW s \in Servers, NEW u \in Users, NEW t \in drawn,
         CallRevoke(p, s, u, t)
  PROVE  \E r \in Requests : Takes(p, r) /\ r.pc = "revoke"
<1> DEFINE r == [NoReq EXCEPT !.pc = "revoke", !.server = s, !.user = u, !.token = t]
<1>1. r \in Requests /\ r.pc = "revoke" /\ r.server = s /\ r.user = u /\ r.token = t
  BY DEF NoReq, Requests, PCs, TypeInv, TypeOK
<1>2. Becomes(p, r) /\ UNCHANGED drawn
  BY DEF CallRevoke
<1> HIDE DEF r
<1> QED BY <1>1, <1>2 DEF Takes, Shape

LEMMA CallResolveTakes ==
  ASSUME TypeInv, NEW p \in Procs, NEW s \in Servers, NEW t \in drawn, CallResolve(p, s, t)
  PROVE  \E r \in Requests : /\ Takes(p, r) /\ r.pc = "touch" /\ r.server = s /\ r.token = t
                             /\ r.doomed => <<t, s>> \in dead
                             /\ r.good = (s \in ValidFor(t)) /\ ~r.touched
<1> DEFINE gone == <<t, s>> \in dead
           valid == s \in ValidFor(t)
           r == [NoReq EXCEPT !.pc = "touch", !.server = s, !.token = t, !.doomed = gone,
                              !.good = valid]
<1>1. gone \in BOOLEAN /\ valid \in BOOLEAN
  OBVIOUS
<1>2. Becomes(p, r) /\ UNCHANGED drawn
  BY DEF CallResolve
<1>3. (gone => <<t, s>> \in dead) /\ valid = (s \in ValidFor(t))
  OBVIOUS
<1> HIDE DEF gone, valid
<1>4. /\ r \in Requests /\ r.pc = "touch" /\ r.server = s /\ r.token = t
      /\ r.doomed = gone /\ r.good = valid /\ r.touched = FALSE
  BY <1>1 DEF NoReq, Requests, PCs, TypeInv, TypeOK
<1> HIDE DEF r
<1> QED BY <1>2, <1>3, <1>4 DEF Takes, Shape

\* The UPDATE matches the row of the token, or none.
Touches(p, x) ==
  /\ tokens' = (tokens \ Touchable(req[p].token)) \cup {[x EXCEPT !.used = clock[Database]]}
  /\ \/ \E r \in Requests :
          /\ Takes(p, r) /\ r.pc = "expiry" /\ r.expires = x.expires /\ r.touched
          /\ r.token = req[p].token /\ r.server = req[p].server
          /\ r.doomed = req[p].doomed /\ r.good = req[p].good
     \/ Takes(p, NoReq)

LEMMA TouchTakes ==
  ASSUME TypeInv, NEW p \in Procs, Touch(p)
  PROVE  \/ \E x \in Touchable(req[p].token) : Touches(p, x)
         \/ Touchable(req[p].token) = {} /\ GoesOn(p, "fallback") /\ UNCHANGED tokens
         \/ Takes(p, NoReq) /\ UNCHANGED tokens
<1>1. req[p] \in Requests /\ Shape(req[p], drawn) /\ req[p].pc = "touch" /\ UNCHANGED drawn
  BY DEF TypeInv, TypeOK, Touch
<1>2. ASSUME NEW x \in Touchable(req[p].token),
             Becomes(p, [req[p] EXCEPT !.pc = "expiry", !.expires = x.expires, !.touched = TRUE])
      PROVE  \E r \in Requests :
               /\ Takes(p, r) /\ r.pc = "expiry" /\ r.expires = x.expires /\ r.touched
               /\ r.token = req[p].token /\ r.server = req[p].server
               /\ r.doomed = req[p].doomed /\ r.good = req[p].good
  <2> DEFINE r == [req[p] EXCEPT !.pc = "expiry", !.expires = x.expires, !.touched = TRUE]
  <2>1. x.expires \in Times \cup {None}
    BY DEF Touchable, Row, TypeInv, TypeOK, Rows
  <2>2. /\ r \in Requests /\ r.pc = "expiry" /\ r.expires = x.expires /\ r.touched
        /\ r.token = req[p].token /\ r.server = req[p].server
        /\ r.doomed = req[p].doomed /\ r.good = req[p].good
    BY <1>1, <2>1 DEF Requests, PCs
  <2>3. Becomes(p, r)
    BY <1>2
  <2> HIDE DEF r
  <2> QED BY <1>1, <2>2, <2>3 DEF Takes, Shape
<1>3. Goto(p, "fallback") => GoesOn(p, "fallback")
  BY <1>1, GotoTakes DEF PCs
<1> QED BY <1>2, <1>3, NoReqTakes DEF Touch, Touches

\* The fallback finds the row, or reports the token missing.
LEMMA FallbackTakes ==
  ASSUME TypeInv, NEW p \in Procs, Fallback(p)
  PROVE  \/ \E x \in Row(req[p].token), r \in Requests :
              /\ Takes(p, r) /\ r.pc = "expiry" /\ r.expires = x.expires
              /\ r.token = req[p].token /\ r.server = req[p].server
              /\ r.doomed = req[p].doomed /\ r.good = req[p].good /\ r.touched = req[p].touched
         \/ Row(req[p].token) = {} /\ GoesOn(p, "missing")
         \/ Takes(p, NoReq)
<1>1. req[p] \in Requests /\ Shape(req[p], drawn) /\ req[p].pc = "fallback" /\ UNCHANGED drawn
  BY DEF TypeInv, TypeOK, Fallback
<1>2. ASSUME NEW x \in Row(req[p].token),
             Becomes(p, [req[p] EXCEPT !.pc = "expiry", !.expires = x.expires])
      PROVE  \E r \in Requests :
               /\ Takes(p, r) /\ r.pc = "expiry" /\ r.expires = x.expires
               /\ r.token = req[p].token /\ r.server = req[p].server
               /\ r.doomed = req[p].doomed /\ r.good = req[p].good /\ r.touched = req[p].touched
  <2> DEFINE r == [req[p] EXCEPT !.pc = "expiry", !.expires = x.expires]
  <2>1. x.expires \in Times \cup {None}
    BY DEF Row, TypeInv, TypeOK, Rows
  <2>2. /\ r \in Requests /\ r.pc = "expiry" /\ r.expires = x.expires
        /\ r.token = req[p].token /\ r.server = req[p].server
        /\ r.doomed = req[p].doomed /\ r.good = req[p].good /\ r.touched = req[p].touched
    BY <1>1, <2>1 DEF Requests, PCs
  <2>3. Becomes(p, r)
    BY <1>2
  <2> HIDE DEF r
  <2> QED BY <1>1, <2>2, <2>3 DEF Takes, Shape
<1>3. Goto(p, "missing") => GoesOn(p, "missing")
  BY <1>1, GotoTakes DEF PCs
<1> QED BY <1>2, <1>3, NoReqTakes DEF Fallback

LEMMA RevokeTakes ==
  ASSUME TypeInv, NEW p \in Procs, Revoke(p)
  PROVE  \/ /\ tokens' = tokens \ Revoked(req[p].token, req[p].user)
            /\ \/ \E r \in Requests :
                    /\ Takes(p, r) /\ r.pc = (IF tokens' = tokens THEN "unknown" ELSE "done")
                    /\ r.token = req[p].token
               \/ Takes(p, NoReq)
         \/ Takes(p, NoReq) /\ UNCHANGED tokens
<1>1. req[p].pc = "revoke" /\ UNCHANGED drawn
  BY DEF Revoke
<1>2. ASSUME NEW pc \in {"unknown", "done"}, Goto(p, pc) PROVE GoesOn(p, pc)
  BY <1>1, <1>2, GotoTakes DEF PCs
<1> QED BY <1>2, NoReqTakes DEF Revoke, GoesOn

LEMMA ExpiryTakes ==
  ASSUME TypeInv, NEW p \in Procs, Expiry(p)
  PROVE  GoesOn(p, IF Valid(req[p].expires, clock[req[p].server]) THEN "accepted" ELSE "expired")
<1>1. req[p].pc = "expiry" /\ UNCHANGED drawn
  BY DEF Expiry
<1>2. ASSUME NEW pc \in {"accepted", "expired"}, Goto(p, pc) PROVE GoesOn(p, pc)
  BY <1>1, <1>2, GotoTakes DEF PCs
<1> QED BY <1>2 DEF Expiry

\* A step of a request that leaves the tables alone.
LEMMA QuietTyped ==
  ASSUME TypeInv, UNCHANGED <<accounts, tokens, drawn, clock, dead>>,
         NEW p \in Procs, NEW r, Takes(p, r)
  PROVE  TypeInv'
BY TakesTyped DEF TypeInv, TypeOK

LEMMA InsertTyped == ASSUME TypeInv, NEW p \in Procs, Insert(p) PROVE TypeInv'
<1>1. req[p] \in Requests /\ Shape(req[p], drawn) /\ req[p].pc = "insert"
      /\ UNCHANGED <<accounts, clock, dead>>
  BY DEF TypeInv, TypeOK, Insert
<1>2. Takes(p, NoReq)
  BY NoReqTakes DEF Insert
<1>3. CASE UNCHANGED <<drawn, tokens>>
  BY <1>1, <1>2, <1>3, QuietTyped
<1>4. ASSUME NEW t \in Fresh, MayOwn(req[p].user), drawn' = drawn \cup {t},
             tokens' = tokens \cup {[token |-> t, owner |-> req[p].user,
                                     expires |-> req[p].expires, used |-> None]}
      PROVE  TypeInv'
  <2> DEFINE x == [token |-> t, owner |-> req[p].user, expires |-> req[p].expires, used |-> None]
  <2>1. x \in Rows /\ x.owner \in accounts /\ x.token = t /\ t \in Tokens
    BY <1>1, <1>4 DEF Fresh, MayOwn, Requests, Rows, TypeInv, TypeOK
  <2>2. tokens' = tokens \cup {x}
    BY <1>4
  <2> HIDE DEF x
  <2>3. TypeOK'
    BY <1>1, <1>2, <1>4, <2>1, <2>2, TakesTyped DEF TypeInv, TypeOK
  <2> QED BY <1>2, <1>4, <2>3, TakesTyped DEF TypeInv
<1> QED BY <1>3, <1>4 DEF Insert

LEMMA TouchTyped == ASSUME TypeInv, NEW p \in Procs, Touch(p) PROVE TypeInv'
<1>1. UNCHANGED <<accounts, drawn, clock, dead>>
  BY DEF Touch
<1>2. CASE UNCHANGED tokens
  BY <1>1, <1>2, TouchTakes, QuietTyped DEF GoesOn, Touches
<1>3. ASSUME NEW x \in Touchable(req[p].token), Touches(p, x) PROVE TypeInv'
  <2> DEFINE y == [x EXCEPT !.used = clock[Database]]
  <2>1. x \in tokens /\ clock[Database] \in Times
    BY DEF Touchable, Row, TypeInv, TypeOK, Clocks
  <2>2. y \in Rows /\ y.owner = x.owner /\ y.token = x.token
    BY <2>1 DEF Rows, TypeInv, TypeOK
  <2>3. tokens' \subseteq tokens \cup {y}
    BY <1>3 DEF Touches
  <2> HIDE DEF y
  <2>4. \E r : Takes(p, r)
    BY <1>3 DEF Touches
  <2> QED BY <1>1, <2>1, <2>2, <2>3, <2>4, TakesTyped DEF TypeInv, TypeOK
<1> QED BY <1>2, <1>3, TouchTakes

LEMMA RevokeTyped == ASSUME TypeInv, NEW p \in Procs, Revoke(p) PROVE TypeInv'
<1>1. UNCHANGED <<accounts, drawn, clock, dead>> /\ tokens' \subseteq tokens
  BY RevokeTakes DEF Revoke
<1>2. \E r : Takes(p, r)
  BY RevokeTakes
<1> QED BY <1>1, <1>2, TakesTyped DEF TypeInv, TypeOK

LEMMA AnswerTyped == ASSUME TypeInv, NEW p \in Procs, ReadAnswer(p) PROVE TypeInv'
<1>1. UNCHANGED <<accounts, tokens, drawn, clock>> /\ Takes(p, NoReq)
  BY NoReqTakes DEF ReadAnswer
<1>2. Learnt(p) \subseteq drawn \X Servers
  BY DEF ReadAnswer, Learnt, TypeInv, Shape
<1>3. dead' = dead \cup Learnt(p)
  BY DEF ReadAnswer
<1> QED BY <1>1, <1>2, <1>3, TakesTyped DEF TypeInv, TypeOK

LEMMA DeleteUserTyped == ASSUME TypeInv, NEW u \in Users, DeleteUser(u) PROVE TypeInv'
<1>1. /\ accounts' = accounts \ {u} /\ tokens' = {r \in tokens : r.owner # u}
      /\ UNCHANGED <<drawn, clock, req>>
  BY DEF DeleteUser, Orphaned
<1>2. dead' = dead \cup {r.token : r \in {x \in tokens : x.owner = u}} \X Servers
  BY DEF DeleteUser
<1>3. dead' \subseteq drawn \X Servers
  BY <1>2 DEF TypeInv, TypeOK
<1> QED BY <1>1, <1>3 DEF TypeInv, TypeOK

LEMMA TickTyped == ASSUME TypeInv, NEW c \in Clocks, Tick(c) PROVE TypeInv'
<1>1. /\ clock[c] < MaxTime /\ clock' = [clock EXCEPT ![c] = @ + 1]
      /\ \A d \in Clocks : clock[c] + 1 - clock[d] <= Skew
      /\ UNCHANGED <<accounts, tokens, drawn, dead, req>>
  BY DEF Tick
<1>2. clock \in [Clocks -> Times] /\ \A d, e \in Clocks : clock[d] - clock[e] <= Skew
  BY DEF TypeInv, TypeOK
<1>3. clock' \in [Clocks -> Times]
  BY <1>1, <1>2, TokensAssumption DEF Times
<1>4. ASSUME NEW d \in Clocks, NEW e \in Clocks PROVE clock'[d] - clock'[e] <= Skew
  <2>1. /\ clock[d] \in Int /\ clock[e] \in Int /\ clock[c] \in Int /\ Skew \in Nat
        /\ clock'[d] = IF d = c THEN clock[d] + 1 ELSE clock[d]
        /\ clock'[e] = IF e = c THEN clock[e] + 1 ELSE clock[e]
    BY <1>1, <1>2, TokensAssumption DEF Times
  <2>2. clock[d] - clock[e] <= Skew /\ clock[c] + 1 - clock[e] <= Skew
    BY <1>1, <1>2
  <2> QED BY <2>1, <2>2
<1> QED BY <1>1, <1>3, <1>4 DEF TypeInv, TypeOK

LEMMA NextTyped == TypeInv /\ [Next]_vars => TypeInv'
<1> SUFFICES ASSUME TypeInv, [Next]_vars PROVE TypeInv'
  OBVIOUS
<1>1. ASSUME NEW p \in Procs, NEW s \in Servers,
             \/ \E u \in Users, x \in Times \cup {None} : CallCreate(p, s, u, x)
             \/ \E t \in drawn : CallResolve(p, s, t) \/ \E u \in Users : CallRevoke(p, s, u, t)
      PROVE  TypeInv'
  <2>1. UNCHANGED <<accounts, tokens, drawn, clock, dead>>
    BY <1>1 DEF CallCreate, CallResolve, CallRevoke
  <2>2. \E r : Takes(p, r)
    BY <1>1, CallCreateTakes, CallResolveTakes, CallRevokeTakes
  <2> QED BY <2>1, <2>2, QuietTyped
<1>2. ASSUME NEW p \in Procs, Fallback(p) \/ Expiry(p) PROVE TypeInv'
  <2>1. UNCHANGED <<accounts, tokens, drawn, clock, dead>>
    BY <1>2 DEF Fallback, Expiry
  <2>2. \E r : Takes(p, r)
    BY <1>2, FallbackTakes, ExpiryTakes DEF GoesOn
  <2> QED BY <2>1, <2>2, QuietTyped
<1>3. CASE UNCHANGED vars
  BY <1>3 DEF vars, TypeInv, TypeOK
<1> QED
  BY <1>1, <1>2, <1>3, InsertTyped, TouchTyped, RevokeTyped, AnswerTyped, DeleteUserTyped, TickTyped
  DEF Next

LEMMA InitTyped == Init => TypeInv
<1> SUFFICES ASSUME Init PROVE TypeInv
  OBVIOUS
<1>1. 0 \in Times /\ Skew \in Nat
  BY TokensAssumption DEF Times
<1> QED BY <1>1, NoReqType DEF Init, TypeInv, TypeOK, Shape

LEMMA Typed == Spec => []TypeInv
BY InitTyped, NextTyped, PTL DEF Spec

\* Tables, clocks and requests stay well typed; every token has an owner who
\* exists, although users are deleted between the calls of CreateAPIToken, and
\* no two clocks differ by more than Skew.
THEOREM TypeCorrect == Spec => []TypeOK
BY Typed, PTL DEF TypeInv

-----------------------------------------------------------------------------
(* What every step keeps.                                                  *)

\* Clocks go forward, and a token that was drawn gets no other expiry.
Ages ==
  /\ dead \subseteq dead' /\ drawn \subseteq drawn'
  /\ \A c \in Clocks : clock[c] <= clock'[c]
  /\ \A x \in tokens' : x.token \in drawn =>
       \E y \in tokens : y.token = x.token /\ y.expires = x.expires

LEMMA ExpiredStays ==
  ASSUME TypeInv, TypeInv', Ages, NEW c \in Clocks, NEW e \in Times \cup {None},
         Expired(e, clock[c])
  PROVE  Expired(e, clock'[c])
<1>1. clock[c] \in Times /\ clock'[c] \in Times /\ clock[c] <= clock'[c]
  BY DEF TypeInv, TypeOK, Ages
<1> QED BY <1>1, TokensAssumption DEF Expired, Times

LEMMA GoneStays ==
  ASSUME TypeInv, TypeInv', Ages, NEW c \in Clocks, NEW t \in drawn, Gone(t, c, tokens, clock)
  PROVE  Gone(t, c, tokens', clock')
<1> SUFFICES ASSUME NEW x \in tokens', x.token = t PROVE Expired(x.expires, clock'[c])
  BY DEF Gone
<1>1. PICK y \in tokens : y.token = t /\ y.expires = x.expires
  BY DEF Ages
<1>2. y.expires \in Times \cup {None}
  BY DEF TypeInv, TypeOK, Rows
<1> QED BY <1>1, <1>2, ExpiredStays DEF Gone

LEMMA ReadStays ==
  ASSUME TypeInv, TypeInv', Ages, NEW r \in Requests, Shape(r, drawn),
         Read(r, tokens, clock, dead)
  PROVE  Read(r, tokens', clock', dead')
<1>0. /\ r.expires \in Times \cup {None} /\ Database \in Clocks
      /\ r.pc # "idle" => r.server \in Clocks
      /\ r.pc \notin {"idle", "insert"} => r.token \in drawn
  BY DEF Requests, Shape, Clocks
<1>1. r.pc \in {"done", "missing"} => \A x \in tokens' : x.token # r.token
  BY <1>0 DEF Ages, Read
<1>2. r.pc = "expired" => Gone(r.token, r.server, tokens', clock')
  BY <1>0, GoneStays DEF Read
<1>3. r.pc = "fallback" => Gone(r.token, Database, tokens', clock')
  BY <1>0, GoneStays DEF Read
<1>4. r.pc = "expiry" => \A x \in tokens' : x.token = r.token => x.expires = r.expires
  BY <1>0 DEF Ages, Read
<1>5. r.pc = "expiry" => /\ ~r.touched => Expired(r.expires, clock'[Database])
                         /\ r.doomed \/ ~r.good => Expired(r.expires, clock'[r.server])
  BY <1>0, ExpiredStays DEF Read
<1>6. r.pc \in {"touch", "fallback"} => (r.doomed => <<r.token, r.server>> \in dead')
  BY DEF Ages, Read
<1>7. r.pc \in {"touch", "fallback"} => (~r.good => Gone(r.token, r.server, tokens', clock'))
  BY <1>0, GoneStays DEF Read
<1> QED BY <1>1, <1>2, <1>3, <1>4, <1>5, <1>6, <1>7 DEF Read

LEMMA RequestsStay ==
  ASSUME TypeInv, TypeInv', TokensInv, Ages,
         NEW p \in Procs, NEW r, Takes(p, r), Read(r, tokens', clock', dead')
  PROVE  \A q \in Procs : Read(req'[q], tokens', clock', dead')
<1> SUFFICES ASSUME NEW q \in Procs PROVE Read(req'[q], tokens', clock', dead')
  OBVIOUS
<1>1. CASE q = p
  BY <1>1, ReqBecomes DEF Takes
<1>2. CASE q # p
  <2>1. req'[q] = req[q]
    BY <1>2, ReqBecomes DEF Takes
  <2>2. req[q] \in Requests /\ Shape(req[q], drawn) /\ Read(req[q], tokens, clock, dead)
    BY DEF TypeInv, TypeOK, TokensInv
  <2> QED BY <2>1, <2>2, ReadStays
<1> QED BY <1>1, <1>2

LEMMA DeadStays ==
  ASSUME TypeInv, TypeInv', TokensInv, Ages,
         \A t \in Tokens, s \in Servers :
           <<t, s>> \in dead' => <<t, s>> \in dead \/ Gone(t, s, tokens', clock')
  PROVE  AllGone(dead', tokens', clock')
<1> SUFFICES ASSUME NEW t \in Tokens, NEW s \in Servers, <<t, s>> \in dead
             PROVE  Gone(t, s, tokens', clock')
  BY DEF AllGone
<1>1. t \in drawn /\ s \in Clocks
  BY DEF TypeInv, TypeOK, Clocks
<1> QED BY <1>1, GoneStays DEF TokensInv, AllGone

\* A step of a request that leaves the tables alone.
LEMMA QuietKeeps ==
  ASSUME TypeInv, TokensInv, UNCHANGED <<accounts, tokens, drawn, clock, dead>>,
         NEW p \in Procs, NEW r, Takes(p, r), Read(r, tokens, clock, dead)
  PROVE  TokensInv'
<1>1. TypeInv'
  BY QuietTyped
<1>2. Ages
  <2>1. \A c \in Clocks : clock[c] \in Int
    BY TokensAssumption DEF TypeInv, TypeOK, Times
  <2> QED BY <2>1 DEF Ages
<1>3. \A q \in Procs : Read(req'[q], tokens', clock', dead')
  BY <1>1, <1>2, RequestsStay
<1> QED BY <1>3 DEF TokensInv

LEMMA NoReqRead == Read(NoReq, tokens, clock, dead) /\ Read(NoReq, tokens', clock', dead')
BY NoReqType DEF Read

-----------------------------------------------------------------------------
(* Dead tokens stay dead: one lemma for each action.                       *)

LEMMA ClocksTyped ==
  TypeInv => /\ \A c \in Clocks : clock[c] \in Times /\ clock[c] \in Int
             /\ Database \in Clocks /\ Servers \subseteq Clocks
BY TokensAssumption DEF TypeInv, TypeOK, Times, Clocks

\* What is not valid at a time is expired then.
LEMMA InvalidExpired ==
  ASSUME TypeInv, NEW c \in Clocks, NEW e \in Times \cup {None}
  PROVE  Valid(e, clock[c]) <=> ~Expired(e, clock[c])
<1>1. clock[c] \in Int /\ (e # None => e \in Int)
  BY ClocksTyped DEF Times
<1> QED BY <1>1 DEF Valid, Expired

LEMMA RowsTyped ==
  TypeInv => \A x \in tokens : /\ x.token \in drawn /\ x.owner \in accounts
                              /\ x.expires \in Times \cup {None} /\ x \in Rows
BY DEF TypeInv, TypeOK, Rows

LEMMA ValidOrGone ==
  ASSUME TypeInv, NEW t \in Tokens, NEW s \in Servers
  PROVE  s \in ValidFor(t) <=> ~Gone(t, s, tokens, clock)
<1>1. s \in Clocks
  BY DEF Clocks
<1>2. \A x \in tokens : Valid(x.expires, clock[s]) <=> ~Expired(x.expires, clock[s])
  BY <1>1, RowsTyped, InvalidExpired
<1> QED BY <1>2 DEF ValidFor, Row, Gone

LEMMA CallResolveKeeps ==
  ASSUME TypeInv, TokensInv, NEW p \in Procs, NEW s \in Servers, NEW t \in drawn,
         CallResolve(p, s, t)
  PROVE  TokensInv'
<1>1. PICK r \in Requests : /\ Takes(p, r) /\ r.pc = "touch" /\ r.server = s /\ r.token = t
                            /\ r.doomed => <<t, s>> \in dead
                            /\ r.good = (s \in ValidFor(t))
  BY CallResolveTakes
<1>2. t \in Tokens
  BY DEF TypeInv, TypeOK
<1>3. Read(r, tokens, clock, dead)
  BY <1>1, <1>2, ValidOrGone DEF Read
<1> QED BY <1>1, <1>3, QuietKeeps DEF CallResolve

LEMMA CallOtherKeeps ==
  ASSUME TypeInv, TokensInv, NEW p \in Procs, NEW s \in Servers, NEW u \in Users,
         \/ \E x \in Times \cup {None} : CallCreate(p, s, u, x)
         \/ \E t \in drawn : CallRevoke(p, s, u, t)
  PROVE  TokensInv'
<1>1. PICK r : Takes(p, r) /\ r.pc \in {"insert", "revoke"}
  BY CallCreateTakes, CallRevokeTakes
<1>2. Read(r, tokens, clock, dead)
  BY <1>1 DEF Read
<1> QED BY <1>1, <1>2, QuietKeeps DEF CallCreate, CallRevoke

LEMMA InsertKeeps == ASSUME TypeInv, TokensInv, NEW p \in Procs, Insert(p) PROVE TokensInv'
<1>1. UNCHANGED <<accounts, clock, dead>> /\ Takes(p, NoReq)
  BY NoReqTakes DEF Insert
<1>2. CASE UNCHANGED <<drawn, tokens>>
  BY <1>1, <1>2, NoReqRead, QuietKeeps
<1>3. ASSUME NEW t \in Fresh, drawn' = drawn \cup {t},
             tokens' = tokens \cup {[token |-> t, owner |-> req[p].user,
                                     expires |-> req[p].expires, used |-> None]}
      PROVE  TokensInv'
  <2> DEFINE y == [token |-> t, owner |-> req[p].user, expires |-> req[p].expires, used |-> None]
  <2>1. y.token = t /\ tokens' = tokens \cup {y}
    BY <1>3
  <2> HIDE DEF y
  <2>2. t \notin drawn /\ \A x \in tokens : x.token \in drawn
    BY RowsTyped DEF Fresh
  <2>3. OneRow(tokens')
    BY <2>1, <2>2 DEF TokensInv, OneRow
  <2>4. Ages
    BY <1>1, <1>3, <2>1, <2>2, ClocksTyped DEF Ages
  <2>5. TypeInv'
    BY InsertTyped
  <2> QED BY <1>1, <2>3, <2>4, <2>5, NoReqRead, RequestsStay, DeadStays DEF TokensInv
<1> QED BY <1>2, <1>3 DEF Insert

\* The row is replaced by one with the same token and expiry.
LEMMA TouchKeeps == ASSUME TypeInv, TokensInv, NEW p \in Procs, Touch(p) PROVE TokensInv'
<1> DEFINE t == req[p].token
           s == req[p].server
<1>1. /\ UNCHANGED <<accounts, drawn, clock, dead>> /\ t \in Tokens /\ t \in drawn /\ s \in Servers
      /\ req[p].doomed => <<t, s>> \in dead
      /\ ~req[p].good => Gone(t, s, tokens, clock)
  BY DEF Touch, TypeInv, TypeOK, Shape, TokensInv, Read
<1>2. CASE Takes(p, NoReq) /\ UNCHANGED tokens
  BY <1>1, <1>2, NoReqRead, QuietKeeps
<1>3. ASSUME Touchable(t) = {}, GoesOn(p, "fallback"), UNCHANGED tokens PROVE TokensInv'
  <2>1. Gone(t, Database, tokens, clock)
    <3> SUFFICES ASSUME NEW x \in tokens, x.token = t PROVE Expired(x.expires, clock[Database])
      BY DEF Gone
    <3>1. ~Valid(x.expires, clock[Database])
      BY <1>3 DEF Touchable, Row
    <3> QED BY <3>1, RowsTyped, ClocksTyped, InvalidExpired
  <2>2. PICK r \in Requests : /\ Takes(p, r) /\ r.pc = "fallback" /\ r.token = t /\ r.server = s
                              /\ r.doomed = req[p].doomed /\ r.good = req[p].good
    BY <1>3 DEF GoesOn
  <2>3. Read(r, tokens, clock, dead)
    BY <1>1, <2>1, <2>2 DEF Read
  <2> QED BY <1>1, <1>3, <2>2, <2>3, QuietKeeps
<1>4. ASSUME NEW x \in Touchable(t), Touches(p, x) PROVE TokensInv'
  <2> DEFINE y == [x EXCEPT !.used = clock[Database]]
  <2>1. x \in tokens /\ x.token = t
    BY DEF Touchable, Row
  <2>2. y.token = t /\ y.expires = x.expires
    BY <2>1, RowsTyped DEF Rows
  <2>3. tokens' = (tokens \ Touchable(t)) \cup {y}
    BY <1>4 DEF Touches
  <2> HIDE DEF y
  <2>4. \A z \in tokens : z.token = t => z = x
    BY <2>1 DEF TokensInv, OneRow
  <2>5. \A z \in tokens' : IF z.token = t THEN z = y ELSE z \in tokens
    BY <2>2, <2>3, <2>4
  <2>6. OneRow(tokens')
    BY <2>5 DEF TokensInv, OneRow
  <2>7. TypeInv'
    BY TouchTyped
  <2>8. Ages
    BY <1>1, <2>1, <2>2, <2>5, ClocksTyped DEF Ages
  <2>9. ASSUME NEW r \in Requests, r.pc = "expiry", r.expires = x.expires, r.touched,
               r.token = t, r.server = s, r.doomed = req[p].doomed /\ r.good = req[p].good
        PROVE  Read(r, tokens', clock', dead')
    <3>1. r.doomed \/ ~r.good => Expired(r.expires, clock[s])
      BY <1>1, <2>1, <2>9 DEF TokensInv, AllGone, Gone
    <3>2. \A z \in tokens' : z.token = r.token => z.expires = r.expires
      BY <2>2, <2>5, <2>9
    <3> QED BY <1>1, <2>9, <3>1, <3>2 DEF Read
  <2>10. \E r : Takes(p, r) /\ Read(r, tokens', clock', dead')
    BY <1>4, <2>9, NoReqRead DEF Touches
  <2> HIDE DEF t, s
  <2> QED BY <1>1, <2>6, <2>7, <2>8, <2>10, RequestsStay, DeadStays DEF TokensInv
<1> QED BY <1>2, <1>3, <1>4, TouchTakes

LEMMA FallbackKeeps == ASSUME TypeInv, TokensInv, NEW p \in Procs, Fallback(p) PROVE TokensInv'
<1> DEFINE t == req[p].token
           s == req[p].server
<1>1. /\ UNCHANGED <<accounts, tokens, drawn, clock, dead>>
      /\ t \in Tokens /\ s \in Servers /\ Gone(t, Database, tokens, clock)
      /\ req[p].doomed => <<t, s>> \in dead
      /\ ~req[p].good => Gone(t, s, tokens, clock)
  BY DEF Fallback, TypeInv, TypeOK, Shape, TokensInv, Read
<1>2. ASSUME Row(t) = {}, GoesOn(p, "missing") PROVE TokensInv'
  <2>1. PICK r \in Requests : Takes(p, r) /\ r.pc = "missing" /\ r.token = t
    BY <1>2 DEF GoesOn
  <2>2. Read(r, tokens, clock, dead)
    BY <1>2, <2>1 DEF Read, Row
  <2> QED BY <1>1, <2>1, <2>2, QuietKeeps
<1>3. ASSUME NEW x \in Row(t), NEW r \in Requests, Takes(p, r), r.pc = "expiry",
             r.expires = x.expires, r.token = t, r.server = s,
             r.doomed = req[p].doomed, r.good = req[p].good
      PROVE  TokensInv'
  <2>1. x \in tokens /\ x.token = t
    BY DEF Row
  <2>2. \A z \in tokens : z.token = t => z.expires = r.expires
    BY <1>3, <2>1 DEF TokensInv, OneRow
  <2>3. Expired(r.expires, clock[Database]) /\ (r.doomed \/ ~r.good => Expired(r.expires, clock[s]))
    BY <1>1, <1>3, <2>1 DEF TokensInv, AllGone, Gone
  <2>4. Read(r, tokens, clock, dead)
    BY <1>3, <2>2, <2>3 DEF Read
  <2> QED BY <1>1, <1>3, <2>4, QuietKeeps
<1>4. CASE Takes(p, NoReq)
  BY <1>1, <1>4, NoReqRead, QuietKeeps
<1> QED BY <1>2, <1>3, <1>4, FallbackTakes

\* A revocation that found the row removed the only one.
LEMMA RevokeKeeps == ASSUME TypeInv, TokensInv, NEW p \in Procs, Revoke(p) PROVE TokensInv'
<1> DEFINE t == req[p].token
<1>1. UNCHANGED <<accounts, drawn, clock, dead>>
  BY DEF Revoke
<1>2. CASE Takes(p, NoReq) /\ UNCHANGED tokens
  BY <1>1, <1>2, NoReqRead, QuietKeeps
<1>3. ASSUME tokens' = tokens \ Revoked(t, req[p].user),
             NEW r, Takes(p, r),
             \/ r.pc = (IF tokens' = tokens THEN "unknown" ELSE "done") /\ r.token = t
             \/ r = NoReq
      PROVE  TokensInv'
  <2>1. tokens' \subseteq tokens
    BY <1>3
  <2>2. tokens' # tokens => \A z \in tokens' : z.token # t
    <3> SUFFICES ASSUME tokens' # tokens PROVE \A z \in tokens' : z.token # t
      OBVIOUS
    <3>1. PICK x \in tokens : x \in Revoked(t, req[p].user)
      BY <1>3
    <3>2. x.token = t /\ x \notin tokens'
      BY <1>3, <3>1 DEF Revoked, Row
    <3> QED BY <2>1, <3>1, <3>2 DEF TokensInv, OneRow
  <2>3. TypeInv' /\ OneRow(tokens')
    BY <2>1, RevokeTyped DEF TokensInv, OneRow
  <2>4. Ages
    BY <1>1, <2>1, ClocksTyped DEF Ages
  <2>5. Read(r, tokens', clock', dead')
    <3>1. CASE r.pc = (IF tokens' = tokens THEN "unknown" ELSE "done") /\ r.token = t
      BY <2>2, <3>1 DEF Read
    <3> QED BY <1>3, <3>1, NoReqRead
  <2> QED BY <1>1, <1>3, <2>3, <2>4, <2>5, RequestsStay, DeadStays DEF TokensInv
<1> QED BY <1>2, <1>3, RevokeTakes

LEMMA ExpiryKeeps == ASSUME TypeInv, TokensInv, NEW p \in Procs, Expiry(p) PROVE TokensInv'
<1> DEFINE e == req[p].expires
           s == req[p].server
<1>1. /\ UNCHANGED <<accounts, tokens, drawn, clock, dead>>
      /\ s \in Clocks /\ e \in Times \cup {None}
      /\ \A x \in tokens : x.token = req[p].token => x.expires = e
      /\ req[p].doomed \/ ~req[p].good => Expired(e, clock[s])
  BY DEF Expiry, TypeInv, TypeOK, Requests, Shape, TokensInv, Read, Clocks
<1>2. Valid(e, clock[s]) <=> ~Expired(e, clock[s])
  BY <1>1, InvalidExpired
<1>3. PICK r \in Requests :
        /\ Takes(p, r) /\ r.pc = (IF Valid(e, clock[s]) THEN "accepted" ELSE "expired")
        /\ r.server = s /\ r.token = req[p].token /\ r.doomed = req[p].doomed /\ r.good = req[p].good
  BY ExpiryTakes DEF GoesOn
<1>4. Read(r, tokens, clock, dead)
  <2>1. CASE Valid(e, clock[s])
    BY <1>1, <1>2, <1>3, <2>1 DEF Read
  <2>2. CASE ~Valid(e, clock[s])
    BY <1>1, <1>2, <1>3, <2>2 DEF Read, Gone
  <2> QED BY <2>1, <2>2
<1> QED BY <1>1, <1>3, <1>4, QuietKeeps

LEMMA AnswerKeeps == ASSUME TypeInv, TokensInv, NEW p \in Procs, ReadAnswer(p) PROVE TokensInv'
<1>1. /\ UNCHANGED <<accounts, tokens, drawn, clock>> /\ dead' = dead \cup Learnt(p)
      /\ Takes(p, NoReq)
  BY NoReqTakes DEF ReadAnswer
<1>2. TypeInv' /\ Ages
  BY <1>1, AnswerTyped, ClocksTyped DEF Ages
<1>3. ASSUME NEW t \in Tokens, NEW s \in Servers, <<t, s>> \in Learnt(p)
      PROVE  Gone(t, s, tokens, clock)
  BY <1>3 DEF Learnt, TokensInv, Read, Gone
<1> QED BY <1>1, <1>2, <1>3, NoReqRead, RequestsStay, DeadStays DEF TokensInv

LEMMA DeleteUserKeeps == ASSUME TypeInv, TokensInv, NEW u \in Users, DeleteUser(u) PROVE TokensInv'
<1>1. tokens' = {x \in tokens : x.owner # u} /\ UNCHANGED <<drawn, clock, req>>
  BY DEF DeleteUser, Orphaned
<1>2. dead' = dead \cup {x.token : x \in {y \in tokens : y.owner = u}} \X Servers
  BY DEF DeleteUser
<1>3. TypeInv' /\ OneRow(tokens')
  BY <1>1, DeleteUserTyped DEF TokensInv, OneRow
<1>4. Ages
  BY <1>1, <1>2, ClocksTyped DEF Ages
<1>5. ASSUME NEW t \in Tokens, NEW s \in Servers, <<t, s>> \in dead', <<t, s>> \notin dead
      PROVE  Gone(t, s, tokens', clock')
  <2>1. PICK x \in tokens : x.owner = u /\ x.token = t
    BY <1>2, <1>5
  <2>2. \A z \in tokens' : z.token # t
    BY <1>1, <2>1 DEF TokensInv, OneRow
  <2> QED BY <2>2 DEF Gone
<1>6. ASSUME NEW q \in Procs PROVE Read(req'[q], tokens', clock', dead')
  BY <1>1, <1>3, <1>4, ReadStays DEF TypeInv, TypeOK, TokensInv
<1> QED BY <1>3, <1>4, <1>5, <1>6, DeadStays DEF TokensInv

LEMMA TickKeeps == ASSUME TypeInv, TokensInv, NEW c \in Clocks, Tick(c) PROVE TokensInv'
<1>1. clock' = [clock EXCEPT ![c] = @ + 1] /\ UNCHANGED <<accounts, tokens, drawn, dead, req>>
  BY DEF Tick
<1>2. TypeInv'
  BY TickTyped
<1>3. Ages
  <2>1. ASSUME NEW d \in Clocks PROVE clock[d] <= clock'[d]
    BY <1>1, ClocksTyped DEF TypeInv, TypeOK
  <2> QED BY <1>1, <2>1 DEF Ages
<1>4. ASSUME NEW q \in Procs PROVE Read(req'[q], tokens', clock', dead')
  BY <1>1, <1>2, <1>3, ReadStays DEF TypeInv, TypeOK, TokensInv
<1> QED BY <1>1, <1>2, <1>3, <1>4, DeadStays DEF TokensInv

LEMMA NextKeeps == TypeInv /\ TokensInv /\ [Next]_vars => TokensInv'
<1> SUFFICES ASSUME TypeInv, TokensInv, [Next]_vars PROVE TokensInv'
  OBVIOUS
<1>1. CASE UNCHANGED vars
  BY <1>1 DEF vars, TokensInv
<1> QED
  BY <1>1, CallResolveKeeps, CallOtherKeeps, InsertKeeps, TouchKeeps, FallbackKeeps, RevokeKeeps,
     ExpiryKeeps, AnswerKeeps, DeleteUserKeeps, TickKeeps
  DEF Next

LEMMA InitKeeps == Init => TokensInv
BY NoReqType DEF Init, TokensInv, OneRow, AllGone, Read

LEMMA Kept == Spec => [](TypeInv /\ TokensInv)
BY InitTyped, InitKeeps, NextTyped, NextKeeps, PTL DEF Spec

\* Dead tokens stay dead: no request of ResolveAPIToken that begins after a
\* revocation, a deletion of the user or an expiry was learnt accepts the token,
\* whatever ran between its statements.
THEOREM DeadRefused == Spec => []DeadStayDead
<1>1. TokensInv => DeadStayDead
  BY DEF TokensInv, Read, DeadStayDead
<1> QED BY <1>1, Kept, PTL

\* An accepted use that is not recorded had an expiry the database's clock had
\* passed, so it was at most the skew of the clocks away (the fallback of
\* Store.ResolveAPIToken reads the row without the condition of its UPDATE).
THEOREM UseRecorded == Spec => []UseIsRecorded
<1>1. ASSUME TypeInv, TokensInv, NEW p \in Procs, req[p].pc = "expiry", ~req[p].touched
      PROVE  req[p].expires # None /\ req[p].expires <= clock[req[p].server] + Skew
  <2>1. Expired(req[p].expires, clock[Database])
    BY <1>1 DEF TokensInv, Read
  <2>2. /\ req[p].expires \in Times \cup {None} /\ req[p].server \in Clocks
        /\ Database \in Clocks
    BY <1>1 DEF TypeInv, TypeOK, Requests, Shape, Clocks
  <2>3. clock[Database] - clock[req[p].server] <= Skew
    BY <1>1, <2>2 DEF TypeInv, TypeOK
  <2> QED BY <1>1, <2>1, <2>2, <2>3, ClocksTyped, TokensAssumption DEF Expired, Times
<1>2. TypeInv /\ TokensInv => UseIsRecorded
  BY <1>1 DEF UseIsRecorded
<1> QED BY <1>2, Kept, PTL

\* The only steps that take a token away are a revocation in the name of its
\* owner and the deletion of the owner; a touch puts the row back.
LEMMA OwnersRevokeStep ==
  ASSUME TypeInv, [Next]_vars, NEW r \in tokens, \A x \in tokens' : x.token # r.token
  PROVE  \/ r.owner \notin accounts'
         \/ \E p \in Procs : req[p].pc = "revoke" /\ req[p].token = r.token /\ req[p].user = r.owner
<1>1. r \notin tokens'
  OBVIOUS
<1>2. ASSUME NEW p \in Procs, Revoke(p)
      PROVE  req[p].pc = "revoke" /\ req[p].token = r.token /\ req[p].user = r.owner
  BY <1>1, <1>2 DEF Revoke, Revoked, Row
<1>3. ASSUME NEW p \in Procs, Touch(p) PROVE FALSE
  <2>1. PICK x \in Touchable(req[p].token) : Touches(p, x)
    BY <1>1, <1>3, TouchTakes
  <2> DEFINE y == [x EXCEPT !.used = clock[Database]]
  <2>2. y.token = req[p].token
    BY RowsTyped DEF Touchable, Row, Rows
  <2>3. tokens' = (tokens \ Touchable(req[p].token)) \cup {y}
    BY <2>1 DEF Touches
  <2> HIDE DEF y
  <2>4. r \in Touchable(req[p].token)
    BY <1>1, <2>3
  <2> QED BY <2>2, <2>3, <2>4 DEF Touchable, Row
<1>4. ASSUME NEW u \in Users, DeleteUser(u) PROVE r.owner \notin accounts'
  BY <1>1, <1>4 DEF DeleteUser, Orphaned
<1>5. ASSUME NEW p \in Procs,
             \/ Insert(p) \/ Fallback(p) \/ Expiry(p) \/ ReadAnswer(p)
             \/ \E s \in Servers :
                  \/ \E u \in Users, x \in Times \cup {None} : CallCreate(p, s, u, x)
                  \/ \E t \in drawn : CallResolve(p, s, t) \/ \E u \in Users : CallRevoke(p, s, u, t)
      PROVE  FALSE
  BY <1>1, <1>5 DEF Insert, Fallback, Expiry, ReadAnswer, CallCreate, CallResolve, CallRevoke
<1>6. ASSUME NEW c \in Clocks, Tick(c) PROVE FALSE
  BY <1>1, <1>6 DEF Tick
<1>7. ~UNCHANGED vars
  BY <1>1 DEF vars
<1> QED BY <1>2, <1>3, <1>4, <1>5, <1>6, <1>7 DEF Next

\* A token goes away only in the name of its owner or with the owner
\* (RevokeAPIToken's DELETE compares the identity, the cascade the owner).
THEOREM OnlyOwnersRevoke == Spec => OwnersRevoke
<1>1. TypeInv /\ [Next]_vars =>
        [\A r \in tokens :
           (\A x \in tokens' : x.token # r.token) =>
             \/ r.owner \notin accounts'
             \/ \E p \in Procs :
                  req[p].pc = "revoke" /\ req[p].token = r.token /\ req[p].user = r.owner]_vars
  BY OwnersRevokeStep
<1> QED BY <1>1, Typed, PTL DEF Spec, OwnersRevoke

-----------------------------------------------------------------------------
(* The registry of tokens.                                                 *)

LEMMA NothingAsked ==
  /\ Registry!Nothing = [stage |-> "none", token |-> None, server |-> None, good |-> FALSE]
  /\ Question(NoReq) = Registry!Nothing
  /\ \A r : Stage(r.pc) = "none" => Question(r) = Registry!Nothing
BY NoReqType DEF Registry!Nothing, Question, Stage, NoReq

LEMMA AskedAs ==
  ASSUME NEW r, Stage(r.pc) # "none"
  PROVE  /\ Question(r) = [stage |-> Stage(r.pc), token |-> r.token, server |-> r.server,
                           good |-> r.good]
         /\ Question(r) # Registry!Nothing
BY NothingAsked DEF Question

LEMMA QuestionsTake ==
  ASSUME TypeInv, NEW p \in Procs, NEW r, Becomes(p, r)
  PROVE  Questions' = [Questions EXCEPT ![p] = Question(r)]
<1>1. \A q \in Procs : Questions'[q] = IF q = p THEN Question(r) ELSE Questions[q]
  BY ReqBecomes DEF Questions
<1> QED BY <1>1 DEF Questions

LEMMA QuestionStays ==
  ASSUME TypeInv, NEW p \in Procs, NEW r, Becomes(p, r), Question(r) = Questions[p]
  PROVE  UNCHANGED Questions
<1>1. Questions' = [Questions EXCEPT ![p] = Questions[p]]
  BY QuestionsTake
<1> QED BY <1>1 DEF Questions

\* A resolution that goes on says no more than its stage.
LEMMA QuestionGoesOn ==
  ASSUME TypeInv, NEW p \in Procs, Stage(req[p].pc) = "open",
         NEW r, Becomes(p, r), Stage(r.pc) # "none",
         r.token = req[p].token, r.server = req[p].server, r.good = req[p].good
  PROVE  /\ Questions' = [Questions EXCEPT ![p].stage = Stage(r.pc)]
         /\ Stage(r.pc) = "open" => Questions' = Questions
<1> DEFINE q == [stage |-> "open", token |-> req[p].token, server |-> req[p].server,
                 good |-> req[p].good]
<1>1. Questions[p] = q
  BY AskedAs DEF Questions
<1>2. Question(r) = [q EXCEPT !.stage = Stage(r.pc)]
  BY AskedAs
<1>3. Questions' = [Questions EXCEPT ![p] = Question(r)]
  BY QuestionsTake
<1>4. Stage(r.pc) = "open" => Question(r) = q
  BY AskedAs
<1> HIDE DEF q
<1> QED BY <1>1, <1>2, <1>3, <1>4 DEF Questions

\* A request that ends has had its answer read, or is no resolution.
LEMMA QuestionEnds ==
  ASSUME TypeInv, NEW p \in Procs, Becomes(p, NoReq), UNCHANGED <<drawn, Held>>
  PROVE  Registry!Leave(p) \/ UNCHANGED Questions
<1>1. Questions' = [Questions EXCEPT ![p] = Registry!Nothing]
  BY QuestionsTake, NothingAsked
<1>2. CASE Questions[p] = Registry!Nothing
  BY <1>1, <1>2 DEF Questions
<1>3. CASE Questions[p] # Registry!Nothing
  BY <1>1, <1>3 DEF Registry!Leave
<1> QED BY <1>2, <1>3

\* Taking rows away and letting clocks go on makes no token valid.
LEMMA HeldFades ==
  ASSUME TypeInv, TypeInv', tokens' \subseteq tokens, \A c \in Clocks : clock[c] <= clock'[c],
         UNCHANGED <<drawn, Questions>>
  PROVE  Registry!Fade
<1>1. ASSUME NEW t \in Tokens, NEW s \in ValidFor(t)' PROVE s \in ValidFor(t)
  <2>1. PICK x \in tokens' : x.token = t /\ Valid(x.expires, clock'[s])
    BY DEF ValidFor, Row
  <2>2. s \in Clocks /\ s \in Servers /\ x \in tokens /\ x.expires \in Times \cup {None}
    BY <1>1, <2>1, RowsTyped DEF ValidFor, Clocks
  <2>3. clock[s] \in Int /\ clock'[s] \in Int /\ clock[s] <= clock'[s]
    BY <2>2, TokensAssumption DEF TypeInv, TypeOK, Times
  <2>4. Valid(x.expires, clock[s])
    BY <2>1, <2>2, <2>3, TokensAssumption DEF Valid, Times
  <2> QED BY <2>1, <2>2, <2>4 DEF ValidFor, Row
<1>2. Held' \in [Tokens -> SUBSET Servers] /\ \A t \in Tokens : Held'[t] \subseteq Held[t]
  BY <1>1 DEF Held, ValidFor
<1> QED BY <1>2 DEF Registry!Fade

LEMMA HeldStays == UNCHANGED <<tokens, clock>> => UNCHANGED Held
BY DEF Held, ValidFor, Row

LEMMA CallResolveRegisters ==
  ASSUME TypeInv, NEW p \in Procs, NEW s \in Servers, NEW t \in drawn, CallResolve(p, s, t)
  PROVE  Registry!Ask(p, s, t)
<1>1. PICK r \in Requests : /\ Takes(p, r) /\ r.pc = "touch" /\ r.server = s /\ r.token = t
                            /\ r.doomed => <<t, s>> \in dead
                            /\ r.good = (s \in ValidFor(t)) /\ ~r.touched
  BY CallResolveTakes
<1>2. Held[t] = ValidFor(t)
  BY DEF Held, TypeInv, TypeOK
<1>3. Stage(r.pc) = "open" /\ Stage(req[p].pc) = "none"
  BY <1>1 DEF Stage, CallResolve
<1>4. Questions[p] = Registry!Nothing
  BY <1>3, NothingAsked DEF Questions
<1>5. Question(r) = [stage |-> "open", token |-> t, server |-> s, good |-> s \in Held[t]]
  BY <1>1, <1>2, <1>3, AskedAs
<1>6. UNCHANGED <<drawn, Held>>
  BY HeldStays DEF CallResolve
<1> QED BY <1>1, <1>4, <1>5, <1>6, QuestionsTake DEF Registry!Ask, Takes

\* Creations and revocations ask nothing.
LEMMA CallOtherRegisters ==
  ASSUME TypeInv, NEW p \in Procs, NEW s \in Servers, NEW u \in Users,
         \/ \E x \in Times \cup {None} : CallCreate(p, s, u, x)
         \/ \E t \in drawn : CallRevoke(p, s, u, t)
  PROVE  UNCHANGED <<drawn, Held, Questions>>
<1>1. PICK r : Takes(p, r) /\ r.pc \in {"insert", "revoke"}
  BY CallCreateTakes, CallRevokeTakes
<1>2. req[p].pc = "idle" /\ UNCHANGED <<drawn, Held>>
  BY HeldStays DEF CallCreate, CallRevoke
<1>3. Question(r) = Registry!Nothing /\ Questions[p] = Registry!Nothing
  BY <1>1, <1>2, NothingAsked DEF Stage, Questions
<1> QED BY <1>1, <1>2, <1>3, QuestionStays DEF Takes

\* A new token is valid for the replicas whose clocks its expiry is ahead of.
LEMMA InsertRegisters ==
  ASSUME TypeInv, NEW p \in Procs, Insert(p)
  PROVE  \/ UNCHANGED <<drawn, Held, Questions>>
         \/ \E t \in Tokens, S \in SUBSET Servers : Registry!Issue(t, S)
<1>1. req[p].pc = "insert" /\ Becomes(p, NoReq) /\ UNCHANGED clock
  BY DEF Insert
<1>2. UNCHANGED Questions
  <2>1. Questions[p] = Registry!Nothing
    BY <1>1, NothingAsked DEF Stage, Questions
  <2> QED BY <1>1, <2>1, NothingAsked, QuestionStays
<1>3. CASE UNCHANGED <<drawn, tokens>>
  BY <1>1, <1>2, <1>3, HeldStays
<1>4. ASSUME NEW t \in Fresh, drawn' = drawn \cup {t},
             tokens' = tokens \cup {[token |-> t, owner |-> req[p].user,
                                     expires |-> req[p].expires, used |-> None]}
      PROVE  \E S \in SUBSET Servers : Registry!Issue(t, S)
  <2>1. t \in Tokens /\ t \notin drawn
    BY DEF Fresh
  <2>2. \A o \in Tokens \ {t} : Row(o)' = Row(o)
    BY <1>4 DEF Row
  <2>3. \A o \in Tokens \ {t} : Held'[o] = Held[o]
    BY <1>1, <2>2 DEF Held, ValidFor
  <2>4. Held'[t] \in SUBSET Servers
    BY <2>1 DEF Held, ValidFor
  <2>5. Held' = [Held EXCEPT ![t] = Held'[t]]
    BY <2>1, <2>3 DEF Held
  <2> QED BY <1>2, <1>4, <2>1, <2>4, <2>5 DEF Registry!Issue
<1> QED BY <1>3, <1>4 DEF Insert, Fresh

\* A use is recorded in the row and changes nothing else of it.
LEMMA TouchRegisters ==
  ASSUME TypeInv, TokensInv, NEW p \in Procs, Touch(p)
  PROVE  UNCHANGED <<drawn, Held, Questions>> \/ Registry!Leave(p)
<1>1. req[p].pc = "touch" /\ UNCHANGED <<drawn, clock>>
  BY DEF Touch
<1>2. Stage(req[p].pc) = "open"
  BY <1>1 DEF Stage
<1>3. ASSUME UNCHANGED tokens, GoesOn(p, "fallback") PROVE UNCHANGED <<drawn, Held, Questions>>
  BY <1>1, <1>2, <1>3, HeldStays, QuestionGoesOn DEF GoesOn, Takes, Stage
<1>4. CASE UNCHANGED tokens /\ Takes(p, NoReq)
  BY <1>1, <1>4, HeldStays, QuestionEnds DEF Takes
<1>5. ASSUME NEW x \in Touchable(req[p].token), Touches(p, x)
      PROVE  UNCHANGED <<drawn, Held, Questions>> \/ Registry!Leave(p)
  <2> DEFINE y == [x EXCEPT !.used = clock[Database]]
  <2>1. x \in tokens /\ x.token = req[p].token /\ Valid(x.expires, clock[Database])
    BY DEF Touchable, Row
  <2>2. y.token = x.token /\ y.expires = x.expires
    BY <2>1, RowsTyped DEF Rows
  <2>3. tokens' = (tokens \ Touchable(req[p].token)) \cup {y}
    BY <1>5 DEF Touches
  <2> HIDE DEF y
  <2>4. UNCHANGED Held
    <3>1. \A z : z \in tokens' => IF z.token = y.token THEN z = y ELSE z \in tokens
      BY <2>1, <2>2, <2>3 DEF TokensInv, OneRow
    <3>2. \A z \in tokens : IF z.token = y.token THEN z = x ELSE z \in tokens'
      BY <2>1, <2>2, <2>3 DEF TokensInv, OneRow, Touchable, Row
    <3>3. y \in tokens'
      BY <2>3
    <3>4. ASSUME NEW o \in Tokens, NEW s \in Servers
          PROVE  (\E z \in Row(o) : Valid(z.expires, clock[s]))
                   <=> \E z \in Row(o)' : Valid(z.expires, clock[s])
      BY <2>1, <2>2, <3>1, <3>2, <3>3 DEF Row
    <3> QED BY <1>1, <3>4 DEF Held, ValidFor
  <2>5. CASE Takes(p, NoReq)
    BY <1>1, <2>4, <2>5, QuestionEnds DEF Takes
  <2>6. CASE \E r \in Requests :
               /\ Takes(p, r) /\ r.pc = "expiry" /\ r.token = req[p].token
               /\ r.server = req[p].server /\ r.good = req[p].good
    BY <1>1, <1>2, <2>4, <2>6, QuestionGoesOn DEF Takes, Stage
  <2> QED BY <1>5, <2>5, <2>6 DEF Touches
<1> QED BY <1>3, <1>4, <1>5, TouchTakes

\* A token is missing only when it is valid nowhere.
LEMMA FallbackRegisters ==
  ASSUME TypeInv, NEW p \in Procs, Fallback(p)
  PROVE  UNCHANGED <<drawn, Held, Questions>> \/ Registry!Leave(p) \/ Registry!Refuse(p)
<1>1. req[p].pc = "fallback" /\ UNCHANGED <<drawn, tokens, clock>>
  BY DEF Fallback
<1>2. Stage(req[p].pc) = "open" /\ UNCHANGED Held
  BY <1>1, HeldStays DEF Stage
<1>3. CASE Takes(p, NoReq)
  BY <1>1, <1>2, <1>3, QuestionEnds DEF Takes
<1>4. CASE \E r \in Requests :
             /\ Takes(p, r) /\ r.pc = "expiry" /\ r.token = req[p].token
             /\ r.server = req[p].server /\ r.good = req[p].good
  BY <1>1, <1>2, <1>4, QuestionGoesOn DEF Takes, Stage
<1>5. ASSUME Row(req[p].token) = {}, GoesOn(p, "missing") PROVE Registry!Refuse(p)
  <2>1. Questions' = [Questions EXCEPT ![p].stage = "refused"]
    BY <1>2, <1>5, QuestionGoesOn DEF GoesOn, Takes, Stage
  <2>2. /\ Questions[p].stage = "open" /\ Questions[p].token = req[p].token
        /\ req[p].token \in Tokens
    BY <1>1, <1>2, AskedAs DEF Questions, TypeInv, TypeOK, Shape
  <2>3. Held[req[p].token] = {}
    BY <1>5, <2>2 DEF Held, ValidFor
  <2> QED BY <1>1, <1>2, <2>1, <2>2, <2>3 DEF Registry!Refuse, Registry!Answer
<1> QED BY <1>3, <1>4, <1>5, FallbackTakes

\* What was read of the row is as good as the row: what has expired is valid no
\* more, and what has not was valid when the request began.
LEMMA ExpiryRegisters ==
  ASSUME TypeInv, TokensInv, NEW p \in Procs, Expiry(p)
  PROVE  Registry!Accept(p) \/ Registry!Refuse(p)
<1> DEFINE e == req[p].expires
           s == req[p].server
           t == req[p].token
<1>1. /\ req[p].pc = "expiry" /\ UNCHANGED <<drawn, Held>> /\ Stage(req[p].pc) = "open"
      /\ s \in Servers /\ s \in Clocks /\ t \in Tokens /\ e \in Times \cup {None}
      /\ \A x \in tokens : x.token = t => x.expires = e
      /\ ~req[p].good => Expired(e, clock[s])
  BY HeldStays DEF Expiry, TypeInv, TypeOK, Requests, Shape, TokensInv, Read, Stage, Clocks
<1>2. Valid(e, clock[s]) <=> ~Expired(e, clock[s])
  BY <1>1, InvalidExpired
<1>3. Questions[p] = [stage |-> "open", token |-> t, server |-> s, good |-> req[p].good]
  BY <1>1, AskedAs DEF Questions
<1>4. CASE Valid(e, clock[s])
  <2>1. Questions' = [Questions EXCEPT ![p].stage = "accepted"]
    BY <1>1, <1>4, ExpiryTakes, QuestionGoesOn DEF GoesOn, Takes, Stage
  <2> QED BY <1>1, <1>2, <1>3, <1>4, <2>1 DEF Registry!Accept, Registry!Answer
<1>5. CASE ~Valid(e, clock[s])
  <2>1. Questions' = [Questions EXCEPT ![p].stage = "refused"]
    BY <1>1, <1>5, ExpiryTakes, QuestionGoesOn DEF GoesOn, Takes, Stage
  <2>2. s \notin Held[t]
    BY <1>1, <1>5 DEF Held, ValidFor, Row
  <2> QED BY <1>1, <1>3, <2>1, <2>2 DEF Registry!Refuse, Registry!Answer
<1> QED BY <1>4, <1>5

LEMMA RevokeRegisters ==
  ASSUME TypeInv, NEW p \in Procs, Revoke(p)
  PROVE  Registry!Fade
<1>1. /\ req[p].pc = "revoke" /\ UNCHANGED <<drawn, clock>> /\ tokens' \subseteq tokens
  BY RevokeTakes DEF Revoke
<1>2. PICK r : Takes(p, r) /\ r.pc \in {"unknown", "done", "idle"}
  BY RevokeTakes, NoReqType
<1>3. Question(r) = Registry!Nothing /\ Questions[p] = Registry!Nothing
  BY <1>1, <1>2, NothingAsked DEF Stage, Questions
<1>4. UNCHANGED Questions
  BY <1>2, <1>3, QuestionStays DEF Takes
<1> QED BY <1>1, <1>4, RevokeTyped, ClocksTyped, HeldFades

LEMMA NextRegisters ==
  TypeInv /\ TokensInv /\ [Next]_vars => [Registry!Next]_(Registry!vars)
<1> SUFFICES ASSUME TypeInv, TokensInv, [Next]_vars PROVE [Registry!Next]_(Registry!vars)
  OBVIOUS
<1> USE DEF Registry!Next, Registry!vars
<1>1. ASSUME NEW p \in Procs, ReadAnswer(p)
      PROVE  UNCHANGED <<drawn, Held, Questions>> \/ Registry!Leave(p)
  BY <1>1, HeldStays, QuestionEnds DEF ReadAnswer
<1>2. ASSUME NEW u \in Users, DeleteUser(u) PROVE Registry!Fade
  <2>1. tokens' \subseteq tokens /\ UNCHANGED <<drawn, clock, Questions>>
    BY <1>2 DEF DeleteUser, Questions
  <2> QED BY <1>2, <2>1, DeleteUserTyped, ClocksTyped, HeldFades
<1>3. ASSUME NEW c \in Clocks, Tick(c) PROVE Registry!Fade
  <2>1. tokens' \subseteq tokens /\ UNCHANGED <<drawn, Questions>>
    BY <1>3 DEF Tick, Questions
  <2>2. \A d \in Clocks : clock[d] <= clock'[d]
    BY <1>3, ClocksTyped DEF Tick, TypeInv, TypeOK
  <2> QED BY <1>3, <2>1, <2>2, TickTyped, HeldFades
<1>4. ASSUME NEW p \in Procs, Insert(p) \/ Revoke(p) \/ Touch(p) \/ Fallback(p) \/ Expiry(p)
      PROVE  [Registry!Next]_(Registry!vars)
  BY <1>4, InsertRegisters, RevokeRegisters, TouchRegisters, FallbackRegisters, ExpiryRegisters
<1>5. ASSUME NEW p \in Procs, NEW s \in Servers,
             \/ \E u \in Users, x \in Times \cup {None} : CallCreate(p, s, u, x)
             \/ \E t \in drawn : CallResolve(p, s, t) \/ \E u \in Users : CallRevoke(p, s, u, t)
      PROVE  [Registry!Next]_(Registry!vars)
  <2>1. ASSUME NEW t \in drawn, CallResolve(p, s, t) PROVE Registry!Next
    BY <2>1, CallResolveRegisters
  <2>2. ASSUME NEW u \in Users,
               \/ \E x \in Times \cup {None} : CallCreate(p, s, u, x)
               \/ \E t \in drawn : CallRevoke(p, s, u, t)
        PROVE  UNCHANGED Registry!vars
    BY <2>2, CallOtherRegisters
  <2> QED BY <1>5, <2>1, <2>2
<1>6. CASE UNCHANGED vars
  BY <1>6, HeldStays DEF vars, Questions
<1> QED BY <1>1, <1>2, <1>3, <1>4, <1>5, <1>6 DEF Next

\* The table of tokens, read in two statements and compared with two clocks, is a
\* registry in which tokens only ever stop being valid and each answer of
\* ResolveAPIToken was true at some moment of its request, whatever is revoked,
\* deleted or lost meanwhile (ResolveAPIToken and Store.ResolveAPIToken).
THEOREM TokensImplementRegistry == Spec => ImplementsRegistry
<1>1. Init => Registry!Init
  <2> SUFFICES ASSUME Init PROVE Registry!Init
    OBVIOUS
  <2>1. Held = [t \in Tokens |-> {}]
    BY DEF Init, Held, ValidFor, Row
  <2>2. Questions = [p \in Procs |-> Registry!Nothing]
    BY NothingAsked DEF Init, Questions
  <2> QED BY <2>1, <2>2 DEF Init, Registry!Init
<1> QED BY <1>1, NextRegisters, Kept, PTL DEF Spec, ImplementsRegistry, Registry!Spec
=============================================================================
