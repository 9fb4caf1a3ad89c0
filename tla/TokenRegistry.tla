---------------------------- MODULE TokenRegistry ----------------------------
(***************************************************************************)
(* What callers are promised of API tokens, without tables, clocks and     *)
(* statements.  A token is issued once; from then on it can only stop      *)
(* being valid, for one replica after the other or for all at once.  Who   *)
(* asks a replica about a token gets an answer that was true at some       *)
(* moment between the question and the answer, or none.  APITokens         *)
(* implements this specification.                                          *)
(***************************************************************************)
CONSTANTS Tokens, Procs, Servers, None

VARIABLES
  issued,  \* the tokens there were
  valid,   \* for which replicas each token is valid
  asked    \* the questions, until their answer is read

vars == <<issued, valid, asked>>

Nothing == [stage |-> "none", token |-> None, server |-> None, good |-> FALSE]

Issue(t, S) ==
  /\ t \notin issued
  /\ issued' = issued \cup {t} /\ valid' = [valid EXCEPT ![t] = S]
  /\ UNCHANGED asked

\* Revocation, deletion of the owner, time.
Fade ==
  /\ valid' \in [Tokens -> SUBSET Servers] /\ \A t \in Tokens : valid'[t] \subseteq valid[t]
  /\ UNCHANGED <<issued, asked>>

\* A question is good when its token is valid as it is asked.
Ask(p, s, t) ==
  /\ asked[p] = Nothing
  /\ asked' = [asked EXCEPT ![p] = [stage |-> "open", token |-> t, server |-> s,
                                    good |-> s \in valid[t]]]
  /\ UNCHANGED <<issued, valid>>

Answer(p, stage) ==
  /\ asked[p].stage = "open" /\ asked' = [asked EXCEPT ![p].stage = stage]
  /\ UNCHANGED <<issued, valid>>
Accept(p) == Answer(p, "accepted") /\ asked[p].good
Refuse(p) == Answer(p, "refused") /\ asked[p].server \notin valid[asked[p].token]

\* The answer is read, or never comes.
Leave(p) ==
  /\ asked[p] # Nothing /\ asked' = [asked EXCEPT ![p] = Nothing]
  /\ UNCHANGED <<issued, valid>>

Init ==
  /\ issued = {} /\ valid = [t \in Tokens |-> {}]
  /\ asked = [p \in Procs |-> Nothing]

Next ==
  \/ \E t \in Tokens, S \in SUBSET Servers : Issue(t, S)
  \/ Fade
  \/ \E p \in Procs :
       \/ \E s \in Servers, t \in issued : Ask(p, s, t)
       \/ Accept(p) \/ Refuse(p) \/ Leave(p)

Spec == Init /\ [][Next]_vars
=============================================================================
