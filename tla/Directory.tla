------------------------------ MODULE Directory ------------------------------
(***************************************************************************)
(* The users as others find them: usernames given at sign-in and changed   *)
(* by UpdateMe, SearchUsers by prefix, and ListUsers page by page          *)
(* (internal/server/server.go).  Composes Usernames and Listing.           *)
(***************************************************************************)
EXTENDS Usernames, Listing

CONSTANTS
  None,
  InitRows,      \* users seeded before usernames existed
  Inputs,        \* the texts identity providers and clients send
  Probes,        \* more of them, for the properties of candidates alone
  SearchDefault, SearchMax,
  Order          \* rank of the characters in the collation

ASSUME DirectoryAssumption ==
  /\ InitRows \subseteq Ids /\ IsFiniteSet(InitRows) /\ Inputs \cup Probes \subseteq Texts
  /\ SearchDefault \in 1..SearchMax /\ SearchMax \in Nat
  /\ Order \in [Allowed -> Nat] /\ \A c, d \in Allowed : Order[c] = Order[d] => c = d

VARIABLE username  \* of each row, None if it has none

vars == <<listingVars, username>>

Taken == {username[i] : i \in live} \ {None}

\* Mutant of Allocated: the first candidate is taken unseen.
AllocatedFirst(candidates) == {candidates[1]}

\* The candidate loop of ResolveOrCreateUser and CreateUser: the first that the
\* unique index lets in; the interleavings of the loop are those of UserAccounts.
Allocated(candidates) ==
  LET free == {n \in DOMAIN candidates : candidates[n] \notin Taken} IN
  {candidates[n] : n \in {m \in free : \A k \in free : m <= k}}

\* What sign-ins (a preferred username, or an email and a name) and CreateUser (a
\* name alone) have to make a username of, and the candidates they start with.
Given ==
  {<<v, <<>>, <<>>>> : v \in Inputs} \cup {<<<<>>, v, w>> : v, w \in Inputs \cup {<<>>}}
Offered ==
  {Candidates(DeriveBase(given[1], given[2], given[3], fallback), <<random>>) :
     given \in Given, fallback \in Fallbacks, random \in Randoms}

SignUp(i, candidates) ==
  /\ \E v \in Allocated(candidates) : username' = [username EXCEPT ![i] = v]
  /\ InsertRow(i)

UpdateMe(i, v) ==
  /\ i \in live /\ Acceptable(v) /\ \A j \in live \ {i} : username[j] # v
  /\ username' = [username EXCEPT ![i] = v]
  /\ UNCHANGED listingVars

DeleteUser(i) == DeleteRow(i) /\ username' = [username EXCEPT ![i] = None]

\* ListUsers, by one client at a time.
StartListing == StartScan /\ UNCHANGED username
ListUsers(size) == NextPage(size) /\ UNCHANGED username

Init == ListingInit(InitRows) /\ username = [i \in Ids |-> None]

Next ==
  \/ \E i \in Ids :
       \/ \E candidates \in Offered : SignUp(i, candidates)
       \/ \E v \in Inputs : UpdateMe(i, v)
       \/ DeleteUser(i)
  \/ StartListing
  \/ \E size \in Sizes : ListUsers(size)

Spec == Init /\ [][Next]_vars

-----------------------------------------------------------------------------
(* SearchUsers.                                                            *)

Before(v, w) ==
  \/ IsStrictPrefix(v, w)
  \/ \E n \in DOMAIN v \cap DOMAIN w :
       SubSeq(v, 1, n - 1) = SubSeq(w, 1, n - 1) /\ Order[v[n]] < Order[w[n]]

\* What the store answers.
Found(prefix, limit) ==
  LET matching == {v \in Taken : Like(v, Escaped(prefix) \o <<"%">>)}
      goesFirst(v, w) == v # w /\ w # prefix /\ (v = prefix \/ Before(v, w))
      place(v) == Cardinality({w \in matching : goesFirst(w, v)}) + 1
  IN [n \in 1..Min({limit, Cardinality(matching)}) |-> CHOOSE v \in matching : place(v) = n]

\* The requests that are not refused; a limit of 0 stands for the default.
Searchable(prefix, limit) == Acceptable(prefix) /\ limit \in 0..SearchMax
SearchUsers(prefix, limit) == Found(prefix, IF limit = 0 THEN SearchDefault ELSE limit)

-----------------------------------------------------------------------------
\* The variables keep their types; no two users have one username.
TypeOK ==
  /\ live \subseteq drawn /\ drawn \subseteq Ids
  /\ cursor \in Ids \cup {0} /\ returned \in [Ids -> Nat] /\ stable \subseteq live
  /\ \A i \in live : username[i] = None \/ username[i] \in Texts
  /\ \A i, j \in live : username[i] = username[j] /\ username[i] # None => i = j

ProbesUsable ==
  \A v \in Probes : Normalized(v) # <<>> =>
    \A random \in Randoms :
      LET candidates == Candidates(Normalized(v), <<random>>) IN
      /\ \A n \in DOMAIN candidates : Acceptable(candidates[n])
      /\ \A m, n \in 2..NumericMax : candidates[m] = candidates[n] => m = n

\* Whatever the identity provider sends, each candidate made of it, the shortened
\* and the random ones too, is a username that its owner could give to UpdateMe and
\* others to SearchUsers, and so is every username in the table; and shortening does
\* not make the numbers collide: two candidates are the same only if one of them
\* is the base or a random one.
CandidatesUsable == ProbesUsable /\ \A v \in Taken : Acceptable(v)

\* Every beginning of a username can be searched for, and SearchUsers returns the
\* users whose username has that very beginning: all of them if they are no more
\* than the limit, the exact match first.
SearchIsLiteral ==
  \A prefix \in UNION {{SubSeq(v, 1, n) : n \in DOMAIN v} : v \in Taken}, limit \in {0, 1} :
    LET found == SearchUsers(prefix, limit)
        literal == {w \in Taken : IsPrefix(prefix, w)}
        most == IF limit = 0 THEN SearchDefault ELSE limit
    IN /\ Searchable(prefix, limit)
       /\ ToSet(found) \subseteq literal /\ IsInjective(found)
       /\ Len(found) = Min({most, Cardinality(literal)})
       /\ prefix \in literal => found[1] = prefix
=============================================================================
