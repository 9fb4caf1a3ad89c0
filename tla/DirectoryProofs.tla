--------------------------- MODULE DirectoryProofs ---------------------------
(***************************************************************************)
(* Theorems about Directory, for any users, texts, characters, collations  *)
(* and page sizes.                                                         *)
(***************************************************************************)
EXTENDS Directory, ListingProofs, SequenceTheorems

LEMMA NextKeeps == ScanInv /\ [Next]_vars => ScanInv'
<1> SUFFICES ASSUME ScanInv, [Next]_vars PROVE ScanInv'
  OBVIOUS
<1>1. CASE UNCHANGED listingVars
  BY <1>1 DEF listingVars, ScanInv
<1>2. ASSUME NEW i \in Ids, InsertRow(i) \/ DeleteRow(i) PROVE ScanInv'
  BY <1>2, InsertRowKeeps, DeleteRowKeeps
<1>3. ASSUME NEW size \in Sizes, NextPage(size) PROVE ScanInv'
  BY <1>3, NextPageKeeps
<1>4. CASE StartScan
  BY <1>4, StartScanKeeps
<1> QED
  BY <1>1, <1>2, <1>3, <1>4
  DEF Next, vars, SignUp, UpdateMe, DeleteUser, StartListing, ListUsers

LEMMA Kept == Spec => []ScanInv
<1>1. Init => ScanInv
  BY ListingInitKeeps, DirectoryAssumption DEF Init
<1> QED BY <1>1, NextKeeps, PTL DEF Spec

\* ListUsers returns no user twice and every user who is there throughout, while
\* others sign up and are deleted between its pages, the user at the cursor too,
\* and whatever sizes of page are asked for (listEntities).
THEOREM ListingExact == Spec => []ScanIsExact
BY Kept, ScanInvExact, PTL

-----------------------------------------------------------------------------
(* Recursive functions and induction.                                      *)

LEMMA NatSet ==
  ASSUME NEW T, 0 \in T, \A n \in Nat : n \in T => n + 1 \in T
  PROVE  Nat \subseteq T
<1> SUFFICES ASSUME Nat \ T # {} PROVE FALSE
  OBVIOUS
<1>1. Nat \ T \in SUBSET Nat
  OBVIOUS
<1>2. PICK n \in Nat \ T : \A m \in Nat \ T : n <= m
  BY <1>1, Least
<1>3. n # 0 /\ n - 1 \in Nat
  OBVIOUS
<1>4. n - 1 \in T
  BY <1>2, <1>3
<1> QED BY <1>3, <1>4

\* F is the equation of a function defined by recursion: the right side for x
\* looks only at arguments of a smaller rank.
IsRecursion(D, T, N, rank, F) ==
  /\ N \in Nat /\ rank \in [D -> 0..N]
  /\ F \in [[D -> T] -> [D -> T]] /\ \E start : start \in [D -> T]
  /\ \A g, h \in [D -> T], x \in D :
       (\A y \in D : rank[y] < rank[x] => g[y] = h[y]) => F[g][x] = F[h][x]

LEMMA Recursion ==
  ASSUME NEW D, NEW T, NEW N, NEW rank, NEW F, IsRecursion(D, T, N, rank, F)
  PROVE  \E f : f \in [D -> T] /\ f = F[f]
<1> USE DEF IsRecursion
<1> DEFINE Good(f, n) == \A x \in D : rank[x] < n => f[x] = F[f][x]
           S == {n \in Nat : \E f \in [D -> T] : Good(f, n)}
<1>1. 0 \in S
  OBVIOUS
<1>2. ASSUME NEW n \in Nat, n \in S PROVE n + 1 \in S
  <2>1. PICK f \in [D -> T] : Good(f, n)
    BY <1>2
  <2>2. F[f] \in [D -> T]
    OBVIOUS
  <2>3. ASSUME NEW x \in D, rank[x] < n + 1 PROVE F[f][x] = F[F[f]][x]
    <3>1. \A y \in D : rank[y] < rank[x] => f[y] = F[f][y]
      BY <2>1, <2>3
    <3> QED BY <2>2, <3>1
  <2> QED BY <2>2, <2>3
<1> HIDE DEF S
<1>3. N + 1 \in S
  BY <1>1, <1>2, NatSet
<1>4. PICK f \in [D -> T] : Good(f, N + 1)
  BY <1>3 DEF S
<1>5. \A x \in D : f[x] = F[f][x]
  BY <1>4
<1>6. f = F[f]
  BY <1>5
<1> QED BY <1>6

\* What a loop over N characters builds, one step after the other.
IsLoop(N, T, base, step) == N \in Nat /\ base \in T /\ step \in [1..N -> [T -> T]]
Builds(N, base, step, f) == f[0] = base /\ \A n \in 1..N : f[n] = step[n][f[n - 1]]

LEMMA Accumulation ==
  ASSUME NEW N, NEW T, NEW base, NEW step, IsLoop(N, T, base, step)
  PROVE  \E f : f \in [0..N -> T] /\ Builds(N, base, step, f)
<1> USE DEF IsLoop
<1> DEFINE D == 0..N
           rank == [n \in D |-> n]
           Body(g, n) == IF n = 0 THEN base ELSE step[n][g[n - 1]]
           F == [g \in [D -> T] |-> [n \in D |-> Body(g, n)]]
<1>1. \A n \in D : n # 0 => n - 1 \in D /\ n \in 1..N /\ rank[n - 1] < rank[n]
  OBVIOUS
<1>2. ASSUME NEW g \in [D -> T], NEW n \in D PROVE Body(g, n) \in T
  BY <1>1
<1>3. \A g, h \in [D -> T], n \in D :
        (\A m \in D : rank[m] < rank[n] => g[m] = h[m]) => F[g][n] = F[h][n]
  BY <1>1
<1>4. IsRecursion(D, T, N, rank, F)
  <2>1. rank \in [D -> 0..N] /\ F \in [[D -> T] -> [D -> T]] /\ [n \in D |-> base] \in [D -> T]
    BY <1>2
  <2> HIDE DEF F, rank, D
  <2> QED BY <1>3, <2>1 DEF IsRecursion
<1>5. \E f : f \in [D -> T] /\ f = F[f]
  <2> HIDE DEF F, rank, D
  <2> QED BY <1>4, Recursion
<1>6. \A n \in 1..N : n \in D /\ n # 0
  OBVIOUS
<1> QED BY <1>5, <1>6 DEF Builds

\* Induction up to N.
LEMMA UpTo ==
  ASSUME NEW N \in Nat, NEW S, 0 \in S, \A n \in 1..N : n - 1 \in S => n \in S
  PROVE  N \in S
<1> DEFINE R == {n \in Nat : n <= N => n \in S}
<1>1. 0 \in R
  OBVIOUS
<1>2. ASSUME NEW n \in Nat, n \in R PROVE n + 1 \in R
  <2>1. CASE n + 1 <= N
    <3>1. n + 1 \in 1..N /\ (n + 1) - 1 = n
      BY <2>1
    <3> QED BY <1>2, <2>1, <3>1
  <2> QED BY <2>1
<1> HIDE DEF R
<1>3. N \in R
  BY <1>1, <1>2, NatSet
<1> QED BY <1>3 DEF R

-----------------------------------------------------------------------------
(* The candidates for a username.                                          *)

\* The usernames that validateUsername accepts.
Usernames == {v \in Seq(Allowed) : Len(v) \in 1..MaxLength}

LEMMA UsernamesAcceptable == ASSUME NEW v \in Usernames PROVE Acceptable(v)
<1>1. v \in Seq(Allowed) /\ Len(v) \in 1..MaxLength
  BY DEF Usernames
<1>2. DOMAIN v = 1..Len(v) /\ \A n \in 1..Len(v) : v[n] \in Allowed
  BY <1>1, LenProperties, ElementOfSeq
<1> QED BY <1>1, <1>2 DEF Acceptable

\* A beginning of a text is one, and is as long as it says.
LEMMA Beginning ==
  ASSUME NEW v \in Seq(Allowed), NEW n \in 0..Len(v)
  PROVE  SubSeq(v, 1, n) \in Seq(Allowed) /\ Len(SubSeq(v, 1, n)) = n
<1>1. Len(v) \in Nat
  BY LenProperties
<1>2. CASE n = 0
  BY <1>1, <1>2, SubSeqProperties
<1>3. CASE n # 0
  BY <1>1, <1>3, SubSeqProperties, ElementOfSeq
<1> QED BY <1>2, <1>3

LEMMA TrimRightShortens ==
  ASSUME NEW v \in Seq(Allowed)
  PROVE  TrimRight(v) \in Seq(Allowed) /\ Len(TrimRight(v)) <= Len(v)
<1> DEFINE kept == {n \in DOMAIN v : v[n] # "-"}
<1>1. Len(v) \in Nat /\ DOMAIN v = 1..Len(v)
  BY LenProperties
<1>2. CASE kept = {}
  BY <1>1, <1>2, EmptySeq DEF TrimRight
<1>3. CASE kept # {}
  <2>1. kept \in SUBSET Nat /\ \A n \in kept : n <= Len(v) /\ n \in 1..Len(v)
    BY <1>1
  <2> HIDE DEF kept
  <2>2. \E x \in kept : \A y \in kept : y <= x
    BY <1>1, <1>3, <2>1, Greatest
  <2>3. Max(kept) \in kept
    BY <2>1, <2>2 DEF Max
  <2>4. TrimRight(v) = SubSeq(v, 1, Max(kept))
    BY <1>3 DEF TrimRight, kept
  <2>5. Max(kept) \in 0..Len(v) /\ Max(kept) <= Len(v)
    <3>1. \A m \in kept : m \in 0..Len(v) /\ m <= Len(v)
      BY <1>1, <2>1
    <3> QED BY <2>3, <3>1
  <2>6. SubSeq(v, 1, Max(kept)) \in Seq(Allowed) /\ Len(SubSeq(v, 1, Max(kept))) = Max(kept)
    BY <2>5, Beginning
  <2> QED BY <2>4, <2>5, <2>6
<1> QED BY <1>2, <1>3

LEMMA WithSuffixFits ==
  ASSUME NEW base \in Usernames, NEW suffix \in Usernames
  PROVE  WithSuffix(base, suffix) \in Usernames
<1> DEFINE room == MaxLength - Len(suffix)
           kept == IF Len(base) > room THEN TrimRight(Truncate(base, room)) ELSE base
<1>1. /\ base \in Seq(Allowed) /\ suffix \in Seq(Allowed) /\ MaxLength \in Nat
      /\ Len(base) \in Nat /\ Len(suffix) \in 1..MaxLength
  BY UsernamesAssumption DEF Usernames
<1>2. kept \in Seq(Allowed) /\ Len(kept) <= room /\ Len(kept) \in Nat
  <2>1. CASE Len(base) > room
    <3>1. room \in 0..Len(base) /\ Truncate(base, room) = SubSeq(base, 1, room)
      BY <1>1, <2>1 DEF Truncate
    <3>2. Truncate(base, room) \in Seq(Allowed) /\ Len(Truncate(base, room)) = room
      BY <1>1, <3>1, Beginning
    <3>3. kept = TrimRight(Truncate(base, room))
      BY <2>1
    <3> HIDE DEF room, kept
    <3> QED BY <3>2, <3>3, TrimRightShortens, LenProperties
  <2>2. CASE ~(Len(base) > room)
    BY <1>1, <2>2
  <2> QED BY <2>1, <2>2
<1>3. WithSuffix(base, suffix) = kept \o suffix
  BY DEF WithSuffix
<1>4. kept \o suffix \in Seq(Allowed) /\ Len(kept \o suffix) = Len(kept) + Len(suffix)
  BY <1>1, <1>2, ConcatProperties
<1> QED BY <1>1, <1>2, <1>3, <1>4 DEF Usernames

LEMMA SuffixUsername ==
  ASSUME NEW r \in Seq(Letters), Len(r) < MaxLength
  PROVE  <<"-">> \o r \in Usernames
<1>1. r \in Seq(Allowed) /\ <<"-">> \in Seq(Allowed) /\ Len(<<"-">>) = 1 /\ Len(r) \in Nat
  <2>1. Letters \subseteq Allowed /\ "-" \in Allowed
    BY DEF Allowed
  <2> QED BY <2>1, SeqMonotonic, LenProperties
<1>2. <<"-">> \o r \in Seq(Allowed) /\ Len(<<"-">> \o r) = 1 + Len(r)
  BY <1>1, ConcatProperties
<1> QED BY <1>1, <1>2, UsernamesAssumption DEF Usernames

LEMMA CandidatesFit ==
  ASSUME NEW base \in Usernames, NEW random \in Seq(Randoms),
         NEW n \in DOMAIN Candidates(base, random)
  PROVE  Candidates(base, random)[n] \in Usernames
<1> DEFINE suffix == IF n <= NumericMax THEN Numeral[n] ELSE random[n - NumericMax]
<1>1. Len(random) \in Nat /\ NumericMax \in Nat
  BY LenProperties, UsernamesAssumption
<1>2. n \in 1..NumericMax + Len(random)
  BY DEF Candidates
<1>3. CASE n = 1
  BY <1>2, <1>3 DEF Candidates
<1>4. CASE n # 1
  <2>1. Candidates(base, random)[n] = WithSuffix(base, <<"-">> \o suffix)
    BY <1>2, <1>4 DEF Candidates
  <2>2. suffix \in Seq(Letters) /\ Len(suffix) < MaxLength
    <3>1. CASE n <= NumericMax
      BY <1>1, <1>2, <1>4, <3>1, UsernamesAssumption
    <3>2. CASE ~(n <= NumericMax)
      <4>1. n - NumericMax \in 1..Len(random)
        BY <1>1, <1>2, <3>2
      <4>2. random[n - NumericMax] \in Randoms
        BY <4>1, ElementOfSeq
      <4> QED BY <3>2, <4>2, UsernamesAssumption
    <3> QED BY <3>1, <3>2
  <2> HIDE DEF suffix
  <2> QED BY <2>1, <2>2, SuffixUsername, WithSuffixFits
<1> QED BY <1>3, <1>4

\* Every candidate made of a username that validateUsername accepts is accepted
\* too, however long the base and whatever the suffix: what is cut off makes room
\* for the suffix (usernameWithSuffix and usernameCandidateIterator).
THEOREM CandidatesAccepted ==
  ASSUME NEW base \in Usernames, NEW random \in Seq(Randoms),
         NEW n \in DOMAIN Candidates(base, random)
  PROVE  Acceptable(Candidates(base, random)[n])
BY CandidatesFit, UsernamesAcceptable

-----------------------------------------------------------------------------
(* What is left of a text that an identity provider sends.                 *)

LEMMA LoweredAllowed ==
  ASSUME NEW c \in Allowed \cup Capitals \cup Others PROVE Lowered(c) \in Allowed
BY UsernamesAssumption DEF Lowered, Allowed

\* The loop of normalizeUsernameCandidate.
LEMMA SqueezeAllowed ==
  ASSUME NEW u \in Seq(Allowed), NEW c \in Allowed \cup Capitals \cup Others
  PROVE  Squeeze(u, c) \in Seq(Allowed)
BY LoweredAllowed, AppendProperties DEF Squeeze

LEMMA SqueezingSteps ==
  ASSUME NEW v \in Texts
  PROVE  /\ Squeezing(v)[0] = <<>>
         /\ \A n \in 1..Len(v) : Squeezing(v)[n] = Squeeze(Squeezing(v)[n - 1], v[n])
<1> DEFINE N == Len(v)
           T == Seq(Allowed)
           step == [n \in 1..N |-> [u \in T |-> Squeeze(u, v[n])]]
           Body(g, n) == IF n = 0 THEN <<>> ELSE Squeeze(g[n - 1], v[n])
<1>1. N \in Nat /\ \A n \in 1..N : v[n] \in Allowed \cup Capitals \cup Others
  BY LenProperties, ElementOfSeq DEF Texts
<1>2. <<>> \in T /\ step \in [1..N -> [T -> T]]
  BY <1>1, SqueezeAllowed, EmptySeq
<1>3. PICK f : f \in [0..N -> T] /\ Builds(N, <<>>, step, f)
  <2>1. IsLoop(N, T, <<>>, step)
    BY <1>1, <1>2 DEF IsLoop
  <2> HIDE DEF N, T, step
  <2> QED BY <2>1, Accumulation
<1>4. \A n \in 0..N : n # 0 => n \in 1..N /\ n - 1 \in 0..N
  BY <1>1
<1>5. f = [n \in 0..N |-> Body(f, n)]
  <2>1. ASSUME NEW n \in 0..N PROVE f[n] = Body(f, n)
    <3>1. CASE n = 0
      BY <1>3, <3>1 DEF Builds
    <3>2. CASE n # 0
      <4>1. n \in 1..N /\ f[n - 1] \in T
        BY <1>3, <1>4, <3>2
      <4> QED BY <1>3, <3>2, <4>1 DEF Builds
    <3> QED BY <3>1, <3>2
  <2> HIDE DEF Body
  <2> QED BY <1>3, <2>1
<1>6. Squeezing(v) = CHOOSE g : g = [n \in 0..N |-> Body(g, n)]
  BY DEF Squeezing
<1>7. Squeezing(v) = [n \in 0..N |-> Body(Squeezing(v), n)]
  <2> HIDE DEF N, Body
  <2> QED BY <1>5, <1>6
<1>8. 0 \in 0..N /\ \A n \in 1..N : n \in 0..N /\ n # 0
  BY <1>1
<1> QED BY <1>7, <1>8

LEMMA SqueezedAllowed ==
  ASSUME NEW v \in Texts
  PROVE  Squeezed(v) \in Seq(Allowed)
<1> DEFINE S == {n \in Nat : Squeezing(v)[n] \in Seq(Allowed)}
<1>1. Len(v) \in Nat /\ \A n \in 1..Len(v) : v[n] \in Allowed \cup Capitals \cup Others
  BY LenProperties, ElementOfSeq DEF Texts
<1>2. 0 \in S
  BY SqueezingSteps, EmptySeq
<1>3. ASSUME NEW n \in 1..Len(v), n - 1 \in S PROVE n \in S
  <2>1. Squeeze(Squeezing(v)[n - 1], v[n]) \in Seq(Allowed)
    BY <1>1, <1>3, SqueezeAllowed
  <2> QED BY <1>1, <2>1, SqueezingSteps
<1> HIDE DEF S
<1>4. Len(v) \in S
  BY <1>1, <1>2, <1>3, UpTo
<1> QED BY <1>4 DEF S, Squeezed

LEMMA ReverseTexts ==
  ASSUME NEW S, NEW v \in Seq(S)
  PROVE  Reverse(v) \in Seq(S)
<1>1. Len(v) \in Nat
  BY LenProperties
<1>2. \A n \in 1..Len(v) : Len(v) - n + 1 \in 1..Len(v)
  BY <1>1
<1>3. \A n \in 1..Len(v) : v[Len(v) - n + 1] \in S
  BY <1>2, ElementOfSeq
<1>4. Reverse(v) \in [1..Len(v) -> S]
  BY <1>3 DEF Reverse
<1> QED BY <1>1, <1>4, SeqDef

LEMMA NormalizedFits ==
  ASSUME NEW v \in Texts, Normalized(v) # <<>>
  PROVE  Normalized(v) \in Usernames
<1> DEFINE u == TrimLeft(TrimRight(Squeezed(v)))
<1>1. u \in Seq(Allowed)
  BY SqueezedAllowed, TrimRightShortens, ReverseTexts DEF TrimLeft
<1>2. Len(u) \in Nat /\ MaxLength \in Nat
  BY <1>1, LenProperties, UsernamesAssumption
<1> HIDE DEF u
<1>3. Truncate(u, MaxLength) \in Seq(Allowed) /\ Len(Truncate(u, MaxLength)) <= MaxLength
  <2>1. CASE Len(u) > MaxLength
    <3>1. Truncate(u, MaxLength) = SubSeq(u, 1, MaxLength) /\ MaxLength \in 0..Len(u)
      BY <1>2, <2>1 DEF Truncate
    <3> QED BY <1>1, <1>2, <3>1, Beginning
  <2>2. CASE ~(Len(u) > MaxLength)
    <3>1. Truncate(u, MaxLength) = SubSeq(u, 1, Len(u)) /\ Len(u) \in 0..Len(u)
      BY <1>2, <2>2 DEF Truncate
    <3> QED BY <1>1, <1>2, <2>2, <3>1, Beginning
  <2> QED BY <2>1, <2>2
<1>4. Normalized(v) = Truncate(u, MaxLength)
  BY DEF Normalized, u
<1> HIDE DEF Truncate
<1>5. Len(Truncate(u, MaxLength)) \in Nat \ {0}
  BY <1>3, <1>4, EmptySeq
<1> QED BY <1>2, <1>3, <1>4, <1>5 DEF Usernames

\* SelectInSeq finds its place with Min.
LEMMA MinIn ==
  ASSUME NEW I \in SUBSET Nat, I # {}
  PROVE  Min(I) \in I
<1>1. PICK x \in I : \A y \in I : x <= y
  BY Least
<1> QED BY <1>1 DEF Min

LEMMA LocalPartText ==
  ASSUME NEW v \in Texts
  PROVE  EmailLocalPart(v) \in Texts
<1> DEFINE I == {n \in 1..Len(v) : v[n] = "@"}
           at == IF I # {} THEN Min(I) ELSE 0
<1>1. EmailLocalPart(v) = IF at = 0 THEN v ELSE SubSeq(v, 1, at - 1)
  BY DEF EmailLocalPart, SelectInSeq
<1>2. Len(v) \in Nat
  BY LenProperties DEF Texts
<1>3. ASSUME I # {} PROVE Min(I) \in 1..Len(v)
  <2>1. I \in SUBSET Nat
    OBVIOUS
  <2>2. Min(I) \in I
    BY <1>3, <2>1, MinIn
  <2> QED BY <2>2
<1>4. CASE I = {}
  BY <1>1, <1>4
<1>5. CASE I # {}
  <2>1. at \in 1..Len(v) /\ at - 1 \in Nat /\ at - 1 <= Len(v) 
    BY <1>2, <1>3, <1>5
  <2> HIDE DEF at
  <2>2. at # 0 /\ \A i \in 1..at - 1 : i \in 1..Len(v)
    BY <1>2, <2>1
  <2>3. SubSeq(v, 1, at - 1) \in Texts
    BY <1>2, <2>1, <2>2, SubSeqProperties, ElementOfSeq DEF Texts
  <2> QED BY <1>1, <2>2, <2>3
<1> QED BY <1>4, <1>5

LEMMA BaseFits ==
  ASSUME NEW preferred \in Texts, NEW email \in Texts, NEW name \in Texts,
         NEW fallback \in Fallbacks
  PROVE  DeriveBase(preferred, email, name, fallback) \in Usernames
<1> DEFINE given == <<preferred, EmailLocalPart(email), name>>
           I == {n \in 1..Len(given) : Normalized(given[n]) # <<>>}
           first == IF I # {} THEN Min(I) ELSE 0
<1>1. DeriveBase(preferred, email, name, fallback)
        = IF first = 0 THEN fallback ELSE Normalized(given[first])
  BY DEF DeriveBase, SelectInSeq
<1>2. \A n \in 1..3 : given[n] \in Texts
  BY LocalPartText
<1>3. fallback \in Usernames
  BY UsernamesAssumption DEF Usernames
<1>4. ASSUME I # {} PROVE Min(I) \in I
  <2>1. I \in SUBSET Nat
    OBVIOUS
  <2> QED BY <1>4, <2>1, MinIn
<1>5. CASE I = {}
  BY <1>1, <1>3, <1>5
<1>6. CASE I # {}
  <2>1. first \in I /\ first \in 1..3
    BY <1>4, <1>6
  <2>2. Normalized(given[first]) # <<>> /\ first # 0 /\ given[first] \in Texts
    BY <1>2, <2>1
  <2> HIDE DEF first, given
  <2> QED BY <1>1, <2>2, NormalizedFits
<1> QED BY <1>5, <1>6

-----------------------------------------------------------------------------
(* The numbers of candidates.                                              *)

LEMMA ConcatIndex ==
  ASSUME NEW S, NEW s \in Seq(S), NEW t \in Seq(S)
  PROVE  /\ s \o t \in Seq(S) /\ Len(s \o t) = Len(s) + Len(t)
         /\ \A n \in 1..Len(s) : (s \o t)[n] = s[n]
         /\ \A n \in 1..Len(t) : (s \o t)[Len(s) + n] = t[n]
<1>1. Len(s) \in Nat /\ Len(t) \in Nat
  BY LenProperties
<1>2. \A n \in 1..Len(s) : n \in 1..Len(s) + Len(t) /\ n <= Len(s)
  BY <1>1
<1>3. \A n \in 1..Len(t) : /\ Len(s) + n \in 1..Len(s) + Len(t) /\ ~(Len(s) + n <= Len(s))
                          /\ Len(s) + n - Len(s) = n
  BY <1>1
<1> QED BY <1>2, <1>3, ConcatProperties

\* Where the last dash is.
LEMMA LastDash ==
  ASSUME NEW u \in Seq(Allowed), NEW v \in Seq(Allowed),
         NEW x \in Seq(Letters), NEW y \in Seq(Letters),
         u \o (<<"-">> \o x) = v \o (<<"-">> \o y)
  PROVE  Len(v) <= Len(u)
<1> DEFINE t == u \o (<<"-">> \o x)
           p == Len(v) + 1
<1>1. /\ Len(u) \in Nat /\ Len(v) \in Nat /\ Len(x) \in Nat /\ Len(y) \in Nat
      /\ <<"-">> \in Seq(Allowed) /\ Len(<<"-">>) = 1 /\ x \in Seq(Allowed) /\ y \in Seq(Allowed)
  <2>1. Letters \subseteq Allowed /\ "-" \in Allowed
    BY DEF Allowed
  <2> QED BY <2>1, SeqMonotonic, LenProperties
<1> DEFINE X == <<"-">> \o x
           Y == <<"-">> \o y
<1>2. X \in Seq(Allowed) /\ Len(X) = 1 + Len(x) /\ \A n \in 1..Len(x) : X[1 + n] = x[n]
  BY <1>1, ConcatIndex
<1>3. Y \in Seq(Allowed) /\ Len(Y) = 1 + Len(y) /\ Y[1] = "-"
  BY <1>1, ConcatIndex
<1> HIDE DEF X, Y
<1>4. u \o X = v \o Y
  BY DEF X, Y
<1>5. /\ Len(u \o X) = Len(u) + Len(X) /\ Len(v \o Y) = Len(v) + Len(Y)
      /\ \A n \in 1..Len(X) : (u \o X)[Len(u) + n] = X[n]
      /\ \A n \in 1..Len(Y) : (v \o Y)[Len(v) + n] = Y[n]
  <2>1. Len(u \o X) = Len(u) + Len(X) /\ \A n \in 1..Len(X) : (u \o X)[Len(u) + n] = X[n]
    BY <1>2, ConcatIndex
  <2>2. Y \in Seq(Allowed)
    BY <1>3
  <2>3. Len(v \o Y) = Len(v) + Len(Y) /\ \A n \in 1..Len(Y) : (v \o Y)[Len(v) + n] = Y[n]
    BY <2>2, ConcatIndex
  <2> QED BY <2>1, <2>3
<1> SUFFICES ASSUME Len(u) < Len(v) PROVE FALSE
  BY <1>1
<1>6. (v \o Y)[p] = "-"
  BY <1>1, <1>3, <1>5
<1> DEFINE m == Len(v) - Len(u)
<1>7. m \in 1..Len(x) /\ 1 + m \in 1..Len(X) /\ Len(u) + (1 + m) = p
  BY <1>1, <1>2, <1>3, <1>4, <1>5
<1>8. (u \o X)[p] = x[m]
  <2> HIDE DEF m, p
  <2>1. (u \o X)[Len(u) + (1 + m)] = X[1 + m]
    BY <1>5, <1>7
  <2> QED BY <1>2, <1>7, <2>1
<1>9. x[m] \in Letters
  BY <1>7, ElementOfSeq
<1> QED BY <1>4, <1>6, <1>8, <1>9, UsernamesAssumption

LEMMA AfterLastDash ==
  ASSUME NEW u \in Seq(Allowed), NEW v \in Seq(Allowed),
         NEW x \in Seq(Letters), NEW y \in Seq(Letters),
         u \o (<<"-">> \o x) = v \o (<<"-">> \o y)
  PROVE  x = y
<1>1. Len(u) = Len(v) /\ Len(u) \in Nat /\ Len(x) \in Nat /\ Len(y) \in Nat
  <2>1. Len(v) <= Len(u)
    BY LastDash
  <2>2. Len(u) <= Len(v)
    BY LastDash
  <2> QED BY <2>1, <2>2, LenProperties
<1>2. /\ <<"-">> \in Seq(Allowed) /\ Len(<<"-">>) = 1 /\ x \in Seq(Allowed) /\ y \in Seq(Allowed)
  <2>1. Letters \subseteq Allowed /\ "-" \in Allowed
    BY DEF Allowed
  <2> QED BY <2>1, SeqMonotonic, LenProperties
<1> DEFINE X == <<"-">> \o x
           Y == <<"-">> \o y
<1>3. X \in Seq(Allowed) /\ Len(X) = 1 + Len(x) /\ \A n \in 1..Len(x) : X[1 + n] = x[n]
  BY <1>2, ConcatIndex
<1>4. Y \in Seq(Allowed) /\ Len(Y) = 1 + Len(y) /\ \A n \in 1..Len(y) : Y[1 + n] = y[n]
  BY <1>2, ConcatIndex
<1> HIDE DEF X, Y
<1>5. u \o X = v \o Y
  BY DEF X, Y
<1>6. /\ Len(u \o X) = Len(u) + Len(X) /\ Len(v \o Y) = Len(v) + Len(Y)
      /\ \A n \in 1..Len(X) : (u \o X)[Len(u) + n] = X[n]
      /\ \A n \in 1..Len(Y) : (v \o Y)[Len(v) + n] = Y[n]
  <2>1. Len(u \o X) = Len(u) + Len(X) /\ \A n \in 1..Len(X) : (u \o X)[Len(u) + n] = X[n]
    BY <1>3, ConcatIndex
  <2>2. Len(v \o Y) = Len(v) + Len(Y) /\ \A n \in 1..Len(Y) : (v \o Y)[Len(v) + n] = Y[n]
    BY <1>4, ConcatIndex
  <2> QED BY <2>1, <2>2
<1>7. Len(x) = Len(y)
  BY <1>1, <1>3, <1>4, <1>5, <1>6
<1>8. ASSUME NEW n \in 1..Len(x) PROVE x[n] = y[n]
  <2>1. 1 + n \in 1..Len(X) /\ 1 + n \in 1..Len(Y) /\ n \in 1..Len(y)
    BY <1>1, <1>3, <1>4, <1>7
  <2>2. X[1 + n] = Y[1 + n]
    BY <1>1, <1>5, <1>6, <2>1
  <2> QED BY <1>3, <1>4, <2>1, <2>2
<1> QED BY <1>7, <1>8, SeqEqual

\* The numbers tell numbered candidates apart.
LEMMA NumbersDiffer ==
  ASSUME NEW base \in Usernames, NEW random \in Seq(Randoms),
         NEW m \in 2..NumericMax, NEW n \in 2..NumericMax,
         Candidates(base, random)[m] = Candidates(base, random)[n]
  PROVE  m = n
<1>1. NumericMax \in Nat /\ Len(random) \in Nat /\ base \in Seq(Allowed)
  BY UsernamesAssumption, LenProperties DEF Usernames
<1>2. ASSUME NEW k \in 2..NumericMax
      PROVE  \E u \in Seq(Allowed) : Candidates(base, random)[k] = u \o (<<"-">> \o Numeral[k])
  <2> DEFINE s == <<"-">> \o Numeral[k]
             room == MaxLength - Len(s)
             u == IF Len(base) > room THEN TrimRight(Truncate(base, room)) ELSE base
  <2>1. k \in 1..NumericMax + Len(random) /\ k # 1 /\ k <= NumericMax
    BY <1>1
  <2>2. Candidates(base, random)[k] = WithSuffix(base, s)
    BY <2>1 DEF Candidates
  <2>3. s \in Usernames
    BY SuffixUsername, UsernamesAssumption
  <2> HIDE DEF s
  <2>4. u \in Seq(Allowed)
    <3>1. room \in Nat
      BY <2>3, UsernamesAssumption DEF Usernames
    <3>2. Len(base) > room => Truncate(base, room) \in Seq(Allowed)
      <4>1. Len(base) \in Nat
        BY <1>1, LenProperties
      <4>2. Len(base) > room => room \in 0..Len(base)
        BY <3>1, <4>1
      <4> QED BY <1>1, <4>2, Beginning DEF Truncate
    <3> QED BY <1>1, <3>2, TrimRightShortens
  <2> QED BY <2>2, <2>4 DEF WithSuffix, s
<1>3. PICK u \in Seq(Allowed) : Candidates(base, random)[m] = u \o (<<"-">> \o Numeral[m])
  BY <1>2
<1>4. PICK v \in Seq(Allowed) : Candidates(base, random)[n] = v \o (<<"-">> \o Numeral[n])
  BY <1>2
<1>5. Numeral[m] = Numeral[n]
  BY <1>3, <1>4, AfterLastDash, UsernamesAssumption
<1> QED BY <1>5, UsernamesAssumption

-----------------------------------------------------------------------------
(***************************************************************************)
(* Every username in the table is one that validateUsername accepts, and   *)
(* no two rows have the same.                                              *)
(***************************************************************************)
DirectoryInv ==
  /\ ScanInv
  /\ IsFiniteSet(live)
  /\ username \in [Ids -> Usernames \cup {None}]
  /\ \A i, j \in live : username[i] = username[j] /\ username[i] # None => i = j

LEMMA UsernamesAreTexts == Usernames \subseteq Texts
<1> SUFFICES ASSUME NEW v \in Usernames PROVE v \in Texts
  OBVIOUS
<1>1. v \in Seq(Allowed) /\ Allowed \subseteq Allowed \cup Capitals \cup Others
  BY DEF Usernames
<1> QED BY <1>1, SeqMonotonic DEF Texts

LEMMA OfferedFits ==
  ASSUME NEW candidates \in Offered
  PROVE  /\ \A n \in DOMAIN candidates : candidates[n] \in Usernames
         /\ DOMAIN candidates \subseteq Nat
<1>1. <<>> \in Texts /\ \A v \in Inputs : v \in Texts
  BY EmptySeq, DirectoryAssumption DEF Texts
<1>2. PICK preferred \in Texts, email \in Texts, name \in Texts, fallback \in Fallbacks,
           random \in Randoms :
        candidates = Candidates(DeriveBase(preferred, email, name, fallback), <<random>>)
  <2>1. PICK given \in Given, fallback \in Fallbacks, random \in Randoms :
          candidates = Candidates(DeriveBase(given[1], given[2], given[3], fallback), <<random>>)
    BY DEF Offered
  <2>2. given[1] \in Texts /\ given[2] \in Texts /\ given[3] \in Texts
    <3>1. CASE \E v \in Inputs : given = <<v, <<>>, <<>>>>
      BY <1>1, <3>1
    <3>2. CASE \E v, w \in Inputs \cup {<<>>} : given = <<<<>>, v, w>>
      BY <1>1, <3>2
    <3> QED BY <3>1, <3>2 DEF Given
  <2> QED BY <2>1, <2>2
<1>3. DeriveBase(preferred, email, name, fallback) \in Usernames
  BY BaseFits
<1>4. <<random>> \in Seq(Randoms)
  OBVIOUS
<1>5. DOMAIN candidates \subseteq Nat
  BY <1>2, <1>4, LenProperties, UsernamesAssumption DEF Candidates
<1> QED BY <1>2, <1>3, <1>4, <1>5, CandidatesFit

LEMMA AllocatedFits ==
  ASSUME NEW candidates \in Offered, NEW v \in Allocated(candidates)
  PROVE  v \in Usernames /\ v \notin Taken
BY OfferedFits DEF Allocated

LEMMA UsernameGiven ==
  ASSUME DirectoryInv, NEW i \in Ids, NEW v \in Usernames,
         username' = [username EXCEPT ![i] = v],
         live' \subseteq live \cup {i}, \A j \in live \ {i} : username[j] # v \/ v = None
  PROVE  /\ username' \in [Ids -> Usernames \cup {None}]
         /\ \A k, j \in live' : username'[k] = username'[j] /\ username'[k] # None => k = j
<1>1. username' \in [Ids -> Usernames \cup {None}]
  BY DEF DirectoryInv
<1>2. username'[i] = v /\ \A j \in Ids \ {i} : username'[j] = username[j]
  BY DEF DirectoryInv
<1>3. live' \subseteq Ids
  BY DEF DirectoryInv, ScanInv
<1> QED BY <1>1, <1>2, <1>3 DEF DirectoryInv

LEMMA DirectoryKeeps == DirectoryInv /\ [Next]_vars => DirectoryInv'
<1> SUFFICES ASSUME DirectoryInv, [Next]_vars PROVE DirectoryInv'
  OBVIOUS
<1>1. ScanInv'
  BY NextKeeps DEF DirectoryInv
<1>2. CASE UNCHANGED <<live, username>>
  BY <1>1, <1>2 DEF DirectoryInv
<1>3. ASSUME NEW i \in Ids, NEW candidates \in Offered, SignUp(i, candidates) PROVE DirectoryInv'
  <2>1. PICK v \in Allocated(candidates) : username' = [username EXCEPT ![i] = v]
    BY <1>3 DEF SignUp
  <2>2. live' = live \cup {i} /\ IsFiniteSet(live')
    BY <1>3, FS_AddElement DEF SignUp, InsertRow, DirectoryInv
  <2>3. v \in Usernames /\ \A j \in live \ {i} : username[j] # v \/ v = None
    BY AllocatedFits DEF Taken
  <2> QED BY <1>1, <2>1, <2>2, <2>3, UsernameGiven DEF DirectoryInv
<1>4. ASSUME NEW i \in Ids, NEW v \in Inputs, UpdateMe(i, v) PROVE DirectoryInv'
  <2>1. v \in Usernames
    <3>1. v \in Texts /\ Len(v) \in 1..MaxLength /\ \A n \in DOMAIN v : v[n] \in Allowed
      BY <1>4, DirectoryAssumption DEF UpdateMe, Acceptable
    <3>2. v \in [1..Len(v) -> Allowed] /\ Len(v) \in Nat
      BY <3>1, LenProperties DEF Texts
    <3> QED BY <3>1, <3>2, SeqDef DEF Usernames
  <2>2. live' = live /\ username' = [username EXCEPT ![i] = v]
    BY <1>4 DEF UpdateMe, listingVars
  <2>3. \A j \in live \ {i} : username[j] # v
    BY <1>4 DEF UpdateMe
  <2> QED BY <1>1, <2>1, <2>2, <2>3, UsernameGiven DEF DirectoryInv
<1>5. ASSUME NEW i \in Ids, DeleteUser(i) PROVE DirectoryInv'
  <2>1. live' = live \ {i} /\ username' = [username EXCEPT ![i] = None]
    BY <1>5 DEF DeleteUser, DeleteRow
  <2>2. IsFiniteSet(live') /\ live \subseteq Ids
    BY <2>1, FS_RemoveElement DEF DirectoryInv, ScanInv
  <2> QED BY <1>1, <2>1, <2>2 DEF DirectoryInv
<1> QED
  BY <1>2, <1>3, <1>4, <1>5
  DEF Next, vars, listingVars, StartListing, StartScan, ListUsers, NextPage

LEMMA DirectoryKept == Spec => []DirectoryInv
<1>1. Init => DirectoryInv
  <2> SUFFICES ASSUME Init PROVE DirectoryInv
    OBVIOUS
  <2>1. ScanInv
    BY ListingInitKeeps, DirectoryAssumption DEF Init
  <2> QED BY <2>1, DirectoryAssumption DEF Init, ListingInit, DirectoryInv
<1> QED BY <1>1, DirectoryKeeps, PTL DEF Spec

\* The variables keep their types, and no two users have one username, whatever
\* texts identity providers and clients send (ResolveOrCreateUser, CreateUser,
\* UpdateMe).
THEOREM TypeCorrect == Spec => []TypeOK
<1>1. DirectoryInv => TypeOK
  BY UsernamesAreTexts DEF DirectoryInv, ScanInv, TypeOK
<1> QED BY <1>1, DirectoryKept, PTL

\* Of any text that leaves anything when it is normalized, and for any length limit,
\* numbers and random suffixes: every candidate is a username its owner could
\* give to UpdateMe, and numbered ones differ, although they are shortened; so is
\* every username in the table (normalizeUsernameCandidate, usernameWithSuffix).
THEOREM CandidatesUseful == Spec => []CandidatesUsable
<1>1. ProbesUsable
  <2> SUFFICES ASSUME NEW v \in Probes, Normalized(v) # <<>>, NEW random \in Randoms
               PROVE  LET candidates == Candidates(Normalized(v), <<random>>) IN
                      /\ \A n \in DOMAIN candidates : Acceptable(candidates[n])
                      /\ \A m, n \in 2..NumericMax : candidates[m] = candidates[n] => m = n
    BY DEF ProbesUsable
  <2>1. Normalized(v) \in Usernames
    BY NormalizedFits, DirectoryAssumption
  <2>2. <<random>> \in Seq(Randoms)
    OBVIOUS
  <2> QED BY <2>1, <2>2, CandidatesAccepted, NumbersDiffer
<1>2. DirectoryInv => \A v \in Taken : Acceptable(v)
  <2> SUFFICES ASSUME DirectoryInv, NEW v \in Taken PROVE v \in Usernames
    BY UsernamesAcceptable
  <2> QED BY DEF DirectoryInv, ScanInv, Taken
<1> QED BY <1>1, <1>2, DirectoryKept, PTL DEF CandidatesUsable

-----------------------------------------------------------------------------
(* What a pattern matches.                                                 *)

Characters == Allowed \cup Capitals \cup Others \cup {"%", "\\"}

LEMMA QuotedText ==
  ASSUME NEW c \in Characters
  PROVE  Quoted(c) \in Seq(Characters)
<1>1. <<"\\">> \in Seq(Characters) /\ <<c>> \in Seq(Characters)
  BY DEF Characters
<1>2. <<"\\", c>> = <<"\\">> \o <<c>>
  OBVIOUS
<1> QED BY <1>1, <1>2, ConcatProperties DEF Quoted

LEMMA EscapingSteps ==
  ASSUME NEW v \in Texts
  PROVE  /\ Escaping(v)[0] = <<>>
         /\ \A n \in 1..Len(v) : Escaping(v)[n] = Escaping(v)[n - 1] \o Quoted(v[n])
<1> DEFINE N == Len(v)
           T == Seq(Characters)
           step == [n \in 1..N |-> [u \in T |-> u \o Quoted(v[n])]]
           Body(g, n) == IF n = 0 THEN <<>> ELSE g[n - 1] \o Quoted(v[n])
<1>1. N \in Nat /\ \A n \in 1..N : v[n] \in Characters
  BY LenProperties, ElementOfSeq DEF Texts, Characters
<1>2. <<>> \in T /\ step \in [1..N -> [T -> T]]
  <2>1. ASSUME NEW n \in 1..N, NEW u \in T PROVE u \o Quoted(v[n]) \in T
    BY <1>1, QuotedText, ConcatProperties
  <2> QED BY <2>1, EmptySeq
<1>3. PICK f : f \in [0..N -> T] /\ Builds(N, <<>>, step, f)
  <2>1. IsLoop(N, T, <<>>, step)
    BY <1>1, <1>2 DEF IsLoop
  <2> HIDE DEF N, T, step
  <2> QED BY <2>1, Accumulation
<1>4. \A n \in 0..N : n # 0 => n \in 1..N /\ n - 1 \in 0..N
  BY <1>1
<1>5. f = [n \in 0..N |-> Body(f, n)]
  <2>1. ASSUME NEW n \in 0..N PROVE f[n] = Body(f, n)
    <3>1. CASE n = 0
      BY <1>3, <3>1 DEF Builds
    <3>2. CASE n # 0
      <4>1. n \in 1..N /\ f[n - 1] \in T
        BY <1>3, <1>4, <3>2
      <4> QED BY <1>3, <3>2, <4>1 DEF Builds
    <3> QED BY <3>1, <3>2
  <2> HIDE DEF Body
  <2> QED BY <1>3, <2>1
<1>6. Escaping(v) = CHOOSE g : g = [n \in 0..N |-> Body(g, n)]
  BY DEF Escaping
<1>7. Escaping(v) = [n \in 0..N |-> Body(Escaping(v), n)]
  <2> HIDE DEF N, Body
  <2> QED BY <1>5, <1>6
<1>8. 0 \in 0..N /\ \A n \in 1..N : n \in 0..N /\ n # 0
  BY <1>1
<1> QED BY <1>7, <1>8

LEMMA EscapingTexts ==
  ASSUME NEW v \in Texts, NEW m \in 0..Len(v)
  PROVE  Escaping(v)[m] \in Seq(Characters)
<1> DEFINE S == {n \in Nat : n <= Len(v) => Escaping(v)[n] \in Seq(Characters)}
<1>1. Len(v) \in Nat /\ \A n \in 1..Len(v) : v[n] \in Characters
  BY LenProperties, ElementOfSeq DEF Texts, Characters
<1>2. 0 \in S
  BY EscapingSteps, EmptySeq
<1>3. ASSUME NEW n \in 1..m, n - 1 \in S PROVE n \in S
  <2>1. n \in 1..Len(v) /\ n - 1 <= Len(v) /\ n \in Nat
    BY <1>1
  <2>2. Escaping(v)[n - 1] \o Quoted(v[n]) \in Seq(Characters)
    BY <1>1, <1>3, <2>1, QuotedText, ConcatProperties
  <2> QED BY <2>1, <2>2, EscapingSteps
<1>4. m \in Nat /\ m <= Len(v)
  BY <1>1
<1> HIDE DEF S
<1>5. m \in S
  BY <1>2, <1>3, <1>4, UpTo
<1> QED BY <1>4, <1>5 DEF S

\* The recursion of Starts.
Started(v, pattern, g, n) ==
  LET here == pattern[Len(pattern) - n + 1] IN
  IF n = 0 THEN {Len(v) + 1}
  ELSE IF here = "%" THEN {i \in 1..Len(v) + 1 : \E j \in g[n - 1] : i <= j}
  ELSE IF here = "\\"
       THEN {i \in 1..Len(v) :
               n > 1 /\ v[i] = pattern[Len(pattern) - n + 2] /\ i + 1 \in g[n - 2]}
  ELSE {i \in 1..Len(v) : here \in {"_", v[i]} /\ i + 1 \in g[n - 1]}

LEMMA StartsStep ==
  ASSUME NEW v, NEW pattern, Len(v) \in Nat, Len(pattern) \in Nat, NEW n \in 0..Len(pattern)
  PROVE  Starts(v, pattern)[n] = Started(v, pattern, Starts(v, pattern), n)
<1> DEFINE D == 0..Len(pattern)
           T == SUBSET (1..Len(v) + 1)
           rank == [m \in D |-> m]
           Body(g, m) == Started(v, pattern, g, m)
           F == [g \in [D -> T] |-> [m \in D |-> Body(g, m)]]
<1>1. ASSUME NEW g, NEW m PROVE Body(g, m) \in T
  <2> DEFINE here == pattern[Len(pattern) - m + 1]
  <2>1. {Len(v) + 1} \in T
    OBVIOUS
  <2>2. {i \in 1..Len(v) + 1 : \E j \in g[m - 1] : i <= j} \in T
    OBVIOUS
  <2>3. {i \in 1..Len(v) : m > 1 /\ v[i] = pattern[Len(pattern) - m + 2] /\ i + 1 \in g[m - 2]} \in T
    OBVIOUS
  <2>4. {i \in 1..Len(v) : here \in {"_", v[i]} /\ i + 1 \in g[m - 1]} \in T
    <3> HIDE DEF here
    <3>1. 1..Len(v) \subseteq 1..Len(v) + 1
      OBVIOUS
    <3> QED BY <3>1
  <2> HIDE DEF T
  <2> QED BY <2>1, <2>2, <2>3, <2>4 DEF Started
<1>2. ASSUME NEW g \in [D -> T], NEW h \in [D -> T], NEW m \in D,
             \A k \in D : rank[k] < rank[m] => g[k] = h[k]
      PROVE  Body(g, m) = Body(h, m)
  <2>1. \A k \in D : k < m => g[k] = h[k]
    BY <1>2
  <2>2. m # 0 => m - 1 \in D /\ m - 1 < m
    OBVIOUS
  <2>3. m > 1 => m - 2 \in D /\ m - 2 < m
    OBVIOUS
  <2>4. m # 0 => g[m - 1] = h[m - 1]
    BY <2>1, <2>2
  <2>5. m > 1 => g[m - 2] = h[m - 2]
    BY <2>1, <2>3
  <2> QED BY <2>4, <2>5 DEF Started
<1>3. \A g, h \in [D -> T], m \in D :
        (\A k \in D : rank[k] < rank[m] => g[k] = h[k]) => F[g][m] = F[h][m]
  BY <1>2
<1>4. IsRecursion(D, T, Len(pattern), rank, F)
  <2>1. rank \in [D -> 0..Len(pattern)] /\ F \in [[D -> T] -> [D -> T]] /\ [m \in D |-> {}] \in [D -> T]
    BY <1>1
  <2> HIDE DEF F, rank, D, T
  <2> QED BY <1>3, <2>1 DEF IsRecursion
<1>5. \E f : f = [m \in D |-> Body(f, m)]
  <2>1. \E f : f \in [D -> T] /\ f = F[f]
    <3> HIDE DEF F, rank, D, T
    <3> QED BY <1>4, Recursion
  <2> QED BY <2>1
<1>6. Starts(v, pattern) = CHOOSE f : f = [m \in D |-> Body(f, m)]
  BY DEF Starts, Started
<1>7. Starts(v, pattern) = [m \in D |-> Body(Starts(v, pattern), m)]
  <2> HIDE DEF D, Body
  <2> QED BY <1>5, <1>6
<1> QED BY <1>7

\* What the pattern is, character by character.
LEMMA PatternParts ==
  ASSUME NEW p \in Texts, NEW pattern, pattern = Escaped(p) \o <<"%">>
  PROVE  /\ Len(p) \in Nat /\ Len(pattern) = Len(Escaping(p)[Len(p)]) + 1
         /\ pattern[Len(pattern)] = "%"
         /\ \A n \in 0..Len(p) :
              /\ Escaping(p)[n] \in Seq(Characters)
              /\ Len(Escaping(p)[n]) \in 0..Len(pattern) - 1
              /\ \A k \in 1..Len(Escaping(p)[n]) : pattern[k] = Escaping(p)[n][k]
<1> DEFINE N == Len(p)
           e == Escaping(p)
           S == {m \in Nat : m <= N =>
                   /\ Len(e[N - m]) \in 0..Len(pattern) - 1
                   /\ \A k \in 1..Len(e[N - m]) : pattern[k] = e[N - m][k]}
<1>1. N \in Nat /\ \A n \in 1..N : p[n] \in Characters
  BY LenProperties, ElementOfSeq DEF Texts, Characters
<1>2. \A n \in 0..N : e[n] \in Seq(Characters)
  BY EscapingTexts
<1>3. e[N] \in Seq(Characters) /\ <<"%">> \in Seq(Characters) /\ Len(<<"%">>) = 1
  BY <1>1, <1>2 DEF Characters
<1> HIDE DEF e, N
<1>4. pattern = e[N] \o <<"%">>
  BY DEF Escaped, e, N
<1>5. /\ Len(pattern) = Len(e[N]) + 1 /\ Len(e[N]) \in Nat
      /\ \A k \in 1..Len(e[N]) : pattern[k] = e[N][k]
      /\ pattern[Len(e[N]) + 1] = "%"
  <2>1. /\ Len(pattern) = Len(e[N]) + Len(<<"%">>)
        /\ \A k \in 1..Len(e[N]) : pattern[k] = e[N][k]
        /\ \A k \in 1..Len(<<"%">>) : pattern[Len(e[N]) + k] = <<"%">>[k]
    BY <1>3, <1>4, ConcatIndex
  <2>2. Len(e[N]) \in Nat
    BY <1>3, LenProperties
  <2> QED BY <1>3, <2>1, <2>2
<1>6. 0 \in S
  BY <1>1, <1>5
<1>7. ASSUME NEW m \in 1..N, m - 1 \in S PROVE m \in S
  <2> DEFINE n == N - (m - 1)
  <2>1. n \in 1..N /\ n - 1 = N - m /\ n - 1 \in 0..N /\ n \in 0..N /\ m - 1 <= N /\ m \in Nat
    BY <1>1
  <2> DEFINE u == e[n - 1]
             q == Quoted(p[n])
             t == e[n]
  <2>2. q \in Seq(Characters) /\ u \in Seq(Characters)
    BY <1>1, <1>2, <2>1, QuotedText
  <2>3. t = u \o q
    BY <2>1, EscapingSteps DEF e, N
  <2>4. Len(t) \in 0..Len(pattern) - 1 /\ \A k \in 1..Len(t) : pattern[k] = t[k]
    BY <1>7, <2>1
  <2>5. u = e[N - m]
    BY <2>1
  <2> HIDE DEF n, u, q, t
  <2>6. /\ Len(t) = Len(u) + Len(q) /\ Len(u) \in Nat /\ Len(q) \in Nat
        /\ \A k \in 1..Len(u) : t[k] = u[k]
    BY <2>2, <2>3, ConcatIndex, LenProperties
  <2>7. Len(u) \in 0..Len(pattern) - 1 /\ \A k \in 1..Len(u) : pattern[k] = u[k]
    <3>1. \A k \in 1..Len(u) : k \in 1..Len(t)
      BY <2>6
    <3>2. Len(pattern) \in Nat
      BY <1>5
    <3> QED BY <2>4, <2>6, <3>1, <3>2
  <2> QED BY <2>1, <2>5, <2>7
<1> HIDE DEF S
<1>8. ASSUME NEW m \in 0..N PROVE m \in S
  <2>1. m \in Nat /\ \A i \in 1..m : i \in 1..N
    BY <1>1
  <2> QED BY <1>6, <1>7, <2>1, UpTo
<1>9. ASSUME NEW n \in 0..N
      PROVE  Len(e[n]) \in 0..Len(pattern) - 1 /\ \A k \in 1..Len(e[n]) : pattern[k] = e[n][k]
  <2>1. N - n \in 0..N /\ N - (N - n) = n /\ N - n <= N
    BY <1>1
  <2> QED BY <1>8, <2>1 DEF S
<1> QED BY <1>1, <1>2, <1>5, <1>9 DEF e, N

LEMMA PatternStep ==
  ASSUME NEW p \in Texts, NEW pattern, pattern = Escaped(p) \o <<"%">>, NEW n \in 1..Len(p)
  PROVE  LET from == Len(Escaping(p)[n - 1])
             to == Len(Escaping(p)[n]) IN
         IF p[n] \in {"\\", "%", "_"}
         THEN to = from + 2 /\ pattern[from + 1] = "\\" /\ pattern[from + 2] = p[n]
         ELSE to = from + 1 /\ pattern[from + 1] = p[n]
<1> DEFINE u == Escaping(p)[n - 1]
           q == Quoted(p[n])
           t == Escaping(p)[n]
<1>1. n - 1 \in 0..Len(p) /\ n \in 0..Len(p) /\ p[n] \in Characters
  BY PatternParts, ElementOfSeq DEF Texts, Characters
<1>2. u \in Seq(Characters) /\ q \in Seq(Characters) /\ t = u \o q
  BY <1>1, EscapingTexts, EscapingSteps, QuotedText
<1>3. \A k \in 1..Len(t) : pattern[k] = t[k]
  BY <1>1, PatternParts
<1> HIDE DEF u, q, t
<1>4. Len(u) \in Nat /\ Len(t) = Len(u) + Len(q) /\ \A k \in 1..Len(q) : t[Len(u) + k] = q[k]
  BY <1>2, ConcatIndex, LenProperties
<1>5. CASE p[n] \in {"\\", "%", "_"}
  <2>1. q = <<"\\", p[n]>>
    BY <1>5 DEF q, Quoted
  <2>2. Len(q) = 2 /\ q[1] = "\\" /\ q[2] = p[n]
    BY <2>1
  <2>3. Len(t) = Len(u) + 2 /\ t[Len(u) + 1] = "\\" /\ t[Len(u) + 2] = p[n]
    BY <1>4, <2>2
  <2>4. Len(u) + 1 \in 1..Len(t) /\ Len(u) + 2 \in 1..Len(t)
    BY <1>4, <2>3
  <2>5. /\ Len(t) = Len(u) + 2 /\ pattern[Len(u) + 1] = "\\" /\ pattern[Len(u) + 2] = p[n]
    BY <1>3, <2>3, <2>4
  <2> QED BY <1>5, <2>5 DEF u, t
<1>6. CASE p[n] \notin {"\\", "%", "_"}
  <2>1. q = <<p[n]>>
    BY <1>6 DEF q, Quoted
  <2>2. Len(q) = 1 /\ q[1] = p[n]
    BY <2>1
  <2>3. Len(t) = Len(u) + 1 /\ t[Len(u) + 1] = p[n]
    BY <1>4, <2>2
  <2>4. Len(u) + 1 \in 1..Len(t)
    BY <1>4, <2>3
  <2>5. Len(t) = Len(u) + 1 /\ pattern[Len(u) + 1] = p[n]
    BY <1>3, <2>3, <2>4
  <2> QED BY <1>6, <2>5 DEF u, t
<1> QED BY <1>5, <1>6

\* Where in v the characters of p after the n-th stand.
Suits(v, p, n) ==
  {i \in 1..Len(v) + 1 : i - 1 + (Len(p) - n) <= Len(v)
                         /\ \A k \in n + 1..Len(p) : v[i + (k - n - 1)] = p[k]}

LEMMA SuitsStep ==
  ASSUME NEW v, NEW p, Len(v) \in Nat, Len(p) \in Nat, NEW n \in 1..Len(p)
  PROVE  Suits(v, p, n - 1) = {i \in 1..Len(v) : v[i] = p[n] /\ i + 1 \in Suits(v, p, n)}
<1>1. ASSUME NEW i \in Suits(v, p, n - 1)
      PROVE  i \in 1..Len(v) /\ v[i] = p[n] /\ i + 1 \in Suits(v, p, n)
  <2>1. i \in 1..Len(v) + 1 /\ i - 1 + (Len(p) - (n - 1)) <= Len(v)
    BY DEF Suits
  <2>2. \A k \in n..Len(p) : v[i + (k - n)] = p[k]
    BY <2>1 DEF Suits
  <2>3. v[i] = p[n]
    BY <2>1, <2>2
  <2>4. \A k \in n + 1..Len(p) : k \in n..Len(p) /\ i + (k - n) = (i + 1) + (k - n - 1)
    BY <2>1
  <2>5. \A k \in n + 1..Len(p) : v[(i + 1) + (k - n - 1)] = p[k]
    BY <2>2, <2>4
  <2> QED BY <2>1, <2>3, <2>5 DEF Suits
<1>2. ASSUME NEW i \in 1..Len(v), v[i] = p[n], i + 1 \in Suits(v, p, n)
      PROVE  i \in Suits(v, p, n - 1)
  <2>1. (i + 1) - 1 + (Len(p) - n) <= Len(v) /\ \A k \in n + 1..Len(p) : v[(i + 1) + (k - n - 1)] = p[k]
    BY <1>2 DEF Suits
  <2>2. ASSUME NEW k \in (n - 1) + 1..Len(p) PROVE v[i + (k - (n - 1) - 1)] = p[k]
    <3>1. CASE k = n
      BY <1>2, <3>1
    <3>2. CASE k # n
      <4>1. k \in n + 1..Len(p) /\ i + (k - (n - 1) - 1) = (i + 1) + (k - n - 1)
        BY <3>2
      <4> QED BY <2>1, <4>1
    <3> QED BY <3>1, <3>2
  <2>3. i \in 1..Len(v) + 1 /\ i - 1 + (Len(p) - (n - 1)) <= Len(v)
    BY <2>1
  <2> QED BY <2>2, <2>3 DEF Suits
<1>3. \A i \in Suits(v, p, n - 1) : i \in {j \in 1..Len(v) : v[j] = p[n] /\ j + 1 \in Suits(v, p, n)}
  BY <1>1
<1> QED BY <1>2, <1>3

LEMMA SuitsMatch ==
  ASSUME NEW v \in Texts, NEW p \in Texts, NEW pattern, pattern = Escaped(p) \o <<"%">>
  PROVE  Starts(v, pattern)[Len(pattern) - Len(Escaping(p)[0])] = Suits(v, p, 0)
<1> DEFINE N == Len(p)
           M == Len(pattern)
           g == Starts(v, pattern)
           L == [k \in 0..N |-> Len(Escaping(p)[k])]
           special == {"\\", "%", "_"}
           S == {m \in Nat : m <= N => g[M - L[N - m]] = Suits(v, p, N - m)}
<1>1. Len(v) \in Nat /\ N \in Nat /\ N \in 0..N /\ 0 \in 0..N
  BY LenProperties DEF Texts
<1>2. M = L[N] + 1 /\ pattern[M] = "%" /\ L \in [0..N -> 0..M - 1]
  BY <1>1, PatternParts
<1>3. L[N] \in Nat /\ M \in Nat
  <2>1. Len(Escaping(p)[N]) \in Nat
    BY <1>1, PatternParts, LenProperties
  <2> QED BY <1>1, <1>2, <2>1
<1>4. ASSUME NEW k \in 1..N
      PROVE  IF p[k] \in special
             THEN L[k] = L[k - 1] + 2 /\ pattern[L[k - 1] + 1] = "\\" /\ pattern[L[k - 1] + 2] = p[k]
             ELSE L[k] = L[k - 1] + 1 /\ pattern[L[k - 1] + 1] = p[k]
  <2>1. k \in 0..N /\ k - 1 \in 0..N
    BY <1>1
  <2> QED BY <2>1, PatternStep
<1>5. \A k \in 1..N :
        Suits(v, p, k - 1) = {i \in 1..Len(v) : v[i] = p[k] /\ i + 1 \in Suits(v, p, k)}
  BY <1>1, SuitsStep
<1>6. \A k \in 0..M : g[k] = Started(v, pattern, g, k)
  BY <1>1, <1>3, StartsStep
<1>7. /\ g[0] = {Len(v) + 1}
      /\ \A k \in 1..M :
           /\ pattern[M - k + 1] = "%" => g[k] = {i \in 1..Len(v) + 1 : \E j \in g[k - 1] : i <= j}
           /\ pattern[M - k + 1] = "\\" => 
                g[k] = {i \in 1..Len(v) : k > 1 /\ v[i] = pattern[M - k + 2] /\ i + 1 \in g[k - 2]}
           /\ pattern[M - k + 1] \notin {"%", "\\"} =>
                g[k] = {i \in 1..Len(v) : pattern[M - k + 1] \in {"_", v[i]} /\ i + 1 \in g[k - 1]}
  <2>1. 0 \in 0..M /\ \A k \in 1..M : k \in 0..M /\ k # 0
    BY <1>3
  <2> HIDE DEF g
  <2>2. g[0] = {Len(v) + 1}
    BY <1>6, <2>1 DEF Started
  <2>3. ASSUME NEW k \in 1..M, pattern[M - k + 1] = "%"
        PROVE  g[k] = {i \in 1..Len(v) + 1 : \E j \in g[k - 1] : i <= j}
    BY <1>6, <2>1, <2>3 DEF Started
  <2>4. ASSUME NEW k \in 1..M, pattern[M - k + 1] = "\\"
        PROVE  g[k] = {i \in 1..Len(v) : k > 1 /\ v[i] = pattern[M - k + 2] /\ i + 1 \in g[k - 2]}
    BY <1>6, <2>1, <2>4 DEF Started
  <2>5. ASSUME NEW k \in 1..M, pattern[M - k + 1] \notin {"%", "\\"}
        PROVE  g[k] = {i \in 1..Len(v) : pattern[M - k + 1] \in {"_", v[i]} /\ i + 1 \in g[k - 1]}
    BY <1>6, <2>1, <2>5 DEF Started
  <2> QED BY <2>2, <2>3, <2>4, <2>5
<1> HIDE DEF N, M, g, L
<1>8. 0 \in S
  <2>1. M - L[N] = 1 /\ N - 0 = N
    BY <1>1, <1>2, <1>3
  <2>2. 1 \in 1..M /\ M - 1 + 1 = M /\ 1 - 1 = 0
    BY <1>2, <1>3
  <2>3. g[1] = {i \in 1..Len(v) + 1 : \E j \in g[0] : i <= j}
    <3>1. g[1] = {i \in 1..Len(v) + 1 : \E j \in g[1 - 1] : i <= j}
      BY <1>2, <1>7, <2>2
    <3> QED BY <2>2, <3>1
  <2>4. Len(v) + 1 \in g[0] /\ \A i \in 1..Len(v) + 1 : i <= Len(v) + 1
    <3>1. g[0] = {Len(v) + 1}
      BY <1>7
    <3> QED BY <1>1, <3>1
  <2>5. g[1] = 1..Len(v) + 1
    BY <2>3, <2>4
  <2>6. Suits(v, p, N) = 1..Len(v) + 1
    BY <1>1 DEF Suits, N
  <2> QED BY <2>1, <2>5, <2>6
<1>9. ASSUME NEW m \in 1..N, m - 1 \in S PROVE m \in S
  <2>1. PICK k \in 1..N : k = N - (m - 1)
    BY <1>1
  <2>2. k - 1 = N - m /\ k - 1 \in 0..N /\ k \in 0..N /\ m - 1 <= N /\ m \in Nat
    BY <1>1, <2>1
  <2>3. g[M - L[k]] = Suits(v, p, k)
    BY <1>9, <2>1, <2>2
  <2> HIDE DEF S
  <2>4. PICK j \in 1..M : j = M - L[k - 1]
    <3>1. PICK a \in 0..M - 1 : a = L[k - 1]
      BY <1>2, <2>2
    <3>2. M - a \in 1..M
      BY <1>3
    <3> QED BY <3>1, <3>2
  <2>5. L[k] \in 0..M - 1 /\ L[k - 1] \in 0..M - 1
    BY <1>2, <2>2
  <2>6. PICK a \in 0..M - 1, b \in 0..M - 1 : a = L[k - 1] /\ b = L[k]
    BY <2>5
  <2>7. j = M - a /\ M - j + 1 = a + 1 /\ M - j + 2 = a + 2
    BY <1>3, <2>4, <2>6
  <2>8. CASE p[k] \in special
    <3>1. pattern[M - j + 1] = "\\" /\ pattern[M - j + 2] = p[k] /\ b = a + 2
      BY <1>4, <2>6, <2>7, <2>8
    <3>2. j - 2 = M - b /\ j > 1
      BY <1>3, <2>7, <3>1
    <3>3. g[j] = {i \in 1..Len(v) : j > 1 /\ v[i] = pattern[M - j + 2] /\ i + 1 \in g[j - 2]}
      BY <1>7, <3>1
    <3>4. g[j] = {i \in 1..Len(v) : v[i] = p[k] /\ i + 1 \in Suits(v, p, k)}
      BY <2>3, <2>6, <3>1, <3>2, <3>3
    <3> QED BY <1>5, <2>2, <2>4, <3>4 DEF S
  <2>9. CASE p[k] \notin special
    <3>1. pattern[M - j + 1] = p[k] /\ b = a + 1
      BY <1>4, <2>6, <2>7, <2>9
    <3>2. j - 1 = M - b
      BY <1>3, <2>7, <3>1
    <3>3. g[j] = {i \in 1..Len(v) : pattern[M - j + 1] \in {"_", v[i]} /\ i + 1 \in g[j - 1]}
      BY <1>7, <2>9, <3>1
    <3>4. g[j] = {i \in 1..Len(v) : v[i] = p[k] /\ i + 1 \in Suits(v, p, k)}
      BY <2>3, <2>6, <2>9, <3>1, <3>2, <3>3
    <3> QED BY <1>5, <2>2, <2>4, <3>4 DEF S
  <2> QED BY <2>8, <2>9
<1> HIDE DEF S
<1>10. N \in S
  BY <1>1, <1>8, <1>9, UpTo
<1>11. N - N = 0 /\ N <= N /\ L[0] = Len(Escaping(p)[0])
  BY <1>1 DEF L
<1> QED BY <1>10, <1>11 DEF S, N, M, g

\* The pattern that SearchUsers makes of a prefix matches the texts that begin with
\* it and no others, whichever characters of LIKE are in the prefix (escapeLikePattern).
THEOREM PrefixMatched ==
  ASSUME NEW v \in Texts, NEW p \in Texts
  PROVE  Like(v, Escaped(p) \o <<"%">>) <=> IsPrefix(p, v)
<1> DEFINE pattern == Escaped(p) \o <<"%">>
<1>1. Len(v) \in Nat /\ Len(p) \in Nat /\ 0 \in 0..Len(p)
  BY LenProperties DEF Texts
<1>2. Len(Escaping(p)[0]) = 0
  <2>1. Escaping(p)[0] = <<>>
    BY EscapingSteps
  <2> QED BY <2>1
<1>3. Len(pattern) - 0 = Len(pattern)
  <2>1. Len(p) \in 0..Len(p)
    BY <1>1
  <2>2. Len(Escaping(p)[Len(p)]) \in Nat /\ Len(pattern) = Len(Escaping(p)[Len(p)]) + 1
    BY <2>1, PatternParts, LenProperties
  <2> QED BY <2>2
<1>4. Starts(v, pattern)[Len(pattern)] = Suits(v, p, 0)
  <2>1. Starts(v, pattern)[Len(pattern) - Len(Escaping(p)[0])] = Suits(v, p, 0)
    BY SuitsMatch
  <2> HIDE DEF pattern
  <2> QED BY <1>2, <1>3, <2>1
<1>5. 1 \in Suits(v, p, 0) <=> Len(p) <= Len(v) /\ \A k \in 1..Len(p) : v[k] = p[k]
  BY <1>1 DEF Suits
<1>6. IsPrefix(p, v) <=> Len(p) <= Len(v) /\ \A k \in 1..Len(p) : v[k] = p[k]
  BY <1>1, SubSeqProperties DEF IsPrefix, Texts
<1> QED BY <1>4, <1>5, <1>6 DEF Like

-----------------------------------------------------------------------------
(* The order of the answers.                                               *)

\* below[v] is what comes before v in an order of all of M.
IsRanking(M, below) ==
  /\ IsFiniteSet(M) /\ below \in [M -> SUBSET M]
  /\ \A v \in M : v \notin below[v]
  /\ \A v, w \in M : v # w => v \in below[w] \/ w \in below[v]
  /\ \A v \in M : \A w \in below[v] : below[w] \subseteq below[v]

\* Counting what comes before numbers the members of M from 1 on.
LEMMA Ranked ==
  ASSUME NEW M, NEW below, IsRanking(M, below)
  PROVE  /\ Cardinality(M) \in Nat
         /\ \A v, w \in M : Cardinality(below[v]) = Cardinality(below[w]) => v = w
         /\ \A n \in 1..Cardinality(M) : \E v \in M : Cardinality(below[v]) + 1 = n
<1> USE DEF IsRanking
<1>1. Cardinality(M) \in Nat
  BY FS_CardinalityType
<1>2. ASSUME NEW v \in M PROVE Cardinality(below[v]) + 1 \in 1..Cardinality(M) /\ IsFiniteSet(below[v])
  <2>1. below[v] \in SUBSET (M \ {v})
    OBVIOUS
  <2>2. IsFiniteSet(M \ {v}) /\ Cardinality(M \ {v}) = Cardinality(M) - 1
    BY FS_RemoveElement
  <2>3. IsFiniteSet(below[v]) /\ Cardinality(below[v]) <= Cardinality(M \ {v})
    BY <2>1, <2>2, FS_Subset
  <2>4. Cardinality(below[v]) \in Nat
    BY <2>3, FS_CardinalityType
  <2> QED BY <1>1, <2>2, <2>3, <2>4
<1>3. ASSUME NEW v \in M, NEW w \in below[v] PROVE Cardinality(below[w]) # Cardinality(below[v])
  <2>1. below[w] \in SUBSET below[v] /\ w \notin below[w]
    OBVIOUS
  <2>2. IsFiniteSet(below[v])
    BY <1>2
  <2>3. Cardinality(below[v]) = Cardinality(below[w]) => below[v] = below[w]
    BY <2>1, <2>2, FS_Subset
  <2> QED BY <2>1, <2>3
<1>4. \A v, w \in M : Cardinality(below[v]) = Cardinality(below[w]) => v = w
  BY <1>3
<1> DEFINE C == Cardinality(M)
           place == [v \in M |-> Cardinality(below[v]) + 1]
<1>5. place \in Injection(M, 1..C)
  <2>1. place \in [M -> 1..C]
    BY <1>2
  <2>2. ASSUME NEW v \in M, NEW w \in M, place[v] = place[w] PROVE v = w
    <3>1. Cardinality(below[v]) \in Int /\ Cardinality(below[w]) \in Int
      BY <1>2, FS_CardinalityType
    <3>2. Cardinality(below[v]) + 1 = Cardinality(below[w]) + 1
      BY <2>2
    <3>3. Cardinality(below[v]) = Cardinality(below[w])
      BY <3>1, <3>2
    <3> QED BY <1>4, <3>3
  <2> HIDE DEF place
  <2> QED BY <2>1, <2>2 DEF Injection, IsInjective
<1>6. IsFiniteSet(1..C) /\ Cardinality(1..C) = C
  BY <1>1, FS_Interval
<1>7. place \in Surjection(M, 1..C)
  <2> HIDE DEF place, C
  <2>1. Cardinality(M) = Cardinality(1..C)
    BY <1>6 DEF C
  <2> QED BY <1>5, <1>6, <2>1, FS_Injection
<1> QED BY <1>1, <1>4, <1>7 DEF Surjection

\* A text as the collation sees it, followed by zeros.
Key(v) == [n \in Nat |-> IF n \in 1..Len(v) THEN Order[v[n]] + 1 ELSE 0]
Less(f, g) == \E n \in Nat : (\A k \in Nat : k < n => f[k] = g[k]) /\ f[n] < g[n]

LEMMA KeyIs ==
  ASSUME NEW v \in Seq(Allowed)
  PROVE  /\ Len(v) \in Nat /\ Key(v) \in [Nat -> Nat]
         /\ \A n \in 1..Len(v) : Key(v)[n] = Order[v[n]] + 1 /\ Key(v)[n] > 0 /\ v[n] \in Allowed
         /\ \A n \in Nat : n \notin 1..Len(v) => Key(v)[n] = 0
<1>1. Len(v) \in Nat /\ \A n \in 1..Len(v) : v[n] \in Allowed
  BY LenProperties, ElementOfSeq
<1>2. \A n \in 1..Len(v) : Order[v[n]] \in Nat
  BY <1>1, DirectoryAssumption
<1>3. \A n \in Nat : Key(v)[n] \in Nat
  BY <1>2 DEF Key
<1> QED BY <1>1, <1>2, <1>3 DEF Key

LEMMA KeysDiffer ==
  ASSUME NEW v \in Seq(Allowed), NEW w \in Seq(Allowed), Key(v) = Key(w)
  PROVE  v = w
<1>1. Len(v) \in Nat /\ Len(w) \in Nat
  BY KeyIs
<1>2. ASSUME NEW s \in Seq(Allowed), NEW t \in Seq(Allowed), Key(s) = Key(t) PROVE ~(Len(s) < Len(t))
  <2> SUFFICES ASSUME Len(s) < Len(t) PROVE FALSE
    OBVIOUS
  <2>0. Len(s) \in Nat /\ Len(t) \in Nat
    BY KeyIs
  <2>1. Len(t) \in 1..Len(t) /\ Len(t) \notin 1..Len(s) /\ Len(t) \in Nat
    BY <2>0
  <2>2. Key(t)[Len(t)] > 0
    BY <2>1, KeyIs
  <2>3. Key(s)[Len(t)] = 0
    BY <2>1, KeyIs
  <2> QED BY <1>2, <2>2, <2>3
<1>3. Len(v) = Len(w)
  BY <1>1, <1>2
<1>4. ASSUME NEW n \in 1..Len(v) PROVE v[n] = w[n]
  <2>1. Key(v)[n] = Order[v[n]] + 1 /\ v[n] \in Allowed
    BY KeyIs
  <2>2. Key(w)[n] = Order[w[n]] + 1 /\ w[n] \in Allowed
    BY <1>3, KeyIs
  <2>3. Order[v[n]] \in Nat /\ Order[w[n]] \in Nat /\ Order[v[n]] + 1 = Order[w[n]] + 1
    BY <2>1, <2>2, DirectoryAssumption
  <2>4. Order[v[n]] = Order[w[n]]
    BY <2>3
  <2> QED BY <2>1, <2>2, <2>4, DirectoryAssumption
<1> QED BY <1>3, <1>4, SeqEqual

\* Of two texts that differ, one comes first.
LEMMA LessTotal ==
  ASSUME NEW f \in [Nat -> Nat], NEW g \in [Nat -> Nat], f # g
  PROVE  Less(f, g) \/ Less(g, f)
<1> DEFINE T == {n \in Nat : f[n] # g[n]}
<1>1. T # {} /\ T \in SUBSET Nat
  OBVIOUS
<1>2. PICK n \in T : \A m \in T : n <= m
  BY <1>1, Least
<1>3. \A k \in Nat : k < n => f[k] = g[k]
  BY <1>2
<1>4. f[n] < g[n] \/ g[n] < f[n]
  <2>1. f[n] \in Nat /\ g[n] \in Nat /\ f[n] # g[n]
    BY <1>2
  <2> QED BY <2>1
<1> QED BY <1>3, <1>4 DEF Less

LEMMA LessTransitive ==
  ASSUME NEW f \in [Nat -> Nat], NEW g \in [Nat -> Nat], NEW h \in [Nat -> Nat],
         Less(f, g), Less(g, h)
  PROVE  Less(f, h) /\ f # h
<1>1. PICK n \in Nat : (\A k \in Nat : k < n => f[k] = g[k]) /\ f[n] < g[n]
  BY DEF Less
<1>2. PICK m \in Nat : (\A k \in Nat : k < m => g[k] = h[k]) /\ g[m] < h[m]
  BY DEF Less
<1>3. PICK l \in {m, n} : l <= m /\ l <= n
  OBVIOUS
<1>4. \A k \in Nat : k < l => f[k] = h[k]
  <2>1. \A k \in Nat : k < l => k < n /\ k < m
    BY <1>3
  <2> QED BY <1>1, <1>2, <2>1
<1>5. f[l] < h[l]
  <2>1. f[l] \in Nat /\ g[l] \in Nat /\ h[l] \in Nat /\ l \in Nat
    BY <1>3
  <2>2. CASE n < m
    BY <1>1, <1>2, <1>3, <2>1, <2>2
  <2>3. CASE m < n
    BY <1>1, <1>2, <1>3, <2>1, <2>3
  <2>4. CASE m = n
    BY <1>1, <1>2, <1>3, <2>1, <2>4
  <2> QED BY <2>2, <2>3, <2>4
<1>6. f # h
  <2>1. f[l] \in Nat /\ l \in Nat
    BY <1>3
  <2> QED BY <1>5, <2>1
<1> QED BY <1>3, <1>4, <1>5, <1>6 DEF Less

LEMMA BeginningsAgree ==
  ASSUME NEW v \in Seq(Allowed), NEW w \in Seq(Allowed), NEW n \in Nat, n <= Len(v), n <= Len(w)
  PROVE  SubSeq(v, 1, n) = SubSeq(w, 1, n) <=> \A k \in Nat : k < n + 1 => Key(v)[k] = Key(w)[k]
<1>1. Len(v) \in Nat /\ Len(w) \in Nat
  BY KeyIs
<1>2. \A k \in 1..n : k \in 1..Len(v) /\ k \in 1..Len(w)
  BY <1>1
<1>3. \A k \in 1..n : v[k] = w[k] <=> Key(v)[k] = Key(w)[k]
  <2> SUFFICES ASSUME NEW k \in 1..n PROVE v[k] = w[k] <=> Key(v)[k] = Key(w)[k]
    OBVIOUS
  <2>1. Key(v)[k] = Order[v[k]] + 1 /\ v[k] \in Allowed
    BY <1>2, KeyIs
  <2>2. Key(w)[k] = Order[w[k]] + 1 /\ w[k] \in Allowed
    BY <1>2, KeyIs
  <2>3. Order[v[k]] \in Nat /\ Order[w[k]] \in Nat
    BY <2>1, <2>2, DirectoryAssumption
  <2>4. Order[v[k]] + 1 = Order[w[k]] + 1 => Order[v[k]] = Order[w[k]]
    BY <2>3
  <2> QED BY <2>1, <2>2, <2>4, DirectoryAssumption
<1>4. SubSeq(v, 1, n) = SubSeq(w, 1, n) <=> \A k \in 1..n : v[k] = w[k]
  <2>1. /\ SubSeq(v, 1, n) \in Seq(Allowed) /\ Len(SubSeq(v, 1, n)) = n
        /\ \A k \in 1..n : SubSeq(v, 1, n)[k] = v[k]
    <3>1. \A k \in 1..n : v[k] \in Allowed
      BY <1>2, KeyIs
    <3>2. /\ SubSeq(v, 1, n) \in Seq(Allowed) 
          /\ Len(SubSeq(v, 1, n)) = IF 1 <= n THEN n - 1 + 1 ELSE 0
          /\ \A i \in 1..n - 1 + 1 : SubSeq(v, 1, n)[i] = v[1 + i - 1]
      BY <3>1, SubSeqProperties
    <3>3. \A k \in 1..n : k \in 1..n - 1 + 1 /\ 1 + k - 1 = k
      OBVIOUS
    <3> QED BY <3>2, <3>3
  <2>2. /\ SubSeq(w, 1, n) \in Seq(Allowed) /\ Len(SubSeq(w, 1, n)) = n
        /\ \A k \in 1..n : SubSeq(w, 1, n)[k] = w[k]
    <3>1. \A k \in 1..n : w[k] \in Allowed
      BY <1>2, KeyIs
    <3>2. /\ SubSeq(w, 1, n) \in Seq(Allowed)
          /\ Len(SubSeq(w, 1, n)) = IF 1 <= n THEN n - 1 + 1 ELSE 0
          /\ \A i \in 1..n - 1 + 1 : SubSeq(w, 1, n)[i] = w[1 + i - 1]
      BY <3>1, SubSeqProperties
    <3>3. \A k \in 1..n : k \in 1..n - 1 + 1 /\ 1 + k - 1 = k
      OBVIOUS
    <3> QED BY <3>2, <3>3
  <2>3. ASSUME \A k \in 1..n : v[k] = w[k] PROVE SubSeq(v, 1, n) = SubSeq(w, 1, n)
    <3>1. \A k \in 1..Len(SubSeq(v, 1, n)) : SubSeq(v, 1, n)[k] = SubSeq(w, 1, n)[k]
      BY <2>1, <2>2, <2>3
    <3> QED BY <2>1, <2>2, <3>1, SeqEqual
  <2>4. ASSUME SubSeq(v, 1, n) = SubSeq(w, 1, n) PROVE \A k \in 1..n : v[k] = w[k]
    BY <2>1, <2>2, <2>4
  <2> QED BY <2>3, <2>4
<1>5. Key(v)[0] = 0 /\ Key(w)[0] = 0
  BY <1>1, KeyIs
<1>6. \A k \in Nat : k < n + 1 <=> k = 0 \/ k \in 1..n
  OBVIOUS
<1> QED BY <1>3, <1>4, <1>5, <1>6

LEMMA BeforeIsLess ==
  ASSUME NEW v \in Seq(Allowed), NEW w \in Seq(Allowed)
  PROVE  Before(v, w) <=> Less(Key(v), Key(w))
<1>1. Len(v) \in Nat /\ Len(w) \in Nat /\ DOMAIN v = 1..Len(v) /\ DOMAIN w = 1..Len(w)
  BY LenProperties
<1>2. Len(v) <= Len(w) => (IsPrefix(v, w) <=> \A k \in Nat : k < Len(v) + 1 => Key(v)[k] = Key(w)[k])
  <2> SUFFICES ASSUME Len(v) <= Len(w)
               PROVE  IsPrefix(v, w) <=> \A k \in Nat : k < Len(v) + 1 => Key(v)[k] = Key(w)[k]
    OBVIOUS
  <2>1. IsPrefix(v, w) <=> SubSeq(v, 1, Len(v)) = SubSeq(w, 1, Len(v))
    BY DEF IsPrefix
  <2>2. Len(v) \in Nat /\ Len(v) <= Len(v)
    BY <1>1
  <2> QED BY <2>1, <2>2, BeginningsAgree
<1>3. ASSUME IsStrictPrefix(v, w) PROVE Less(Key(v), Key(w))
  <2>1. Len(v) <= Len(w) /\ v # w /\ \A k \in Nat : k < Len(v) + 1 => Key(v)[k] = Key(w)[k]
    BY <1>2, <1>3 DEF IsStrictPrefix, IsPrefix
  <2>2. Len(v) # Len(w)
    <3> SUFFICES ASSUME Len(v) = Len(w) PROVE FALSE
      OBVIOUS
    <3>1. ASSUME NEW k \in Nat PROVE Key(v)[k] = Key(w)[k]
      <4>1. CASE k < Len(v) + 1
        BY <2>1, <4>1
      <4>2. CASE ~(k < Len(v) + 1)
        <5>1. k \notin 1..Len(v) /\ k \notin 1..Len(w)
          BY <1>1, <4>2
        <5> QED BY <5>1, KeyIs
      <4> QED BY <4>1, <4>2
    <3>2. Key(v) = Key(w)
      BY <3>1 DEF Key
    <3> QED BY <2>1, <3>2, KeysDiffer
  <2>3. Len(v) + 1 \in Nat /\ Len(v) + 1 \notin 1..Len(v) /\ Len(v) + 1 \in 1..Len(w)
    <3>1. Len(v) <= Len(w)
      BY <2>1
    <3>2. PICK a \in Nat, b \in Nat : a = Len(v) /\ b = Len(w)
      BY KeyIs
    <3>3. a < b
      BY <2>2, <3>1, <3>2
    <3>4. a + 1 \in Nat /\ a + 1 \notin 1..a /\ a + 1 \in 1..b
      BY <3>3
    <3> QED BY <3>2, <3>4
  <2>4. Key(v)[Len(v) + 1] = 0 /\ Key(w)[Len(v) + 1] > 0
    BY <2>3, KeyIs
  <2> QED BY <2>1, <2>3, <2>4 DEF Less
<1>4. ASSUME NEW n \in 1..Len(v), n \in 1..Len(w)
      PROVE  /\ SubSeq(v, 1, n - 1) = SubSeq(w, 1, n - 1)
                  <=> \A k \in Nat : k < n => Key(v)[k] = Key(w)[k]
             /\ Order[v[n]] < Order[w[n]] <=> Key(v)[n] < Key(w)[n]
  <2>1. n - 1 \in Nat /\ n - 1 <= Len(v) /\ n - 1 <= Len(w) /\ (n - 1) + 1 = n
    BY <1>1, <1>4
  <2>2. SubSeq(v, 1, n - 1) = SubSeq(w, 1, n - 1)
          <=> \A k \in Nat : k < (n - 1) + 1 => Key(v)[k] = Key(w)[k]
    BY <2>1, BeginningsAgree
  <2>3. Key(v)[n] = Order[v[n]] + 1 /\ v[n] \in Allowed
    BY KeyIs
  <2>4. Key(w)[n] = Order[w[n]] + 1 /\ w[n] \in Allowed
    BY <1>4, KeyIs
  <2>5. Order[v[n]] \in Nat /\ Order[w[n]] \in Nat
    BY <2>3, <2>4, DirectoryAssumption
  <2>6. Order[v[n]] < Order[w[n]] <=> Order[v[n]] + 1 < Order[w[n]] + 1
    BY <2>5
  <2>7. Order[v[n]] < Order[w[n]] <=> Key(v)[n] < Key(w)[n]
    BY <2>3, <2>4, <2>6
  <2> QED BY <2>1, <2>2, <2>7
<1>5. ASSUME NEW n \in DOMAIN v \cap DOMAIN w,
             SubSeq(v, 1, n - 1) = SubSeq(w, 1, n - 1), Order[v[n]] < Order[w[n]]
      PROVE  Less(Key(v), Key(w))
  <2>1. n \in 1..Len(v) /\ n \in 1..Len(w) /\ n \in Nat
    BY <1>1, <1>5
  <2> QED BY <1>4, <1>5, <2>1 DEF Less
<1>6. ASSUME Less(Key(v), Key(w)) PROVE Before(v, w)
  <2>1. PICK n \in Nat : (\A k \in Nat : k < n => Key(v)[k] = Key(w)[k]) /\ Key(v)[n] < Key(w)[n]
    BY <1>6 DEF Less
  <2>2. n \in 1..Len(w)
    <3>1. Key(v)[n] \in Nat
      BY KeyIs
    <3>2. n \notin 1..Len(w) => Key(w)[n] = 0
      BY KeyIs
    <3> QED BY <2>1, <3>1, <3>2
  <2>3. CASE n \in 1..Len(v)
    BY <1>1, <1>4, <2>1, <2>2, <2>3 DEF Before
  <2>4. CASE n \notin 1..Len(v)
    <3>1. Len(v) < n /\ Len(v) < Len(w)
      BY <1>1, <2>2, <2>4
    <3>2. IsPrefix(v, w)
      <4>1. \A k \in Nat : k < Len(v) + 1 => k < n
        BY <1>1, <3>1
      <4>2. Len(v) <= Len(w)
        BY <1>1, <3>1
      <4> QED BY <1>2, <2>1, <4>1, <4>2
    <3>3. v # w
      BY <1>1, <3>1
    <3> QED BY <3>2, <3>3 DEF Before, IsStrictPrefix
  <2> QED BY <2>3, <2>4
<1> QED BY <1>3, <1>5, <1>6 DEF Before

\* The collation orders all usernames.
LEMMA BeforeOrders ==
  ASSUME NEW u \in Seq(Allowed), NEW v \in Seq(Allowed), NEW w \in Seq(Allowed)
  PROVE  /\ u # v => Before(u, v) \/ Before(v, u)
         /\ Before(u, v) /\ Before(v, w) => Before(u, w) /\ u # w
<1>1. Key(u) \in [Nat -> Nat] /\ Key(v) \in [Nat -> Nat] /\ Key(w) \in [Nat -> Nat]
  BY KeyIs
<1>2. ASSUME u # v PROVE Before(u, v) \/ Before(v, u)
  <2>1. Key(u) # Key(v)
    BY <1>2, KeysDiffer
  <2> HIDE DEF Less
  <2> QED BY <1>1, <2>1, LessTotal, BeforeIsLess
<1>3. ASSUME Before(u, v), Before(v, w) PROVE Before(u, w) /\ u # w
  <2>1. Less(Key(u), Key(v)) /\ Less(Key(v), Key(w))
    BY <1>3, BeforeIsLess
  <2>2. Less(Key(u), Key(w)) /\ Key(u) # Key(w)
    BY <1>1, <2>1, LessTransitive
  <2> QED BY <2>2, BeforeIsLess
<1> QED BY <1>2, <1>3

-----------------------------------------------------------------------------
(* SearchUsers.                                                            *)

Beginners(prefix) == {w \in Taken : IsPrefix(prefix, w)}
GoesFirst(prefix, v, w) == v # w /\ w # prefix /\ (v = prefix \/ Before(v, w))
Place(M, prefix, v) == Cardinality({w \in M : GoesFirst(prefix, w, v)}) + 1
Answer(M, prefix, limit) ==
  [n \in 1..Min({limit, Cardinality(M)}) |-> CHOOSE v \in M : Place(M, prefix, v) = n]

LEMMA FoundAmong ==
  ASSUME NEW prefix \in Usernames, Taken \subseteq Usernames, NEW limit
  PROVE  Found(prefix, limit) = Answer(Beginners(prefix), prefix, limit)
<1> DEFINE matching == {v \in Taken : Like(v, Escaped(prefix) \o <<"%">>)}
<1>1. matching = Beginners(prefix)
  BY UsernamesAreTexts, PrefixMatched DEF Beginners
<1>2. Found(prefix, limit) = Answer(matching, prefix, limit)
  BY DEF Found, Answer, Place, GoesFirst
<1> QED BY <1>1, <1>2

LEMMA Places ==
  ASSUME NEW prefix, NEW M \in SUBSET Usernames, IsFiniteSet(M)
  PROVE  /\ Cardinality(M) \in Nat
         /\ \A v, w \in M : Place(M, prefix, v) = Place(M, prefix, w) => v = w
         /\ \A n \in 1..Cardinality(M) : \E v \in M : Place(M, prefix, v) = n
         /\ prefix \in M => Place(M, prefix, prefix) = 1
<1> DEFINE below == [v \in M |-> {w \in M : GoesFirst(prefix, w, v)}]
<1>1. \A v \in M : v \in Seq(Allowed)
  BY DEF Usernames
<1>2. ASSUME NEW v \in M, NEW w \in M, v # w
      PROVE  GoesFirst(prefix, v, w) \/ GoesFirst(prefix, w, v)
  BY <1>1, <1>2, BeforeOrders DEF GoesFirst
<1>3. ASSUME NEW u \in M, NEW v \in M, NEW w \in M, GoesFirst(prefix, u, v), GoesFirst(prefix, v, w)
      PROVE  GoesFirst(prefix, u, w)
  <2>1. v # prefix /\ w # prefix /\ Before(v, w)
    BY <1>3 DEF GoesFirst
  <2>2. CASE u = prefix
    BY <2>1, <2>2 DEF GoesFirst
  <2>3. CASE u # prefix
    <3>1. Before(u, v)
      BY <1>3, <2>3 DEF GoesFirst
    <3>2. Before(u, w) /\ u # w
      BY <1>1, <2>1, <3>1, BeforeOrders
    <3> QED BY <2>1, <3>2 DEF GoesFirst
  <2> QED BY <2>2, <2>3
<1>4. IsRanking(M, below)
  <2>1. \A v \in M : ~GoesFirst(prefix, v, v)
    BY DEF GoesFirst
  <2> QED BY <1>2, <1>3, <2>1 DEF IsRanking
<1>5. \A v \in M : Place(M, prefix, v) = Cardinality(below[v]) + 1
  BY DEF Place
<1>6. \A v \in M : Cardinality(below[v]) \in Nat
  <2>1. \A v \in M : below[v] \in SUBSET M
    OBVIOUS
  <2> HIDE DEF below
  <2> QED BY <2>1, FS_Subset, FS_CardinalityType
<1>7. prefix \in M => below[prefix] = {}
  BY DEF GoesFirst
<1> HIDE DEF below
<1>8. /\ Cardinality(M) \in Nat
      /\ \A v, w \in M : Cardinality(below[v]) = Cardinality(below[w]) => v = w
      /\ \A n \in 1..Cardinality(M) : \E v \in M : Cardinality(below[v]) + 1 = n
  BY <1>4, Ranked
<1>9. ASSUME NEW v \in M, NEW w \in M, Place(M, prefix, v) = Place(M, prefix, w) PROVE v = w
  <2>1. Cardinality(below[v]) + 1 = Cardinality(below[w]) + 1
    BY <1>5, <1>9
  <2>2. Cardinality(below[v]) = Cardinality(below[w])
    BY <1>6, <2>1
  <2> QED BY <1>8, <2>2
<1>10. prefix \in M => Place(M, prefix, prefix) = 1
  BY <1>5, <1>7, FS_EmptySet
<1> QED BY <1>5, <1>8, <1>9, <1>10

LEMMA AnswerExact ==
  ASSUME NEW prefix, NEW M \in SUBSET Usernames, IsFiniteSet(M), NEW limit \in Nat, limit # 0
  PROVE  LET found == Answer(M, prefix, limit) IN
         /\ ToSet(found) \subseteq M /\ IsInjective(found)
         /\ Len(found) = Min({limit, Cardinality(M)})
         /\ prefix \in M => found[1] = prefix
<1> DEFINE found == Answer(M, prefix, limit)
           K == Min({limit, Cardinality(M)})
<1>1. Cardinality(M) \in Nat
  BY Places
<1>2. K \in {limit, Cardinality(M)} /\ K <= Cardinality(M)
  <2>1. {limit, Cardinality(M)} \in SUBSET Nat /\ {limit, Cardinality(M)} # {}
    BY <1>1
  <2>2. PICK x \in {limit, Cardinality(M)} : \A y \in {limit, Cardinality(M)} : x <= y
    BY <2>1, Least
  <2>3. K \in {limit, Cardinality(M)} /\ \A y \in {limit, Cardinality(M)} : K <= y
    BY <2>2 DEF Min
  <2> QED BY <2>3
<1>3. K \in Nat
  BY <1>1, <1>2
<1> HIDE DEF K
<1>4. found = [n \in 1..K |-> CHOOSE v \in M : Place(M, prefix, v) = n]
  BY DEF Answer, K
<1> HIDE DEF found
<1>5. ASSUME NEW n \in 1..K PROVE found[n] \in M /\ Place(M, prefix, found[n]) = n
  <2>1. n \in 1..Cardinality(M)
    BY <1>1, <1>2, <1>3
  <2>2. \E v \in M : Place(M, prefix, v) = n
    <3>1. \A k \in 1..Cardinality(M) : \E v \in M : Place(M, prefix, v) = k
      BY Places
    <3> QED BY <2>1, <3>1
  <2>3. found[n] = CHOOSE v \in M : Place(M, prefix, v) = n
    BY <1>4
  <2> QED BY <2>2, <2>3
<1>6. DOMAIN found = 1..K /\ Len(found) = K
  <2>1. found \in Seq(M)
    BY <1>3, <1>4, <1>5, SeqDef
  <2>2. DOMAIN found = 1..K
    BY <1>4
  <2>3. Len(found) \in Nat /\ DOMAIN found = 1..Len(found)
    BY <2>1, LenProperties
  <2> QED BY <1>3, <2>2, <2>3
<1>7. ASSUME prefix \in M PROVE found[1] = prefix
  <2>1. Cardinality(M) # 0
    BY <1>7, FS_EmptySet
  <2>2. 1 \in 1..K
    BY <1>1, <1>2, <2>1
  <2>3. found[1] \in M /\ Place(M, prefix, found[1]) = 1
    BY <1>5, <2>2
  <2> QED BY <1>7, <2>3, Places
<1>8. ToSet(found) \subseteq M /\ IsInjective(found)
  BY <1>5, <1>6 DEF ToSet, IsInjective
<1> QED BY <1>6, <1>7, <1>8 DEF found, K

LEMMA TakenFinite ==
  ASSUME DirectoryInv
  PROVE  Taken \subseteq Usernames /\ IsFiniteSet(Taken)
<1> DEFINE S == {username[i] : i \in live}
           f == [i \in live |-> username[i]]
<1>1. f \in Surjection(live, S)
  BY DEF Surjection
<1>2. IsFiniteSet(live)
  BY DEF DirectoryInv
<1> HIDE DEF S, f
<1>3. IsFiniteSet(S)
  BY <1>1, <1>2, FS_Surjection
<1>4. Taken \in SUBSET S
  BY DEF Taken, S
<1>5. Taken \subseteq Usernames
  BY DEF DirectoryInv, ScanInv, Taken
<1> QED BY <1>3, <1>4, <1>5, FS_Subset

\* Every beginning of a username can be searched for, and SearchUsers returns the
\* users whose username has that very beginning, each once: all of them if they are
\* no more than the limit, the exact match first; whatever the prefix quotes, and
\* in any collation that tells characters apart (escapeLikePattern, SearchUsers).
THEOREM SearchLiteral == Spec => []SearchIsLiteral
<1>1. ASSUME DirectoryInv,
             NEW prefix \in UNION {{SubSeq(v, 1, n) : n \in DOMAIN v} : v \in Taken},
             NEW limit \in {0, 1}
      PROVE  LET found == SearchUsers(prefix, limit)
                 literal == {w \in Taken : IsPrefix(prefix, w)}
                 most == IF limit = 0 THEN SearchDefault ELSE limit
             IN /\ Searchable(prefix, limit)
                /\ ToSet(found) \subseteq literal /\ IsInjective(found)
                /\ Len(found) = Min({most, Cardinality(literal)})
                /\ prefix \in literal => found[1] = prefix
  <2> DEFINE most == IF limit = 0 THEN SearchDefault ELSE limit
             found == SearchUsers(prefix, limit)
  <2>1. Taken \subseteq Usernames /\ IsFiniteSet(Taken)
    BY <1>1, TakenFinite
  <2>2. prefix \in Usernames
    <3>1. PICK v \in Taken : \E n \in DOMAIN v : prefix = SubSeq(v, 1, n)
      OBVIOUS
    <3>2. PICK n \in DOMAIN v : prefix = SubSeq(v, 1, n)
      BY <3>1
    <3>3. v \in Seq(Allowed) /\ Len(v) \in 1..MaxLength /\ MaxLength \in Nat
      BY <2>1, UsernamesAssumption DEF Usernames
    <3>4. DOMAIN v = 1..Len(v) /\ n \in 0..Len(v) /\ n \in 1..MaxLength
      BY <3>3, LenProperties
    <3>5. prefix \in Seq(Allowed) /\ Len(prefix) = n
      BY <3>2, <3>3, <3>4, Beginning
    <3> QED BY <3>4, <3>5 DEF Usernames
  <2>3. most \in Nat /\ most # 0 /\ limit \in 0..SearchMax
    BY DirectoryAssumption
  <2> HIDE DEF most
  <2>4. Searchable(prefix, limit)
    BY <2>2, <2>3, UsernamesAcceptable DEF Searchable
  <2>5. found = Answer(Beginners(prefix), prefix, most)
    BY <2>1, <2>2, FoundAmong DEF SearchUsers, most
  <2>6. Beginners(prefix) \in SUBSET Usernames /\ IsFiniteSet(Beginners(prefix))
    <3>1. Beginners(prefix) \in SUBSET Taken
      BY DEF Beginners
    <3> QED BY <2>1, <3>1, FS_Subset
  <2> HIDE DEF found
  <2>7. /\ ToSet(found) \subseteq Beginners(prefix) /\ IsInjective(found)
        /\ Len(found) = Min({most, Cardinality(Beginners(prefix))})
        /\ prefix \in Beginners(prefix) => found[1] = prefix
    BY <2>3, <2>5, <2>6, AnswerExact
  <2> QED BY <2>4, <2>7 DEF Beginners, found, most
<1>2. DirectoryInv => SearchIsLiteral
  BY <1>1 DEF SearchIsLiteral
<1> QED BY <1>2, DirectoryKept, PTL
=============================================================================
