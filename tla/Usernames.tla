------------------------------ MODULE Usernames ------------------------------
(***************************************************************************)
(* How a username is made from what the identity provider says             *)
(* (internal/server/username.go), and how a prefix is searched for         *)
(* (SearchUsers).  Texts are sequences of characters; lengths and numbers  *)
(* are scaled down.                                                        *)
(***************************************************************************)
EXTENDS Integers, SequencesExt

CONSTANTS
  Letters, Capitals,  \* characters of usernames (with digits), and those lowered to them
  Lower,              \* Capitals -> Letters
  Others,             \* characters that usernames do not have
  MaxLength,
  NumericMax, Numeral,  \* 2..NumericMax -> texts
  Randoms,            \* the random suffixes
  Fallbacks           \* the usernames made from a hash of the subject

Allowed == Letters \cup {"_", "-"}
Texts == Seq(Allowed \cup Capitals \cup Others)

ASSUME UsernamesAssumption ==
  /\ MaxLength \in Nat /\ NumericMax \in Nat
  /\ Lower \in [Capitals -> Letters]
  /\ Allowed \cap (Capitals \cup Others) = {} /\ "-" \notin Letters
  /\ \A r \in Randoms : r \in Seq(Letters) /\ Len(r) < MaxLength
  /\ \A n \in 2..NumericMax : Numeral[n] \in Seq(Letters) /\ Len(Numeral[n]) < MaxLength
  /\ \A m, n \in 2..NumericMax : Numeral[m] = Numeral[n] => m = n
  /\ \A f \in Fallbacks : f \in Seq(Allowed) /\ Len(f) \in 1..MaxLength

\* validateUsername, and validateUsernamePrefix, which is the same.
Acceptable(v) ==
  Len(v) \in 1..MaxLength /\ \A n \in DOMAIN v : v[n] \in Allowed

Truncate(v, n) == SubSeq(v, 1, IF Len(v) > n THEN n ELSE Len(v))

TrimRight(v) ==
  LET kept == {n \in DOMAIN v : v[n] # "-"} IN
  IF kept = {} THEN <<>> ELSE SubSeq(v, 1, Max(kept))
TrimLeft(v) == Reverse(TrimRight(Reverse(v)))

Lowered(c) ==
  IF c \in Capitals THEN Lower[c] ELSE IF c \in Others THEN "-" ELSE c

\* Runs of dashes and of characters not allowed become one dash.
Squeeze(u, c) ==
  IF Lowered(c) = "-" /\ IsSuffix(<<"-">>, u) THEN u ELSE Append(u, Lowered(c))
Squeezing(v) ==
  LET built[n \in 0..Len(v)] == IF n = 0 THEN <<>> ELSE Squeeze(built[n - 1], v[n])
  IN built
Squeezed(v) == Squeezing(v)[Len(v)]

\* normalizeUsernameCandidate.
Normalized(v) == Truncate(TrimLeft(TrimRight(Squeezed(v))), MaxLength)

EmailLocalPart(v) ==
  LET at == SelectInSeq(v, LAMBDA c : c = "@") IN
  IF at = 0 THEN v ELSE SubSeq(v, 1, at - 1)

\* deriveUsernameBase: the first of the three that leaves anything.
DeriveBase(preferred, email, name, fallback) ==
  LET first == SelectInSeq(<<preferred, EmailLocalPart(email), name>>,
                           LAMBDA v : Normalized(v) # <<>>)
  IN IF first = 0 THEN fallback
     ELSE Normalized(<<preferred, EmailLocalPart(email), name>>[first])

\* Mutant of WithSuffix: the whole is shortened, suffix and all.
SuffixCut(base, suffix) == Truncate(base \o suffix, MaxLength)

\* usernameWithSuffix.
WithSuffix(base, suffix) ==
  LET room == MaxLength - Len(suffix) IN
  (IF Len(base) > room THEN TrimRight(Truncate(base, room)) ELSE base) \o suffix

\* usernameCandidateIterator: the base, the numbers, and then random suffixes.
Candidates(base, random) ==
  [n \in 1..NumericMax + Len(random) |->
     IF n = 1 THEN base
     ELSE WithSuffix(base, <<"-">> \o IF n <= NumericMax THEN Numeral[n]
                                      ELSE random[n - NumericMax])]

-----------------------------------------------------------------------------
(* LIKE, as PostgreSQL matches it.                                         *)

\* Where in v the last n characters of the pattern may begin to match all the rest.
Starts(v, pattern) ==
  LET starts[n \in 0..Len(pattern)] ==
        LET here == pattern[Len(pattern) - n + 1] IN
        IF n = 0 THEN {Len(v) + 1}
        ELSE IF here = "%" THEN {i \in 1..Len(v) + 1 : \E j \in starts[n - 1] : i <= j}
        ELSE IF here = "\\"
             THEN {i \in 1..Len(v) :
                     n > 1 /\ v[i] = pattern[Len(pattern) - n + 2] /\ i + 1 \in starts[n - 2]}
        ELSE {i \in 1..Len(v) : here \in {"_", v[i]} /\ i + 1 \in starts[n - 1]}
  IN starts
Like(v, pattern) == 1 \in Starts(v, pattern)[Len(pattern)]

\* Mutant of Quoted: an underscore matches any character.
QuotedPercent(c) == IF c \in {"\\", "%"} THEN <<"\\", c>> ELSE <<c>>

Quoted(c) == IF c \in {"\\", "%", "_"} THEN <<"\\", c>> ELSE <<c>>

\* escapeLikePattern.
Escaping(v) ==
  LET built[n \in 0..Len(v)] == IF n = 0 THEN <<>> ELSE built[n - 1] \o Quoted(v[n])
  IN built
Escaped(v) == Escaping(v)[Len(v)]

=============================================================================
