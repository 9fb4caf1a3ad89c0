---------------------------- MODULE ListingProofs ----------------------------
(***************************************************************************)
(* Theorems about Listing, for any ids, page sizes and rows, however many  *)
(* there are: that pages are taken by their count of smaller ids, and      *)
(* continued after their greatest, neither repeats a row nor leaves one    *)
(* out.                                                                    *)
(***************************************************************************)
EXTENDS Listing, Integers, FiniteSetTheorems, WellFoundedInduction, TLAPS

Below(i, S) == {j \in S : j < i}

(***************************************************************************)
(* The rows up to the cursor were returned, those after it were not.       *)
(***************************************************************************)
ScanInv ==
  /\ live \subseteq drawn /\ drawn \subseteq Ids /\ stable \subseteq live
  /\ cursor \in Ids \cup {0} /\ scanning \in BOOLEAN /\ returned \in [Ids -> Nat]
  /\ \A i \in Ids :
       /\ returned[i] <= 1
       /\ scanning /\ i > cursor => returned[i] = 0
       /\ i \in stable /\ (scanning => i <= cursor) => returned[i] = 1

-----------------------------------------------------------------------------
(* Sets of numbers.                                                        *)

LEMMA Least ==
  ASSUME NEW T \in SUBSET Nat, T # {}
  PROVE  \E x \in T : \A y \in T : x <= y
<1> DEFINE R == OpToRel(<, Nat)
<1>1. IsWellFoundedOn(R, Nat)
  BY NatLessThanWellFounded
<1>2. \A x, y \in Nat : y < x => <<y, x>> \in R
  BY DEF OpToRel
<1> HIDE DEF R
<1>3. PICK x \in T : \A y \in T : ~(<<y, x>> \in R)
  BY <1>1, WFMin
<1>4. \A y \in T : ~(y < x)
  BY <1>2, <1>3
<1> QED BY <1>4

LEMMA Greatest ==
  ASSUME NEW T \in SUBSET Nat, T # {}, NEW m \in Nat, \A t \in T : t <= m
  PROVE  \E x \in T : \A y \in T : y <= x
<1> DEFINE U == {k \in Nat : \A y \in T : y <= k}
<1>1. PICK k \in U : \A l \in U : k <= l
  BY Least
<1>2. ASSUME k \notin T PROVE FALSE
  <2>0. k \in Nat /\ \A y \in T : y \in Nat /\ y <= k /\ y # k
    BY <1>2
  <2>1. PICK y \in T : TRUE
    BY Zenon
  <2>2. y < k /\ y >= 0
    BY <2>0, <2>1
  <2>3. k - 1 \in Nat
    BY <2>0, <2>2
  <2>4. \A z \in T : z <= k - 1
    BY <2>0
  <2> QED BY <1>1, <2>0, <2>3, <2>4
<1> QED BY <1>2

LEMMA BelowIn ==
  ASSUME NEW S \in SUBSET Nat, NEW i \in Nat
  PROVE  /\ \A j : j \in Below(i, S) <=> j \in S /\ j < i
         /\ \A j \in Below(i, S) : j \in Nat /\ j <= i
         /\ Below(i, S) \in SUBSET Nat
<1>1. \A j : j \in Below(i, S) <=> j \in S /\ j < i
  BY DEF Below
<1>2. \A j \in S : j \in Nat
  OBVIOUS
<1>3. ASSUME NEW j \in Below(i, S) PROVE j \in Nat /\ j <= i
  <2>1. j \in Nat /\ j < i
    BY <1>1, <1>2
  <2> QED BY <2>1
<1>4. Below(i, S) \subseteq Nat
  BY <1>3, Zenon
<1> QED BY <1>1, <1>3, <1>4

LEMMA BelowFinite ==
  ASSUME NEW S \in SUBSET Nat, NEW i \in Nat
  PROVE  IsFiniteSet(Below(i, S)) /\ Cardinality(Below(i, S)) \in Nat
<1>1. Below(i, S) \in SUBSET Nat /\ \A j \in Below(i, S) : j <= i
  BY BelowIn
<1>2. IsFiniteSet(Below(i, S))
  BY <1>1, FS_BoundedSetOfNaturals
<1> QED BY <1>2, FS_CardinalityType

\* The count of smaller elements orders a set.
LEMMA BelowGrows ==
  ASSUME NEW S \in SUBSET Nat, NEW i \in Nat, NEW j \in Nat, i <= j
  PROVE  /\ Cardinality(Below(i, S)) <= Cardinality(Below(j, S))
         /\ i \in S /\ i < j => Cardinality(Below(i, S)) < Cardinality(Below(j, S))
<1>1. Below(i, S) \in SUBSET Below(j, S)
  <2>1. ASSUME NEW x \in Below(i, S) PROVE x \in Below(j, S)
    <3>1. x \in S /\ x < i /\ x \in Nat
      BY BelowIn
    <3> QED BY <3>1, BelowIn
  <2> QED BY <2>1
<1>2. /\ IsFiniteSet(Below(j, S)) /\ Cardinality(Below(j, S)) \in Nat
      /\ Cardinality(Below(i, S)) \in Nat
  BY BelowFinite
<1>3. /\ Cardinality(Below(i, S)) <= Cardinality(Below(j, S))
      /\ Cardinality(Below(j, S)) = Cardinality(Below(i, S)) => Below(j, S) = Below(i, S)
  BY <1>1, <1>2, FS_Subset
<1>4. i \in S /\ i < j => i \in Below(j, S) /\ i \notin Below(i, S)
  BY BelowIn
<1> QED BY <1>2, <1>3, <1>4

-----------------------------------------------------------------------------
(* Pages.                                                                  *)

LEMMA FirstDef ==
  ASSUME NEW n, NEW S
  PROVE  First(n, S) = {i \in S : Cardinality(Below(i, S)) < n}
BY DEF First, Below

\* A page has no holes.
LEMMA PageClosed ==
  ASSUME NEW S \in SUBSET Nat, NEW n \in Nat, NEW j \in First(n, S), NEW i \in S, i <= j
  PROVE  i \in First(n, S)
<1>1. j \in Nat /\ i \in Nat /\ Cardinality(Below(j, S)) < n
  BY FirstDef
<1>2. Cardinality(Below(i, S)) <= Cardinality(Below(j, S))
  BY <1>1, BelowGrows
<1> QED BY <1>1, <1>2, BelowFinite, FirstDef

\* A page that another one follows has a last row.
LEMMA PageEnds ==
  ASSUME NEW S \in SUBSET Nat, NEW n \in Nat \ {0}, HasMore(n, S)
  PROVE  /\ Largest(First(n, S)) \in First(n, S)
         /\ \A i \in First(n, S) : i <= Largest(First(n, S))
<1>1. \A i \in S : Cardinality(Below(i, S)) \in Nat
  BY BelowFinite
<1>2. PICK i \in S : Cardinality(Below(i, S)) = n
  <2>1. PICK i \in S : i \in First(n + 1, S) /\ i \notin First(n, S)
    <3>1. First(n, S) \subseteq First(n + 1, S) /\ First(n + 1, S) \subseteq S
      <4>1. ASSUME NEW i \in First(n, S) PROVE i \in First(n + 1, S)
        <5>1. i \in S /\ Cardinality(Below(i, S)) < n
          BY FirstDef
        <5>2. Cardinality(Below(i, S)) < n + 1
          BY <1>1, <5>1
        <5> QED BY <5>1, <5>2, FirstDef
      <4> QED BY <4>1, FirstDef
    <3> QED BY <3>1 DEF HasMore
  <2>2. Cardinality(Below(i, S)) < n + 1 /\ ~(Cardinality(Below(i, S)) < n)
    BY <2>1, FirstDef
  <2> QED BY <1>1, <2>1, <2>2
<1>3. Below(i, S) # {} /\ Below(i, S) \in SUBSET Nat /\ i \in Nat /\ \A j \in Below(i, S) : j <= i
  BY <1>2, FS_EmptySet, BelowIn
<1>4. PICK m \in Below(i, S) : \A j \in Below(i, S) : j <= m
  BY <1>3, Greatest
<1>5. m \in First(n, S)
  <2>1. m \in S /\ m < i /\ m \in Nat /\ i \in Nat
    BY <1>3, BelowIn
  <2>2. Cardinality(Below(m, S)) < n
    BY <1>2, <2>1, BelowGrows
  <2> QED BY <2>1, <2>2, FirstDef
<1>6. ASSUME NEW j \in First(n, S) PROVE j <= m
  <2>1. j \in S /\ Cardinality(Below(j, S)) < n
    BY FirstDef
  <2>2. ~(i <= j)
    BY <1>1, <1>2, <2>1, BelowGrows
  <2>3. j \in Below(i, S)
    BY <1>3, <2>1, <2>2, BelowIn
  <2> QED BY <1>4, <2>3
<1> QED BY <1>5, <1>6 DEF Largest

\* A page that none follows has all the rows that are left.
LEMMA LastPage ==
  ASSUME NEW S \in SUBSET Nat, NEW n \in Nat \ {0}, ~HasMore(n, S)
  PROVE  First(n, S) = S
<1> SUFFICES ASSUME S \ First(n, S) # {} PROVE FALSE
  BY FirstDef
<1>1. PICK i \in S \ First(n, S) : \A j \in S \ First(n, S) : i <= j
  BY Least
<1>2. i \in Nat /\ Cardinality(Below(i, S)) \in Nat /\ IsFiniteSet(Below(i, S))
  BY BelowFinite
<1>3. Cardinality(Below(i, S)) > n
  BY <1>1, <1>2, FirstDef DEF HasMore
<1>4. Below(i, S) # {} /\ Below(i, S) \in SUBSET Nat /\ \A j \in Below(i, S) : j <= i
  BY <1>2, <1>3, FS_EmptySet, BelowIn
<1>5. PICK m \in Below(i, S) : \A j \in Below(i, S) : j <= m
  BY <1>2, <1>4, Greatest
<1>6. m \in S /\ m \in Nat /\ m < i
  BY <1>2, <1>5, BelowIn
<1>7. Below(m, S) = Below(i, S) \ {m}
  <2>1. ASSUME NEW j \in Below(m, S) PROVE j \in Below(i, S) \ {m}
    <3>1. j \in S /\ j \in Nat /\ j < m
      BY <1>6, BelowIn
    <3> QED BY <1>2, <1>6, <3>1, BelowIn
  <2>2. ASSUME NEW j \in Below(i, S), j # m PROVE j \in Below(m, S)
    <3>1. j \in S /\ j \in Nat /\ j <= m
      BY <1>2, <1>5, BelowIn
    <3> QED BY <1>6, <2>2, <3>1, BelowIn
  <2> QED BY <2>1, <2>2
<1>8. Cardinality(Below(m, S)) = Cardinality(Below(i, S)) - 1
  <2>1. Cardinality(Below(i, S) \ {m}) = Cardinality(Below(i, S)) - 1
    BY <1>2, <1>5, FS_RemoveElement
  <2> QED BY <1>7, <2>1
<1>9. m \notin First(n, S)
  BY <1>2, <1>3, <1>8, FirstDef
<1> QED BY <1>1, <1>2, <1>6, <1>9

-----------------------------------------------------------------------------
(* The steps of a listing.                                                 *)

LEMMA LimitPositive == ASSUME NEW size \in Sizes PROVE Limit(size) \in Nat \ {0}
BY ListingAssumption DEF Limit

LEMMA StartScanKeeps == ScanInv /\ StartScan => ScanInv'
<1> SUFFICES ASSUME ScanInv, StartScan PROVE ScanInv'
  OBVIOUS
<1>1. /\ scanning' = TRUE /\ cursor' = 0 /\ returned' = [i \in Ids |-> 0] /\ stable' = live
      /\ UNCHANGED <<live, drawn>>
  BY DEF StartScan
<1>2. \A i \in Ids : i \in Nat /\ i > 0
  BY ListingAssumption
<1> QED BY <1>1, <1>2 DEF ScanInv

LEMMA NextPageKeeps == ASSUME ScanInv, NEW size \in Sizes, NextPage(size) PROVE ScanInv'
<1> DEFINE rest == After(cursor)
           page == First(Limit(size), rest)
<1>1. /\ scanning /\ UNCHANGED <<live, drawn, stable>> /\ Limit(size) \in Nat \ {0}
      /\ returned' = [i \in Ids |-> IF i \in page THEN returned[i] + 1 ELSE returned[i]]
  BY LimitPositive DEF NextPage
<1>2. /\ live \subseteq Ids /\ Ids \subseteq Nat \ {0} /\ stable \subseteq live
      /\ cursor \in Nat /\ returned \in [Ids -> Nat] /\ page \subseteq rest
  BY ListingAssumption, FirstDef DEF ScanInv
<1>3. rest \in SUBSET Nat /\ \A i \in rest : i \in Ids /\ i > cursor
  BY <1>2 DEF After
<1>4. \A i \in stable : i > cursor => i \in rest
  BY <1>2 DEF After
<1>5. \/ /\ HasMore(Limit(size), rest)
         /\ cursor' = Largest(page) /\ scanning' = scanning
      \/ /\ ~HasMore(Limit(size), rest)
         /\ cursor' = 0 /\ scanning' = FALSE
  BY DEF NextPage
<1> HIDE DEF rest
<1>6. ASSUME NEW i \in Ids
      PROVE  /\ i > cursor => returned[i] = 0
             /\ i \in stable /\ i <= cursor => returned[i] = 1
             /\ returned[i] <= 1 /\ returned[i] \in Nat /\ i \in Nat
             /\ returned'[i] = IF i \in page THEN returned[i] + 1 ELSE returned[i]
  BY <1>1, <1>2 DEF ScanInv
<1>7. returned' \in [Ids -> Nat] /\ \A i \in Ids : returned'[i] <= 1
  <2>1. ASSUME NEW i \in Ids PROVE returned'[i] \in Nat /\ returned'[i] <= 1
    BY <1>2, <1>3, <1>6
  <2> HIDE DEF page
  <2> QED BY <1>1, <2>1
\* What the page brings, the next one need not bring again.
<1>8. CASE HasMore(Limit(size), rest)
  <2>1. /\ Largest(page) \in page /\ \A i \in page : i <= Largest(page)
        /\ cursor' = Largest(page) /\ scanning'
    BY <1>1, <1>3, <1>5, <1>8, PageEnds
  <2> DEFINE last == Largest(page)
  <2>2. last \in rest /\ last \in Ids /\ last \in Nat /\ last > cursor
    BY <1>2, <1>3, <2>1
  <2>3. ASSUME NEW i \in rest, i <= last PROVE i \in page
    BY <1>1, <1>3, <2>1, <2>3, PageClosed
  <2> HIDE DEF page, last
  <2>4. ASSUME NEW i \in Ids, i > last PROVE returned'[i] = 0
    BY <1>2, <1>6, <2>1, <2>2, <2>4 DEF last
  <2>5. ASSUME NEW i \in Ids, i \in stable, i <= last PROVE returned'[i] = 1
    <3>1. CASE i <= cursor
      <4>1. i \notin page
        BY <1>2, <1>3, <1>6, <3>1
      <4> QED BY <1>6, <2>5, <3>1, <4>1
    <3>2. CASE i > cursor
      <4>1. i \in page
        BY <1>4, <2>3, <2>5, <3>2
      <4> QED BY <1>6, <3>2, <4>1
    <3> QED BY <1>2, <1>6, <3>1, <3>2
  <2>6. cursor' = last /\ scanning' = TRUE
    BY <1>1, <1>5, <1>8 DEF last, ScanInv
  <2> QED BY <1>1, <1>7, <2>2, <2>4, <2>5, <2>6 DEF ScanInv
<1>9. CASE ~HasMore(Limit(size), rest)
  <2>1. page = rest /\ cursor' = 0 /\ ~scanning' /\ scanning' \in BOOLEAN
    BY <1>1, <1>3, <1>5, <1>9, LastPage
  <2> HIDE DEF page
  <2>2. ASSUME NEW i \in Ids, i \in stable PROVE returned'[i] = 1
    <3>1. CASE i <= cursor
      <4>1. i \notin page
        BY <1>2, <1>3, <1>6, <3>1
      <4> QED BY <1>6, <2>2, <3>1, <4>1
    <3>2. CASE i > cursor
      <4>1. i \in page
        BY <1>4, <2>1, <2>2, <3>2
      <4> QED BY <1>6, <3>2, <4>1
    <3> QED BY <1>2, <1>6, <3>1, <3>2
  <2> QED BY <1>1, <1>7, <2>1, <2>2 DEF ScanInv
<1> QED BY <1>8, <1>9

LEMMA InsertRowKeeps == ASSUME ScanInv, NEW i \in Ids, InsertRow(i) PROVE ScanInv'
<1>1. /\ live' = live \cup {i} /\ drawn' = drawn \cup {i}
      /\ UNCHANGED <<cursor, scanning, returned, stable>>
  BY DEF InsertRow, scanVars
<1> QED BY <1>1 DEF ScanInv

LEMMA DeleteRowKeeps == ASSUME ScanInv, NEW i \in Ids, DeleteRow(i) PROVE ScanInv'
<1>1. /\ live' = live \ {i} /\ stable' = stable \ {i}
      /\ UNCHANGED <<cursor, scanning, returned, drawn>>
  BY DEF DeleteRow, scanVars
<1> QED BY <1>1 DEF ScanInv

LEMMA ListingInitKeeps == ASSUME NEW rows \in SUBSET Ids, ListingInit(rows) PROVE ScanInv
<1>1. /\ live = rows /\ drawn = rows /\ cursor = 0 /\ scanning = FALSE
      /\ returned = [i \in Ids |-> 0] /\ stable = {}
  BY DEF ListingInit
<1>2. \A i \in Ids : returned[i] = 0 /\ i \notin stable
  BY <1>1
<1>3. returned \in [Ids -> Nat] /\ stable \subseteq live /\ live \subseteq drawn /\ drawn \subseteq Ids
  BY <1>1
<1>4. \A i \in Ids : returned[i] <= 1
  BY <1>2
<1> QED BY <1>1, <1>2, <1>3, <1>4 DEF ScanInv

LEMMA ScanInvExact == ScanInv => ScanIsExact
BY DEF ScanInv, ScanIsExact
=============================================================================
