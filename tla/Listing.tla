------------------------------- MODULE Listing -------------------------------
(***************************************************************************)
(* A listing read page by page (internal/store/pagination.go, used by      *)
(* ListUsers, by the reconciliation and by the polling): each page is one  *)
(* statement, continued after the last id of the page before; rows are     *)
(* inserted and deleted in between.                                        *)
(***************************************************************************)
EXTENDS Naturals, FiniteSets

CONSTANTS
  Ids,          \* ids of rows, random and never used twice; their order is that of the index
  DefaultSize, MaxSize,
  Sizes         \* the page sizes that clients ask for; 0 stands for every size below 1

ASSUME ListingAssumption ==
  /\ Ids \subseteq Nat \ {0} /\ Sizes \subseteq Nat
  /\ DefaultSize \in 1..MaxSize /\ MaxSize \in Nat

VARIABLES
  live,      \* the rows
  drawn,     \* the ids used so far
  cursor,    \* of the client: the page token, 0 for none
  scanning,  \* the client goes on
  returned,  \* history: how often the listing returned each id
  stable     \* history: the ids that were there from the start of the listing on

listingVars == <<live, drawn, cursor, scanning, returned, stable>>
scanVars == <<cursor, scanning, returned>>

\* NormalizePageSize.
Limit(size) == IF size = 0 THEN DefaultSize ELSE IF size > MaxSize THEN MaxSize ELSE size

\* Mutant of After: the cursor is included.
AfterOrAt(c) == {i \in live : i >= c}

After(c) == {i \in live : i > c}

\* ORDER BY id LIMIT n.
First(n, S) == {i \in S : Cardinality({j \in S : j < i}) < n}

\* One row more than the page is fetched, to know whether another page follows.
HasMore(limit, S) == First(limit + 1, S) # First(limit, S)

Largest(S) == CHOOSE i \in S : \A j \in S : j <= i

StartScan ==
  /\ ~scanning
  /\ scanning' = TRUE /\ cursor' = 0
  /\ returned' = [i \in Ids |-> 0] /\ stable' = live
  /\ UNCHANGED <<live, drawn>>

NextPage(size) ==
  /\ scanning
  /\ LET rest == After(cursor)
         page == First(Limit(size), rest) IN
     /\ returned' = [i \in Ids |-> IF i \in page THEN returned[i] + 1 ELSE returned[i]]
     /\ IF HasMore(Limit(size), rest)
        THEN cursor' = Largest(page) /\ UNCHANGED scanning
        ELSE cursor' = 0 /\ scanning' = FALSE
  /\ UNCHANGED <<live, drawn, stable>>

InsertRow(i) ==
  /\ i \notin drawn
  /\ live' = live \cup {i} /\ drawn' = drawn \cup {i}
  /\ UNCHANGED <<scanVars, stable>>

DeleteRow(i) ==
  /\ i \in live
  /\ live' = live \ {i} /\ stable' = stable \ {i}
  /\ UNCHANGED <<scanVars, drawn>>

ListingInit(rows) ==
  /\ live = rows /\ drawn = rows
  /\ cursor = 0 /\ scanning = FALSE
  /\ returned = [i \in Ids |-> 0] /\ stable = {}

-----------------------------------------------------------------------------
\* The listing returns no row twice, and every row that is there throughout,
\* whatever is inserted or deleted between its pages, the row of the cursor
\* included, and whatever page sizes are asked for (listEntities).
ScanIsExact ==
  \A i \in Ids :
    /\ returned[i] <= 1
    /\ i \in stable /\ (scanning => i <= cursor) => returned[i] = 1
=============================================================================
